-------------------------- MODULE LspSessionProofs --------------------------
(***************************************************************************)
(* Proofs about LspSession, for any files, contents and languages.         *)
(***************************************************************************)
EXTENDS LspSession, TLAPS

(* What was never recorded is not open, and nothing is where the server    *)
(* does not want documents.                                                *)
RecordBounds ==
    /\ \A p \in Paths : documents[p] = None => server[p] = None
    /\ ~openClose => \A p \in Paths : server[p] = None
    /\ stage = "starting" => \A p \in Paths : documents[p] = None

(* A copy on a live server is the recorded one and no newer, and only a    *)
(* failed didOpen leaves a recorded document without one.                  *)
Mirror ==
    Running =>
        /\ \A p \in Paths : server[p] # None =>
              /\ server[p].version <= documents[p].version
              /\ server[p].language = documents[p].language
              /\ syncKind # "none" => server[p].content = documents[p].content
        /\ openClose /\ stage \in {"starting", "idle", "syncing", "asked"} =>
              \A p \in Paths \ lost : documents[p] # None => server[p] # None

(* A request that is asked has recorded what it read.                      *)
AskedRecorded ==
    stage = "asked" =>
        /\ documents[target.path] # None
        /\ documents[target.path].content = target.content
        /\ documents[target.path].language = target.language

(* How far the closing handshake got, on a server that did not fail.       *)
Handshake ==
    /\ process = "killed" => canceled \/ stage \in {"failed", "closed"}
    /\ process = "exited" => "exit" \in said
    /\ stage \notin {"exiting", "waiting", "closed"} => said = {}
    /\ stage = "exiting" => "exit" \notin said
    /\ process # "crashed" /\ ~canceled =>
          /\ stage \in {"closing", "exiting", "waiting", "closed"} =>
                \A p \in Paths : server[p] = None
          /\ stage \in {"exiting", "waiting", "closed"} => "shutdown" \in said
          /\ stage \in {"waiting", "closed"} /\ ~late => "exit" \in said

Inv == TypeOK /\ RecordBounds /\ Mirror /\ AskedRecorded /\ Handshake

-----------------------------------------------------------------------------
(* The document a request records is typed, whichever branch it takes.     *)
LEMMA FreshType == ASSUME TypeOK PROVE Fresh \in Document /\ Document \subseteq Copy
BY BoundAssumption DEF TypeOK, Fresh, Document, Copy, Targets

(* Recording a text and a language keeps the version.                      *)
Recorded(d, c, l) == [d EXCEPT !.content = c, !.language = l]

LEMMA RecordType ==
    ASSUME NEW d \in Document, NEW c \in Contents, NEW l \in Languages
    PROVE  /\ Recorded(d, c, l) \in Document
           /\ Recorded(d, c, l).content = c /\ Recorded(d, c, l).language = l
           /\ Recorded(d, c, l).version = d.version
BY DEF Document, Recorded

(* The next version is a version while the bound allows it.                *)
LEMMA VersionType ==
    ASSUME NEW d \in Document, d.version < MaxVersion
    PROVE  LET t == [d EXCEPT !.version = @ + 1]
           IN  /\ t \in Document /\ t.content = d.content /\ t.language = d.language
               /\ t.version = d.version + 1 /\ t.version >= d.version
BY BoundAssumption DEF Document

(* The initial state satisfies the invariant.                              *)
LEMMA InitInv == Init => Inv
<1>. SUFFICES ASSUME Init PROVE Inv
  OBVIOUS
<1>1. TypeOK
  BY DEF Init, TypeOK
<1>2. RecordBounds /\ Mirror /\ AskedRecorded /\ Handshake
  BY DEF Init, RecordBounds, Mirror, AskedRecorded, Handshake, Running
<1>. QED BY <1>1, <1>2 DEF Inv

(* What the server makes of didOpen is a copy again.                       *)
LEMMA OpenType ==
    ASSUME NEW s \in [Paths -> Copy \cup {None}], NEW p \in Paths, NEW d \in Copy
    PROVE  /\ ReceiveOpen(s, p, d) \in [Paths -> Copy \cup {None}]
           /\ ReceiveOpen(s, p, d)[p] # None
           /\ ReceiveOpen(s, p, d)[p].version = d.version
           /\ ReceiveOpen(s, p, d)[p].language = d.language
           /\ s[p] = None => ReceiveOpen(s, p, d)[p] = d
           /\ \A q \in Paths \ {p} : ReceiveOpen(s, p, d)[q] = s[q]
<1>1. [d EXCEPT !.content = Garbled] \in Copy
  BY DEF Copy
<1>. QED BY <1>1, NoneAssumption DEF ReceiveOpen, Copy

(* What the server makes of didChange is a copy, if the document is open,  *)
(* and the text is right when the session knew what it replaced.           *)
LEMMA ChangeType ==
    ASSUME TypeOK, NEW s \in [Paths -> Copy \cup {None}], NEW p \in Paths, NEW d \in Document,
           NEW believed
    PROVE  LET t == ReceiveChange(s, p, believed, d)
           IN  /\ t \in [Paths -> Copy \cup {None}]
               /\ \A q \in Paths \ {p} : t[q] = s[q]
               /\ s[p] = None => t[p] = None
               /\ s[p] # None => /\ t[p] # None
                                 /\ t[p].version = d.version
                                 /\ t[p].language = s[p].language
                                 /\ s[p].content = believed => t[p].content = d.content
<1>. DEFINE v == IF syncKind = "full" \/ s[p].content = believed THEN d.content ELSE Garbled
            c == [s[p] EXCEPT !.version = d.version, !.content = v]
<1>1. v \in Contents \cup {Garbled} /\ d.version \in 1..MaxVersion
  BY DEF Document
<1>2. ASSUME s[p] # None
      PROVE  /\ c \in Copy /\ c.version = d.version /\ c.language = s[p].language
             /\ c.content = v
  <2>1. s[p] \in Copy
    BY <1>2
  <2>. QED BY <1>1, <2>1 DEF Copy
<1>3. ReceiveChange(s, p, believed, d) = [s EXCEPT ![p] = IF s[p] = None THEN None ELSE c]
  BY DEF ReceiveChange
<1>. HIDE DEF c
<1>4. CASE s[p] = None
  BY <1>3, <1>4
<1>5. CASE s[p] # None
  BY <1>2, <1>3, <1>5, NoneAssumption
<1>. QED BY <1>4, <1>5

-----------------------------------------------------------------------------
(* What a step of synchronize may do to the record and to the server.      *)
SyncEffect ==
    LET p == target.path
        d == documents[p]
        t == documents'[p]
    IN  /\ UNCHANGED <<disk, negotiated, process, target, contexts, said, late>>
        /\ stage' \in {"asked", "idle"}
        /\ documents' = [documents EXCEPT ![p] = t] /\ t \in Document
        /\ server' \in [Paths -> Copy \cup {None}]
        /\ \A q \in Paths \ {p} : server'[q] = server[q]
        /\ ~openClose \/ ~Running => server' = server
        /\ stage' = "asked" => t.content = target.content /\ t.language = target.language
        /\ lost \subseteq lost' /\ lost' \subseteq Paths
        /\ Running /\ openClose =>
              \/ server'[p] # None /\ server'[p].version = t.version
                 /\ server'[p].language = t.language
                 /\ (syncKind # "none" => server'[p].content = t.content)
                 /\ (server[p] # None => server'[p] = server[p]
                                      \/ server'[p].language # server[p].language
                                      \/ server'[p].version > server[p].version)
              \/ server'[p] = server[p] /\ d # None /\ t.version >= d.version
                 /\ t.language = d.language
                 /\ (syncKind # "none" => t.content = d.content)
              \/ server'[p] = None /\ p \in lost'

(* Each branch of synchronize, sent or failed, is such a step.             *)
LEMMA SyncStep ==
    ASSUME Inv, Synchronize
    PROVE  SyncEffect
<1>. DEFINE p == target.path
            d == documents[p]
<1>. USE DEF Inv
<1>1. /\ p \in Paths /\ target.content \in Contents /\ target.language \in Languages
      /\ documents \in [Paths -> Document \cup {None}]
      /\ server \in [Paths -> Copy \cup {None}] /\ lost \subseteq Paths
  BY DEF TypeOK, Targets
<1>2. Fresh \in Document /\ Fresh \in Copy /\ Fresh.version = 1
      /\ Fresh.content = target.content /\ Fresh.language = target.language
  BY FreshType DEF Fresh
<1>3. CASE OpenDocument
  <2>1. documents' = [documents EXCEPT ![p] = Fresh] /\ documents'[p] = Fresh
    BY <1>1, <1>3 DEF OpenDocument, Record
  <2>2. server[p] = None
    BY <1>1, <1>3 DEF OpenDocument, RecordBounds
  <2>3. CASE ~openClose /\ Synchronized(server)
    BY <1>1, <1>2, <2>1, <2>3 DEF Synchronized, SyncEffect
  <2>4. CASE openClose /\ Synchronized(ReceiveOpen(server, p, Fresh))
    <3>1. ReceiveOpen(server, p, Fresh) \in [Paths -> Copy \cup {None}]
          /\ ReceiveOpen(server, p, Fresh)[p] = Fresh
          /\ ReceiveOpen(server, p, Fresh)[p] # None
          /\ \A q \in Paths \ {p} : ReceiveOpen(server, p, Fresh)[q] = server[q]
      BY <1>1, <1>2, <2>2, OpenType
    <3>. QED BY <1>1, <1>2, <2>1, <2>2, <2>4, <3>1 DEF Synchronized, SyncEffect
  <2>5. CASE openClose /\ NotSynchronized(server, {p})
    BY <1>1, <1>2, <2>1, <2>2, <2>5 DEF NotSynchronized, SyncEffect
  <2>. QED BY <1>3, <2>3, <2>4, <2>5 DEF OpenDocument
<1>4. CASE ReopenDocument
  <2>. DEFINE without == ReceiveClose(server, p)
              s == ReceiveOpen(without, p, Fresh)
  <2>1. d # None /\ d \in Document /\ openClose /\ d.language # target.language
    BY <1>1, <1>4 DEF ReopenDocument, OtherLanguage
  <2>2. /\ without \in [Paths -> Copy \cup {None}] /\ without[p] = None
        /\ \A q \in Paths \ {p} : without[q] = server[q]
    BY <1>1 DEF ReceiveClose
  <2>3. CASE NotSynchronized(server, {}) /\ UNCHANGED documents
    <3>1. documents' = [documents EXCEPT ![p] = d] /\ documents'[p] = d
      BY <1>1, <2>3
    <3>2. d.version >= d.version
      BY <2>1 DEF Document
    <3>. QED BY <1>1, <2>1, <2>3, <3>1, <3>2 DEF NotSynchronized, SyncEffect
  <2>4. CASE NotSynchronized(without, {p}) /\ Record(Fresh)
    <3>1. documents' = [documents EXCEPT ![p] = Fresh] /\ documents'[p] = Fresh
      BY <1>1, <2>4 DEF Record
    <3>. HIDE DEF without
    <3>. QED BY <1>1, <1>2, <2>1, <2>2, <2>4, <3>1 DEF NotSynchronized, SyncEffect
  <2>5. CASE Synchronized(s) /\ Record(Fresh)
    <3>1. documents' = [documents EXCEPT ![p] = Fresh] /\ documents'[p] = Fresh
      BY <1>1, <2>5 DEF Record
    <3>2. /\ s \in [Paths -> Copy \cup {None}] /\ s[p] = Fresh /\ s[p] # None
          /\ \A q \in Paths \ {p} : s[q] = server[q]
      <4>1. ASSUME NEW w \in [Paths -> Copy \cup {None}], w[p] = None,
                   \A q \in Paths \ {p} : w[q] = server[q]
            PROVE  LET o == ReceiveOpen(w, p, Fresh)
                   IN  /\ o \in [Paths -> Copy \cup {None}] /\ o[p] = Fresh /\ o[p] # None
                       /\ \A q \in Paths \ {p} : o[q] = server[q]
        <5>. DEFINE o == ReceiveOpen(w, p, Fresh)
        <5>1. /\ o \in [Paths -> Copy \cup {None}] /\ o[p] # None
              /\ w[p] = None => o[p] = Fresh
              /\ \A q \in Paths \ {p} : o[q] = w[q]
          <6>. HIDE DEF p
          <6>. QED BY <1>1, <1>2, OpenType
        <5>. QED BY <4>1, <5>1
      <4>. HIDE DEF without
      <4>. QED BY <2>2, <4>1
    <3>3. Running /\ server[p] # None => server[p].language = d.language
      BY <1>1 DEF Mirror
    <3>. HIDE DEF s
    <3>. QED BY <1>1, <1>2, <2>1, <2>5, <3>1, <3>2, <3>3 DEF Synchronized, SyncEffect
  <2>. QED BY <1>4, <2>3, <2>4, <2>5 DEF ReopenDocument
<1>5. CASE KeepDocument
  <2>. DEFINE t == [d EXCEPT !.content = target.content, !.language = target.language]
  <2>1. d # None /\ d \in Document /\ (openClose => d.language = target.language)
        /\ (d.content = target.content \/ syncKind = "none")
    BY <1>1, <1>5 DEF KeepDocument, OtherLanguage, Unchanged
  <2>2. /\ t \in Document /\ t.content = target.content /\ t.language = target.language
        /\ t.version = d.version
    <3>1. t = Recorded(d, target.content, target.language)
      BY DEF Recorded
    <3>. HIDE DEF t
    <3>. QED BY <1>1, <2>1, <3>1, RecordType
  <2>3. t.version >= d.version
    <3>. HIDE DEF t
    <3>1. t.version \in Nat
      BY <2>2 DEF Document
    <3>. QED BY <2>2, <3>1
  <2>4. documents' = [documents EXCEPT ![p] = t] /\ documents'[p] = t /\ Synchronized(server)
    BY <1>1, <1>5 DEF KeepDocument, Record
  <2>. HIDE DEF t
  <2>. QED BY <1>1, <2>1, <2>2, <2>3, <2>4 DEF Synchronized, SyncEffect
<1>6. CASE ChangeDocument
  <2>. DEFINE next == [d EXCEPT !.version = @ + 1]
              new == [next EXCEPT !.content = target.content, !.language = target.language]
              s == ReceiveChange(server, p, d.content, new)
  <2>1. d # None /\ d \in Document /\ (openClose => d.language = target.language)
        /\ syncKind # "none" /\ d.version < MaxVersion
    BY <1>1, <1>6 DEF ChangeDocument, OtherLanguage, Unchanged
  <2>2. /\ next \in Document /\ next.version = d.version + 1 /\ next.version >= d.version
        /\ next.content = d.content /\ next.language = d.language
    <3>. HIDE DEF d
    <3>. QED BY <2>1, VersionType
  <2>3. /\ new \in Document /\ new.version = d.version + 1
        /\ new.content = target.content /\ new.language = target.language
    <3>1. new = Recorded(next, target.content, target.language)
      BY DEF Recorded
    <3>. HIDE DEF next, new
    <3>. QED BY <1>1, <2>2, <3>1, RecordType
  <2>4. CASE NotSynchronized(server, {}) /\ Record(next)
    <3>1. documents' = [documents EXCEPT ![p] = next] /\ documents'[p] = next
      BY <1>1, <2>4 DEF Record
    <3>. HIDE DEF next
    <3>. QED BY <1>1, <2>1, <2>2, <2>4, <3>1 DEF NotSynchronized, SyncEffect
  <2>5. CASE Synchronized(s) /\ Record(new)
    <3>1. documents' = [documents EXCEPT ![p] = new] /\ documents'[p] = new
      BY <1>1, <2>5 DEF Record
    <3>2. /\ s \in [Paths -> Copy \cup {None}]
          /\ \A q \in Paths \ {p} : s[q] = server[q]
          /\ server[p] = None => s[p] = None
          /\ server[p] # None => /\ s[p] # None /\ s[p].version = new.version
                                 /\ s[p].language = server[p].language
                                 /\ server[p].content = d.content => s[p].content = new.content
      <4>. HIDE DEF new
      <4>. QED BY <1>1, <2>3, ChangeType
    <3>3. Running /\ server[p] # None => /\ server[p].language = d.language
                                         /\ server[p].content = d.content
                                         /\ server[p].version <= d.version
                                         /\ server[p].version \in Nat
      BY <1>1, <2>1 DEF Mirror, Copy
    <3>4. Running /\ openClose /\ server[p] = None => p \in lost
      BY <1>1, <2>1, <1>6 DEF Mirror, Synchronize
    <3>5. ~openClose => server[p] = None
      BY <1>1 DEF RecordBounds
    <3>6. d.version \in Nat
      BY <2>1 DEF Document
    <3>7. ~openClose => s = server
      <4>. HIDE DEF s
      <4>. SUFFICES ASSUME ~openClose PROVE s = server
        OBVIOUS
      <4>1. \A q \in Paths : s[q] = server[q]
        BY <3>2, <3>5
      <4>. QED BY <1>1, <3>2, <4>1
    <3>8. new.version > d.version
      <4>. HIDE DEF new
      <4>. QED BY <2>3, <3>6
    <3>. HIDE DEF s, new
    <3>9. CASE Running /\ openClose /\ server[p] # None
      <4>1. s[p].version > server[p].version
        BY <2>3, <3>2, <3>3, <3>6, <3>9
      <4>. QED BY <1>1, <2>1, <2>3, <2>5, <3>1, <3>2, <3>3, <3>9, <4>1
           DEF Synchronized, SyncEffect
    <3>10. CASE ~Running \/ ~openClose \/ server[p] = None
      BY <1>1, <2>1, <2>3, <2>5, <3>1, <3>2, <3>4, <3>7, <3>10 DEF Synchronized, SyncEffect
    <3>. QED BY <3>9, <3>10
  <2>. QED BY <1>6, <2>4, <2>5 DEF ChangeDocument
<1>. QED BY <1>3, <1>4, <1>5, <1>6 DEF Synchronize

-----------------------------------------------------------------------------
(* The steps outside synchronize keep the types.                           *)
LEMMA TypeStep == ASSUME Inv, [Next]_vars PROVE TypeOK'
<1>. USE DEF Inv, TypeOK
<1>1. ASSUME NEW k \in {"none", "full", "incremental"}, NEW o \in BOOLEAN, Initialize(k, o)
      PROVE  TypeOK'
  BY <1>1 DEF Initialize, Goto, contexts
<1>2. CASE StartFails
  BY <1>2 DEF StartFails, Goto, contexts, negotiated
<1>3. ASSUME NEW p \in Paths, NEW l \in Languages, Prepare(p, l)
      PROVE  TypeOK'
  BY <1>3 DEF Prepare, Goto, Targets, negotiated
<1>4. CASE Synchronize
  <2>1. SyncEffect
    BY <1>4, SyncStep
  <2>2. documents' \in [Paths -> Document \cup {None}]
    BY <2>1 DEF SyncEffect, Targets
  <2>. QED BY <2>1, <2>2 DEF SyncEffect, negotiated, contexts
<1>5. CASE Answer \/ Unsupported
  BY <1>5 DEF Answer, Unsupported, Goto, contexts, negotiated
<1>6. CASE CloseDocuments
  <2>1. server' \in [Paths -> Copy \cup {None}]
    BY <1>6 DEF CloseDocuments
  <2>. QED BY <1>6, <2>1 DEF CloseDocuments, Goto, contexts, negotiated
<1>7. CASE Shutdown
  BY <1>7 DEF Shutdown, Goto, contexts, negotiated
<1>8. CASE Exit
  BY <1>8 DEF Exit, Goto, contexts, negotiated
<1>9. CASE Reap
  BY <1>9 DEF Reap, Goto, contexts, negotiated
<1>10. ASSUME NEW p \in Paths, NEW c \in Contents, Edit(p, c)
       PROVE  TypeOK'
  BY <1>10 DEF Edit, contexts, negotiated
<1>11. CASE GiveUp
  BY <1>11 DEF GiveUp, negotiated
<1>12. CASE CancelContext
  BY <1>12 DEF CancelContext, negotiated
<1>13. CASE KillOnCancel
  BY <1>13 DEF KillOnCancel, contexts, negotiated
<1>14. CASE ProcessEnds
  BY <1>14 DEF ProcessEnds, contexts, negotiated
<1>15. CASE UNCHANGED vars
  BY <1>15 DEF vars, contexts, negotiated
<1>. QED BY <1>1, <1>2, <1>3, <1>4, <1>5, <1>6, <1>7, <1>8, <1>9, <1>10, <1>11, <1>12, <1>13,
            <1>14, <1>15 DEF Next, Closing

(* A synchronized document keeps the record and the server in step.        *)
LEMMA MirrorSync ==
    ASSUME Inv, Synchronize
    PROVE  RecordBounds' /\ Mirror' /\ AskedRecorded'
<1>. USE DEF Inv
<1>. DEFINE p == target.path
<1>1. SyncEffect /\ p \in Paths /\ stage = "syncing" /\ None \notin Document
      /\ documents \in [Paths -> Document \cup {None}]
  BY SyncStep, FreshType, NoneAssumption DEF Synchronize, TypeOK, Targets
<1>2. /\ \A q \in Paths \ {p} : documents'[q] = documents[q] /\ server'[q] = server[q]
      /\ documents'[p] \in Document /\ documents'[p] # None
      /\ openClose' = openClose /\ syncKind' = syncKind /\ process' = process
      /\ target' = target /\ stage' \in {"asked", "idle"}
      /\ ~openClose \/ ~Running => server' = server
      /\ lost \subseteq lost'
  BY <1>1 DEF SyncEffect, negotiated
<1>3. RecordBounds'
  <2>1. \A q \in Paths : documents'[q] = None => server'[q] = None
    BY <1>2 DEF RecordBounds
  <2>. QED BY <1>1, <1>2, <2>1 DEF RecordBounds
<1>4. Mirror'
  <2>. SUFFICES ASSUME Running PROVE Mirror'
    BY <1>2 DEF Mirror, Running
  <2>1. CASE openClose
    <3>1. ASSUME server'[p] # None
          PROVE  /\ server'[p].version <= documents'[p].version
                 /\ server'[p].language = documents'[p].language
                 /\ syncKind # "none" => server'[p].content = documents'[p].content
      <4>1. documents'[p].version \in Nat
        BY <1>2 DEF Document
      <4>2. CASE server'[p].version = documents'[p].version
                 /\ server'[p].language = documents'[p].language
                 /\ (syncKind # "none" => server'[p].content = documents'[p].content)
        BY <4>1, <4>2
      <4>3. CASE server'[p] = server[p] /\ documents[p] # None
                 /\ documents'[p].version >= documents[p].version
                 /\ documents'[p].language = documents[p].language
                 /\ (syncKind # "none" => documents'[p].content = documents[p].content)
        <5>1. server[p].version \in Nat /\ documents[p].version \in Nat
          BY <1>1, <3>1, <4>3 DEF TypeOK, Copy, Document
        <5>2. /\ server[p].version <= documents[p].version
              /\ server[p].language = documents[p].language
              /\ syncKind # "none" => server[p].content = documents[p].content
          BY <1>1, <3>1, <4>3 DEF Mirror
        <5>. QED BY <4>1, <4>3, <5>1, <5>2
      <4>. QED BY <1>1, <2>1, <3>1, <4>2, <4>3 DEF SyncEffect
    <3>2. ASSUME p \notin lost'
          PROVE  server'[p] # None
      BY <1>1, <1>2, <2>1, <3>2 DEF SyncEffect, Mirror
    <3>. QED BY <1>1, <1>2, <3>1, <3>2 DEF Mirror
  <2>2. CASE ~openClose
    BY <1>2, <2>2 DEF Mirror, RecordBounds
  <2>. QED BY <2>1, <2>2
<1>5. AskedRecorded'
  BY <1>1, <1>2 DEF AskedRecorded, SyncEffect
<1>. QED BY <1>3, <1>4, <1>5

(* No step loses track of an open document.                                *)
LEMMA MirrorStep ==
    ASSUME Inv, [Next]_vars
    PROVE  RecordBounds' /\ Mirror' /\ AskedRecorded'
<1>. USE DEF Inv
<1>1. ASSUME NEW k \in {"none", "full", "incremental"}, NEW o \in BOOLEAN, Initialize(k, o)
      PROVE  RecordBounds' /\ Mirror' /\ AskedRecorded'
  BY <1>1 DEF Initialize, Goto, RecordBounds, Mirror, AskedRecorded, Running, negotiated, contexts
<1>2. CASE StartFails
  BY <1>2 DEF StartFails, Goto, RecordBounds, Mirror, AskedRecorded, Running, negotiated, contexts
<1>3. ASSUME NEW p \in Paths, NEW l \in Languages, Prepare(p, l)
      PROVE  RecordBounds' /\ Mirror' /\ AskedRecorded'
  BY <1>3 DEF Prepare, Goto, RecordBounds, Mirror, AskedRecorded, Running, negotiated, contexts
<1>4. CASE Synchronize
  BY <1>4, MirrorSync
<1>5. CASE Answer \/ Unsupported
  BY <1>5 DEF Answer, Unsupported, Goto, RecordBounds, Mirror, AskedRecorded, Running, negotiated, contexts
<1>6. CASE CloseDocuments
  BY <1>6 DEF CloseDocuments, Goto, RecordBounds, Mirror, AskedRecorded, Running, negotiated, contexts
<1>7. CASE Shutdown
  BY <1>7 DEF Shutdown, Goto, RecordBounds, Mirror, AskedRecorded, Running, negotiated, contexts
<1>8. CASE Exit
  BY <1>8 DEF Exit, Goto, RecordBounds, Mirror, AskedRecorded, Running, negotiated, contexts
<1>9. CASE Reap
  BY <1>9 DEF Reap, Goto, RecordBounds, Mirror, AskedRecorded, Running, negotiated, contexts
<1>10. ASSUME NEW p \in Paths, NEW c \in Contents, Edit(p, c)
       PROVE  RecordBounds' /\ Mirror' /\ AskedRecorded'
  BY <1>10 DEF Edit, RecordBounds, Mirror, AskedRecorded, Running, negotiated, contexts
<1>11. CASE GiveUp
  BY <1>11 DEF GiveUp, RecordBounds, Mirror, AskedRecorded, Running, negotiated, contexts
<1>12. CASE CancelContext
  BY <1>12 DEF CancelContext, RecordBounds, Mirror, AskedRecorded, Running, negotiated, contexts
<1>13. CASE KillOnCancel
  BY <1>13 DEF KillOnCancel, RecordBounds, Mirror, AskedRecorded, Running, negotiated, contexts
<1>14. CASE ProcessEnds
  BY <1>14 DEF ProcessEnds, RecordBounds, Mirror, AskedRecorded, Running, negotiated, contexts
<1>15. CASE UNCHANGED vars
  BY <1>15 DEF vars, RecordBounds, Mirror, AskedRecorded, Running, negotiated, contexts
<1>. QED BY <1>1, <1>2, <1>3, <1>4, <1>5, <1>6, <1>7, <1>8, <1>9, <1>10, <1>11, <1>12, <1>13,
            <1>14, <1>15 DEF Next, Closing

(* The handshake goes on in its order.                                     *)
LEMMA HandshakeStep == ASSUME Inv, [Next]_vars PROVE Handshake'
<1>. USE DEF Inv
<1>1. ASSUME NEW k \in {"none", "full", "incremental"}, NEW o \in BOOLEAN, Initialize(k, o)
      PROVE  Handshake'
  BY <1>1 DEF Initialize, Goto, Handshake, RecordBounds, Running, TypeOK, negotiated, contexts
<1>2. CASE StartFails
  BY <1>2 DEF StartFails, Goto, Handshake, RecordBounds, Running, TypeOK, negotiated, contexts
<1>3. ASSUME NEW p \in Paths, NEW l \in Languages, Prepare(p, l)
      PROVE  Handshake'
  BY <1>3 DEF Prepare, Goto, Handshake, RecordBounds, Running, TypeOK, negotiated, contexts
<1>4. CASE Synchronize
  <2>1. SyncEffect /\ stage = "syncing"
    BY <1>4, SyncStep DEF Synchronize
  <2>. QED BY <2>1 DEF SyncEffect, Handshake, contexts
<1>5. CASE Answer \/ Unsupported
  BY <1>5 DEF Answer, Unsupported, Goto, Handshake, RecordBounds, Running, TypeOK, negotiated, contexts
<1>6. CASE CloseDocuments
  BY <1>6 DEF CloseDocuments, Goto, Handshake, RecordBounds, Running, TypeOK, negotiated, contexts
<1>7. CASE Shutdown
  BY <1>7 DEF Shutdown, Goto, Handshake, RecordBounds, Running, TypeOK, negotiated, contexts
<1>8. CASE Exit
  BY <1>8 DEF Exit, Goto, Handshake, RecordBounds, Running, TypeOK, negotiated, contexts
<1>9. CASE Reap
  BY <1>9 DEF Reap, Goto, Handshake, RecordBounds, Running, TypeOK, negotiated, contexts
<1>10. ASSUME NEW p \in Paths, NEW c \in Contents, Edit(p, c)
       PROVE  Handshake'
  BY <1>10 DEF Edit, Handshake, RecordBounds, Running, TypeOK, negotiated, contexts
<1>11. CASE GiveUp
  BY <1>11 DEF GiveUp, Handshake, RecordBounds, Running, TypeOK, negotiated, contexts
<1>12. CASE CancelContext
  BY <1>12 DEF CancelContext, Handshake, RecordBounds, Running, TypeOK, negotiated, contexts
<1>13. CASE KillOnCancel
  BY <1>13 DEF KillOnCancel, Handshake, RecordBounds, Running, TypeOK, negotiated, contexts
<1>14. CASE ProcessEnds
  BY <1>14 DEF ProcessEnds, Handshake, RecordBounds, Running, TypeOK, negotiated, contexts
<1>15. CASE UNCHANGED vars
  BY <1>15 DEF vars, Handshake, RecordBounds, Running, TypeOK, negotiated, contexts
<1>. QED BY <1>1, <1>2, <1>3, <1>4, <1>5, <1>6, <1>7, <1>8, <1>9, <1>10, <1>11, <1>12, <1>13,
            <1>14, <1>15 DEF Next, Closing

-----------------------------------------------------------------------------
(* The invariant is inductive.                                             *)
THEOREM Invariance == Spec => []Inv
<1>1. Inv /\ [Next]_vars => Inv'
  BY TypeStep, MirrorStep, HandshakeStep DEF Inv
<1>. QED BY <1>1, InitInv, PTL DEF Spec

(* The variables of every reachable state have their types.                *)
THEOREM TypeCorrect == Spec => []TypeOK
<1>1. Inv => TypeOK
  BY DEF Inv
<1>. QED BY <1>1, Invariance, PTL

(* A server kept in step is asked about what the request read from disk,   *)
(* unless a didOpen of that document failed before.                        *)
THEOREM AsksAboutSnapshot == Spec => []AsksOnSnapshot
<1>1. Inv => AsksOnSnapshot
  BY DEF Inv, TypeOK, Targets, Mirror, AskedRecorded, AsksOnSnapshot, Mirrored
<1>. QED BY <1>1, Invariance, PTL

(* A session that is retired closes its documents, shuts down and exits in *)
(* that order.                                                             *)
THEOREM RetiresInOrder == Spec => []RetiredInOrder
<1>1. Inv => RetiredInOrder
  BY DEF Inv, TypeOK, Handshake, RetiredInOrder, InOrder
<1>. QED BY <1>1, Invariance, PTL

(* A server never sees an old version of a document it has open.           *)
THEOREM VersionsOnlyGrow == Spec => VersionsGrow
<1>. DEFINE Grow(p) ==
       server[p] # None /\ server'[p] # None /\ server'[p] # server[p] =>
           server'[p].version > server[p].version \/ server'[p].language # server[p].language
<1>1. ASSUME Inv, Synchronize, NEW p \in Paths
      PROVE  Grow(p)
  <2>1. SyncEffect /\ target.path \in Paths
    BY <1>1, SyncStep DEF Inv, TypeOK, Targets
  <2>. QED BY <2>1 DEF SyncEffect
<1>2. ASSUME Inv, [Next]_vars, ~Synchronize, NEW p \in Paths
      PROVE  server'[p] = server[p] \/ server'[p] = None
  <2>1. CASE CloseDocuments
    BY <1>2, <2>1 DEF CloseDocuments, Inv, TypeOK
  <2>2. CASE UNCHANGED server
    BY <2>2
  <2>. QED BY <1>2, <2>1, <2>2
       DEF Next, Closing, vars, Initialize, StartFails, Prepare, Answer, Unsupported, Shutdown, Exit, Reap,
           Edit, GiveUp, CancelContext, KillOnCancel, ProcessEnds
<1>3. Inv /\ [Next]_vars => [\A p \in Paths : Grow(p)]_vars
  BY <1>1, <1>2
<1>. QED BY <1>3, Invariance, PTL DEF Spec, VersionsGrow
=============================================================================
