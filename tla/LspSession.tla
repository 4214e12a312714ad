----------------------------- MODULE LspSession -----------------------------
(***************************************************************************)
(* One language-server session (src/internal/lspclient/client.go): a child *)
(* process, the session's record of the documents it opened there, the     *)
(* requests that synchronise a document before they ask about it, and the  *)
(* closing handshake.                                                      *)
(*                                                                         *)
(* Session.mu admits one request or Close at a time; the daemon also reads *)
(* the file under the instance's mutex.  The pipe keeps its order, so that *)
(* a message is received when it is sent.  What the server makes of it     *)
(* (Receive...) is the language-server protocol, external to the code.     *)
(***************************************************************************)
EXTENDS Naturals

CONSTANTS
    Paths,
    Contents,        \* what a file may contain
    Languages,       \* language IDs selectors assign
    None,            \* null value: no document
    Garbled,         \* a server's text after an edit that did not fit
    MaxVersion       \* bound: versions of one document considered

ASSUME BoundAssumption == MaxVersion \in Nat \ {0}

VARIABLES
    disk,            \* the files, edited by anyone at any time
    syncKind,        \* negotiated: "none", "full" or "incremental"
    openClose,       \* negotiated: the server wants didOpen and didClose
    documents,       \* s.documents: the session's record
    server,          \* the server's own copies
    process,         \* the child
    stage,           \* what Start, a request or Close is doing
    target,          \* the request's document, as read from disk
    gaveUp,          \* the request's context is canceled
    canceled,        \* the context the child was started under is canceled
    said,            \* closing messages the server received
    late,            \* the server let shutdown time out
    lost             \* history: paths whose didOpen failed on a live server

negotiated == <<syncKind, openClose>>
contexts   == <<gaveUp, canceled>>
vars == <<disk, negotiated, documents, server, process, stage, target, contexts, said,
          late, lost>>

Targets == [path : Paths, content : Contents, language : Languages]
Document == [content : Contents, version : 1..MaxVersion, language : Languages]
Copy == [content : Contents \cup {Garbled}, version : 1..MaxVersion, language : Languages]

ASSUME NoneAssumption == None \notin Copy /\ Garbled \notin Contents

Running == process = "running"

Init ==
    /\ disk \in [Paths -> Contents]
    /\ syncKind = "none" /\ openClose = FALSE
    /\ documents = [p \in Paths |-> None]
    /\ server = [p \in Paths |-> None]
    /\ process = "running"
    /\ stage = "starting"
    /\ target \in Targets
    /\ gaveUp = FALSE /\ canceled = FALSE
    /\ said = {}
    /\ late = FALSE
    /\ lost = {}

Goto(from, to) == stage = from /\ stage' = to

-----------------------------------------------------------------------------
(* The server's side of the notifications.                                 *)

ReceiveOpen(s, p, d) ==
    [s EXCEPT ![p] = IF s[p] = None THEN d ELSE [d EXCEPT !.content = Garbled]]

(* An incremental change replaces the extent of the text the session       *)
(* believes the server to have; a document that is not open is ignored.    *)
ReceiveChange(s, p, believed, d) ==
    [s EXCEPT ![p] =
        IF s[p] = None THEN None
        ELSE [s[p] EXCEPT !.version = d.version,
                          !.content = IF syncKind = "full" \/ s[p].content = believed
                                      THEN d.content ELSE Garbled]]

ReceiveClose(s, p) == [s EXCEPT ![p] = None]

(* A notification fails when the request's context is canceled before it   *)
(* is written, or when the connection is gone.                             *)
MayFail == gaveUp \/ canceled \/ ~Running

-----------------------------------------------------------------------------
(* Start.                                                                  *)

Initialize(k, o) ==
    /\ Goto("starting", "idle")
    /\ Running /\ ~canceled
    /\ syncKind' = k /\ openClose' = o
    /\ UNCHANGED <<disk, documents, server, process, target, contexts, said, late, lost>>

(* abortProcess kills and reaps the child.                                 *)
StartFails ==
    /\ Goto("starting", "failed")
    /\ process' = IF Running THEN "killed" ELSE process
    /\ UNCHANGED <<disk, negotiated, documents, server, target, contexts, said, late, lost>>

-----------------------------------------------------------------------------
(* A request about a document.                                             *)

(* The request takes the mutexes and PrepareDocument reads the file.       *)
Prepare(p, l) ==
    /\ Goto("idle", "syncing")
    /\ target' = [path |-> p, content |-> disk[p], language |-> l]
    /\ gaveUp' = FALSE
    /\ UNCHANGED <<disk, negotiated, documents, server, process, canceled, said, late, lost>>

(* Every branch of synchronize records the document and notifies.          *)
Record(d) == documents' = [documents EXCEPT ![target.path] = d]

Synchronized(s) ==
    /\ stage = "syncing" /\ stage' = "asked"
    /\ server' = IF Running THEN s ELSE server
    /\ UNCHANGED <<disk, negotiated, process, target, contexts, said, late, lost>>

NotSynchronized(s, missing) ==
    /\ stage = "syncing" /\ stage' = "idle"
    /\ MayFail
    /\ server' = IF Running THEN s ELSE server
    /\ lost' = IF Running THEN lost \cup missing ELSE lost
    /\ UNCHANGED <<disk, negotiated, process, target, contexts, said, late>>

(* Mutant: versions start at zero.                                         *)
FreshFromZero == [content |-> target.content, version |-> 0, language |-> target.language]

Fresh == [content |-> target.content, version |-> 1, language |-> target.language]

(* First use: didOpen, if the server wants it.                             *)
OpenDocument ==
    /\ documents[target.path] = None
    /\ Record(Fresh)
    /\ \/ ~openClose /\ Synchronized(server)
       \/ openClose /\ Synchronized(ReceiveOpen(server, target.path, Fresh))
       \/ openClose /\ NotSynchronized(server, {target.path})

OtherLanguage(d) == openClose /\ d.language # target.language

(* The language changed: didClose, then didOpen.                           *)
ReopenDocument ==
    LET d == documents[target.path]
        without == ReceiveClose(server, target.path)
    IN  /\ d # None /\ OtherLanguage(d)
        /\ \/ NotSynchronized(server, {}) /\ UNCHANGED documents
           \/ NotSynchronized(without, {target.path}) /\ Record(Fresh)
           \/ Synchronized(ReceiveOpen(without, target.path, Fresh)) /\ Record(Fresh)

Unchanged(d) == d.content = target.content \/ syncKind = "none"

KeepDocument ==
    LET d == documents[target.path]
    IN  /\ d # None /\ ~OtherLanguage(d) /\ Unchanged(d)
        /\ Record([d EXCEPT !.content = target.content, !.language = target.language])
        /\ Synchronized(server)

(* Mutant: the record is updated before didChange is sent.                 *)
ChangeDocumentEarly ==
    LET d == documents[target.path]
        new == [content |-> target.content, version |-> d.version + 1,
                language |-> target.language]
    IN  /\ d # None /\ ~OtherLanguage(d) /\ ~Unchanged(d)
        /\ d.version < MaxVersion
        /\ Record(new)
        /\ \/ NotSynchronized(server, {})
           \/ Synchronized(ReceiveChange(server, target.path, d.content, new))

(* Mutant: the version is advanced after the text was sent.                *)
ChangeDocumentLate ==
    LET d == documents[target.path]
        new == [d EXCEPT !.content = target.content, !.language = target.language]
    IN  /\ d # None /\ ~OtherLanguage(d) /\ ~Unchanged(d)
        /\ d.version < MaxVersion
        /\ \/ NotSynchronized(server, {}) /\ UNCHANGED documents
           \/ /\ Synchronized(ReceiveChange(server, target.path, d.content, new))
              /\ Record([new EXCEPT !.version = @ + 1])

(* didChange carries the next version; the text the session believes the   *)
(* server to have changes only when it was sent.                           *)
ChangeDocument ==
    LET d == documents[target.path]
        next == [d EXCEPT !.version = @ + 1]
        new == [next EXCEPT !.content = target.content, !.language = target.language]
    IN  /\ d # None /\ ~OtherLanguage(d) /\ ~Unchanged(d)
        /\ d.version < MaxVersion
        /\ \/ NotSynchronized(server, {}) /\ Record(next)
           \/ Synchronized(ReceiveChange(server, target.path, d.content, new)) /\ Record(new)

(* supports: a server that lacks the operation is sent nothing.            *)
Unsupported ==
    /\ Goto("syncing", "idle")
    /\ UNCHANGED <<disk, negotiated, documents, server, process, target, contexts, said,
                   late, lost>>

(* The answer, an error of the server, or the loss of either end.          *)
Answer ==
    /\ Goto("asked", "idle")
    /\ UNCHANGED <<disk, negotiated, documents, server, process, target, contexts, said,
                   late, lost>>

-----------------------------------------------------------------------------
(* Close: didClose for every recorded document, shutdown, exit, and the    *)
(* connection; then the child is given two seconds.                        *)

(* Mutant: only documents that changed are closed.                         *)
CloseChangedDocuments ==
    /\ Goto("idle", "closing")
    /\ server' = IF openClose /\ Running
                 THEN [p \in Paths |-> IF documents[p] = None \/ documents[p].version = 1
                                       THEN server[p] ELSE None]
                 ELSE server
    /\ UNCHANGED <<disk, negotiated, documents, process, target, contexts, said, late, lost>>

CloseDocuments ==
    /\ Goto("idle", "closing")
    /\ server' = IF openClose /\ Running
                 THEN [p \in Paths |-> IF documents[p] = None THEN server[p] ELSE None]
                 ELSE server
    /\ UNCHANGED <<disk, negotiated, documents, process, target, contexts, said, late, lost>>

Shutdown ==
    /\ Goto("closing", "exiting")
    /\ said' = IF Running THEN said \cup {"shutdown"} ELSE said
    /\ late' \in IF Running THEN BOOLEAN ELSE {late}
    /\ UNCHANGED <<disk, negotiated, documents, server, process, target, contexts, lost>>

(* exit shares shutdown's two seconds: it may not be sent after a timeout. *)
Exit ==
    /\ Goto("exiting", "waiting")
    /\ \/ said' = IF Running THEN said \cup {"exit"} ELSE said
       \/ late /\ UNCHANGED said
    /\ UNCHANGED <<disk, negotiated, documents, server, process, target, contexts, late, lost>>

(* Mutant: Close waits for the child however long it takes.                *)
ReapPatiently ==
    /\ Goto("waiting", "closed")
    /\ ~Running
    /\ UNCHANGED <<disk, negotiated, documents, server, process, target, contexts, said,
                   late, lost>>

(* The child ended, or is killed after two more seconds.                   *)
Reap ==
    /\ Goto("waiting", "closed")
    /\ process' = IF Running THEN "killed" ELSE process
    /\ UNCHANGED <<disk, negotiated, documents, server, target, contexts, said, late, lost>>

-----------------------------------------------------------------------------
(* The environment.                                                        *)

Edit(p, c) ==
    /\ stage \notin {"failed", "closed"} /\ disk[p] # c
    /\ disk' = [disk EXCEPT ![p] = c]
    /\ UNCHANGED <<negotiated, documents, server, process, stage, target, contexts, said,
                   late, lost>>

GiveUp ==
    /\ stage \in {"syncing", "asked"} /\ ~gaveUp
    /\ gaveUp' = TRUE
    /\ UNCHANGED <<disk, negotiated, documents, server, process, stage, target, canceled, said,
                   late, lost>>

(* daemon.close and an interrupted direct command.                         *)
CancelContext ==
    /\ ~canceled
    /\ canceled' = TRUE
    /\ UNCHANGED <<disk, negotiated, documents, server, process, stage, target, gaveUp, said,
                   late, lost>>

(* exec.CommandContext kills the child once its context is canceled.       *)
KillOnCancel ==
    /\ canceled /\ Running
    /\ process' = "killed"
    /\ UNCHANGED <<disk, negotiated, documents, server, stage, target, contexts, said, late, lost>>

(* The child exits, when told to or by itself.                             *)
ProcessEnds ==
    /\ Running
    /\ process' = IF "exit" \in said THEN "exited" ELSE "crashed"
    /\ UNCHANGED <<disk, negotiated, documents, server, stage, target, contexts, said, late, lost>>

-----------------------------------------------------------------------------
Synchronize ==
    /\ stage = "syncing"
    /\ OpenDocument \/ ReopenDocument \/ KeepDocument \/ ChangeDocument

Closing == Shutdown \/ Exit \/ Reap

Next ==
    \/ \E k \in {"none", "full", "incremental"}, o \in BOOLEAN : Initialize(k, o)
    \/ StartFails
    \/ \E p \in Paths, l \in Languages : Prepare(p, l)
    \/ Unsupported \/ Synchronize \/ Answer
    \/ CloseDocuments \/ Closing
    \/ \E p \in Paths, c \in Contents : Edit(p, c)
    \/ GiveUp \/ CancelContext \/ KillOnCancel \/ ProcessEnds

(* Close's timers fire, and its calls return.                              *)
Spec == Init /\ [][Next]_vars /\ WF_vars(Closing)

-----------------------------------------------------------------------------
(* Properties.                                                             *)

(* Every variable keeps its type.                                          *)
TypeOK ==
    /\ disk \in [Paths -> Contents]
    /\ syncKind \in {"none", "full", "incremental"} /\ openClose \in BOOLEAN
    /\ documents \in [Paths -> Document \cup {None}]
    /\ server \in [Paths -> Copy \cup {None}]
    /\ process \in {"running", "killed", "exited", "crashed"}
    /\ stage \in {"starting", "idle", "syncing", "asked", "closing", "exiting", "waiting",
                  "closed", "failed"}
    /\ target \in Targets
    /\ gaveUp \in BOOLEAN /\ canceled \in BOOLEAN
    /\ said \subseteq {"shutdown", "exit"} /\ late \in BOOLEAN
    /\ lost \subseteq Paths

Mirrored == openClose /\ syncKind # "none" /\ Running

(* A live server that is kept in step is asked about exactly the text and  *)
(* the language the request read from disk, whatever earlier requests      *)
(* were abandoned between two notifications - except for a document whose  *)
(* didOpen failed: it is recorded as open all the same.                    *)
AsksOnSnapshot ==
    stage = "asked" /\ Mirrored /\ target.path \notin lost =>
        LET copy == server[target.path]
        IN  /\ copy # None
            /\ copy.content = target.content /\ copy.language = target.language

(* The versions a server sees of an open document only grow, also after a  *)
(* didChange that failed.                                                  *)
VersionsGrow ==
    [][\A p \in Paths :
          server[p] # None /\ server'[p] # None /\ server'[p] # server[p] =>
              server'[p].version > server[p].version \/ server'[p].language # server[p].language
      ]_vars

(* A session that reload or retirement closes leaves no document open and  *)
(* goes through shutdown and exit, unless the server failed or was slow.   *)
InOrder == said = {"shutdown", "exit"} /\ \A p \in Paths : server[p] = None

RetiredInOrder ==
    stage = "closed" /\ process # "crashed" /\ ~late /\ ~canceled => InOrder

(* So does one that daemon shutdown closes.                                *)
ShutDownInOrder ==
    stage = "closed" /\ process # "crashed" /\ ~late => InOrder

(* Close returns and the child is gone, even if the server hangs.          *)
CloseReaps == (stage = "closing") ~> (stage = "closed" /\ ~Running)
=============================================================================
