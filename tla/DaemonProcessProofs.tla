------------------------- MODULE DaemonProcessProofs -------------------------
(* The daemon's socket and the outcomes of its clients, for any number of    *)
(* daemons, clients, crashes and authorization URLs.                         *)
EXTENDS DaemonProcess, TLAPS

-----------------------------------------------------------------------------
(* Whoever is between start and exit holds the lock, so one at a time; from  *)
(* its listen on, and until it closes the listener, the socket file is its.  *)
Lives == {"off", "clean", "listen", "protect", "serve", "closing", "drain", "unlink", "unlock"}

Listening(d) == life[d] \in {"protect", "serve"}

DaemonsTyped ==
  /\ life \in [Daemons -> Lives] /\ flock \in Daemons \cup {None}
  /\ socket \in Daemons \cup {None} /\ open \subseteq Daemons

LockHeld == \A d \in Daemons : life[d] # "off" => flock = d

SocketHeld == \A d \in Daemons :
  /\ Listening(d) => socket = d
  /\ d \in open <=> Listening(d)

DaemonInv == DaemonsTyped /\ LockHeld /\ SocketHeld

-----------------------------------------------------------------------------
(* What a connection carries, and how far its client and its handler are.    *)
Requests == {"hello", "hello from another version", "request", "cancel"}
Answers == {"hello_ok", "hello_error", "url", "result", "error"}
Unasked == {"unavailable", "refused", "not asked"}
Outcomes == Unasked \cup Answers \cup {None, "failed", "killed"}

Holds(s, f) == \E i \in 1..Len(s) : s[i] = f

ClientsTyped ==
  /\ pc \in [Clients -> {"new", "greet", "greeted", "load", "send", "sent", "done"}]
  /\ outcome \in [Clients -> Outcomes]
  /\ dialed \in [Clients -> Daemons \cup {None}]
  /\ handler \in [Clients -> {"none", "backlog", "hello", "request", "execute", "reply", "closed"}]
  /\ up \in [Clients -> Seq(Requests)] /\ down \in [Clients -> Seq(Answers)]
  /\ ran \in [Clients -> {"no", "started", "completed", "failed"}]

(* A request was written, and has perhaps been read.                         *)
Asked(c) == ran[c] # "no" \/ Holds(up[c], "request")

(* Only a client past its send has asked, and it is never told that it did   *)
(* not ask.                                                                  *)
AskedOnlyBySending == \A c \in Clients : Asked(c) =>
  pc[c] = "sent" \/ (pc[c] = "done" /\ outcome[c] \notin Unasked)

(* An operation is over only once it completed or failed, and a result says  *)
(* that it completed.                                                        *)
CompletedOnce == \A c \in Clients :
  /\ handler[c] \in {"execute", "reply"} => ran[c] # "no"
  /\ ran[c] = "completed" => handler[c] \in {"reply", "closed"}
  /\ Holds(down[c], "result") \/ outcome[c] = "result" => ran[c] = "completed"

ToldAtTheEnd == \A c \in Clients : pc[c] # "done" => outcome[c] = None

ClientInv == ClientsTyped /\ AskedOnlyBySending /\ ToldAtTheEnd /\ CompletedOnce

-----------------------------------------------------------------------------
LEMMA DaemonInvStep == ASSUME DaemonInv, [Next]_vars PROVE DaemonInv'
<1> USE ProcessAssumption
        DEF DaemonInv, DaemonsTyped, LockHeld, SocketHeld, Listening, Lives, Goes, CloseListener
<1>1. CASE UNCHANGED daemonVars
  BY <1>1 DEF daemonVars
<1>2. ASSUME NEW d \in Daemons, DaemonStep(d) PROVE DaemonInv'
  <2>1. CASE TakeLock(d)
    BY <2>1 DEF TakeLock
  <2>2. CASE RemoveStale(d)
    BY <2>2 DEF RemoveStale
  <2>3. CASE Listen(d)
    BY <2>3 DEF Listen
  <2>4. CASE Serve(d) \/ StartFails(d) \/ Drained(d)
    BY <2>4 DEF Serve, StartFails, Drained
  <2>5. CASE ProtectFails(d)
    BY <2>5 DEF ProtectFails
  <2>6. CASE Stop(d)
    BY <2>6 DEF Stop
  <2>7. CASE CloseConnections(d)
    BY <2>7 DEF CloseConnections
  <2>8. CASE Unlink(d)
    BY <2>8 DEF Unlink
  <2>9. CASE Unlock(d)
    BY <2>9 DEF Unlock
  <2>10. CASE Crash(d)
    BY <2>10 DEF Crash
  <2> QED BY <1>2, <2>1, <2>2, <2>3, <2>4, <2>5, <2>6, <2>7, <2>8, <2>9, <2>10 DEF DaemonStep
<1>3. ASSUME NEW c \in Clients, ClientStep(c) \/ CancelStep(c) \/ Cancel(c) \/ Die(c)
      PROVE  UNCHANGED daemonVars
  BY <1>3 DEF ClientStep, DialFails, Dial, WriteFails, Greet, Greeted, Load, Send, Receive,
              ReadFails, CancelStep, SendCancel, CloseWrite, ExpireRead, Cancel, Die
<1>4. ASSUME NEW c \in Clients, HandlerStep(c) \/ Watch(c)
      PROVE  UNCHANGED daemonVars
  BY <1>4 DEF HandlerStep, Accept, ReadHello, ReadRequest, ReadEnds, EmitURL, Complete,
              OperationFails, Reply, Watch
<1>5. CASE UNCHANGED vars
  BY <1>1, <1>5 DEF vars
<1> QED BY <1>1, <1>2, <1>3, <1>4, <1>5 DEF Next

LEMMA DaemonInvInit == ASSUME Init PROVE DaemonInv
  BY ProcessAssumption
  DEF Init, DaemonInv, DaemonsTyped, Lives, LockHeld, SocketHeld, Listening

(* A daemon that starts, stops, fails to start or cleans up after a crash    *)
(* never takes the socket file of another that serves.                       *)
THEOREM SocketIsServed == Spec => []SocketLeadsToDaemon
<1>1. Init => DaemonInv BY DaemonInvInit
<1>2. DaemonInv /\ [Next]_vars => DaemonInv' BY DaemonInvStep
<1>3. DaemonInv => SocketLeadsToDaemon
  BY DEF DaemonInv, SocketHeld, Listening, SocketLeadsToDaemon
<1> QED BY <1>1, <1>2, <1>3, PTL DEF Spec

-----------------------------------------------------------------------------
LEMMA TailHolds ==
  ASSUME NEW S, NEW s \in Seq(S), s # <<>>, NEW f, Holds(Tail(s), f)
  PROVE  Holds(s, f)
<1>1. PICK i \in 1..Len(Tail(s)) : Tail(s)[i] = f BY DEF Holds
<1>2. i + 1 \in 1..Len(s) /\ s[i + 1] = f BY <1>1
<1> QED BY <1>2 DEF Holds

LEMMA HeadHolds ==
  ASSUME NEW S, NEW s \in Seq(S), s # <<>>
  PROVE  Head(s) \in S /\ Holds(s, Head(s))
  BY DEF Holds

LEMMA AppendHolds ==
  ASSUME NEW S, NEW s \in Seq(S), NEW g \in S, NEW f, Holds(Append(s, g), f)
  PROVE  Holds(s, f) \/ f = g
<1>1. PICK i \in 1..Len(Append(s, g)) : Append(s, g)[i] = f BY DEF Holds
<1>2. CASE i = Len(s) + 1 BY <1>1, <1>2
<1>3. CASE i \in 1..Len(s) BY <1>1, <1>3 DEF Holds
<1> QED BY <1>1, <1>2, <1>3

(* What the invariant says of one client, and what it reads of the others.   *)
Good(c) ==
  /\ Asked(c) => pc[c] = "sent" \/ (pc[c] = "done" /\ outcome[c] \notin Unasked)
  /\ pc[c] # "done" => outcome[c] = None
  /\ handler[c] \in {"execute", "reply"} => ran[c] # "no"
  /\ ran[c] = "completed" => handler[c] \in {"reply", "closed"}
  /\ Holds(down[c], "result") \/ outcome[c] = "result" => ran[c] = "completed"

Alike(c) ==
  /\ pc'[c] = pc[c] /\ outcome'[c] = outcome[c] /\ handler'[c] = handler[c]
  /\ up'[c] = up[c] /\ down'[c] = down[c] /\ ran'[c] = ran[c]

LEMMA GoodParts == ClientInv <=> ClientsTyped /\ \A c \in Clients : Good(c)
  BY DEF ClientInv, AskedOnlyBySending, ToldAtTheEnd, CompletedOnce, Good

LEMMA AlikeGood == ASSUME NEW c \in Clients, Good(c), Alike(c) PROVE Good(c)'
  BY DEF Good, Alike, Asked, Holds

(* A client that leaves: what it is told, given what it is told it of.       *)
LEMMA ToldGood ==
  ASSUME ClientsTyped, NEW c \in Clients, NEW what \in Outcomes, Told(c, what), Good(c),
         UNCHANGED <<handler, up, ran>>, \A f : Holds(down'[c], f) => Holds(down[c], f),
         what \in Unasked => ~Asked(c), what = "result" => ran[c] = "completed"
  PROVE  Good(c)' /\ \A q \in Clients \ {c} : pc'[q] = pc[q] /\ outcome'[q] = outcome[q]
<1>1. pc'[c] = "done" /\ outcome'[c] = what BY DEF Told, ClientsTyped
<1>2. Asked(c)' <=> Asked(c) BY DEF Asked, Holds
<1> QED BY <1>1, <1>2 DEF Good, Told, ClientsTyped

LEMMA ClientStepGood ==
  ASSUME ClientInv, NEW c \in Clients, ClientStep(c) \/ CancelStep(c) \/ Cancel(c) \/ Die(c)
  PROVE  Good(c)'
<1> USE GoodParts, ProcessAssumption
<1>1. Good(c) /\ ClientsTyped OBVIOUS
<1>2. up[c] \in Seq(Requests) /\ down[c] \in Seq(Answers) BY DEF ClientsTyped
<1>3. down'[c] = Tail(down[c]) /\ down[c] # <<>> => \A f : Holds(down'[c], f) => Holds(down[c], f)
  BY <1>2, TailHolds
<1>4. CASE DialFails(c)
  <2>1. pc[c] = "new" BY <1>4 DEF DialFails
  <2> QED BY <1>1, <1>4, <2>1, ToldGood DEF DialFails, Good, Unasked, Outcomes
<1>5. CASE Dial(c)
  <2>1. pc[c] = "new" /\ handler'[c] = "backlog" /\ UNCHANGED <<outcome, up, down, ran>>
    BY <1>1, <1>5 DEF Dial, Moves, wireVars, ClientsTyped
  <2>2. ran[c] = "no" /\ ~Holds(up[c], "request") BY <1>1, <2>1 DEF Good, Asked
  <2> QED BY <1>1, <2>1, <2>2 DEF Good, Asked, Holds
<1>6. CASE WriteFails(c)
  <2>1. pc[c] \in {"greet", "send"} BY <1>6 DEF WriteFails
  <2> QED BY <1>1, <1>6, <2>1, ToldGood DEF WriteFails, Good, Unasked, Outcomes
<1>7. CASE Greet(c)
  <2>1. PICK f \in {"hello", "hello from another version"} : up' = [up EXCEPT ![c] = Append(@, f)]
    BY <1>7 DEF Greet
  <2>2. up'[c] = Append(up[c], f) /\ f \in Requests
    BY <1>1, <2>1 DEF ClientsTyped, Requests
  <2>3. Holds(up'[c], "request") => Holds(up[c], "request")
    <3>1. Holds(Append(up[c], f), "request") => Holds(up[c], "request") \/ "request" = f
      BY <1>2, <2>2, AppendHolds
    <3> QED BY <2>2, <3>1
  <2>4. pc[c] = "greet" /\ UNCHANGED <<outcome, handler, down, ran>>
    BY <1>7 DEF Greet, Moves
  <2>5. ~Asked(c) BY <1>1, <2>4 DEF Good
  <2> QED BY <1>1, <2>3, <2>4, <2>5 DEF Good, Asked, Holds
<1>8. CASE Greeted(c)
  <2>1. pc[c] = "greeted" /\ down'[c] = Tail(down[c]) /\ UNCHANGED <<handler, up, ran>>
    BY <1>1, <1>8 DEF Greeted, Moves, ClientsTyped
  <2>2. ~Asked(c) BY <1>1, <2>1 DEF Good
  <2>3. \A f : Holds(down'[c], f) => Holds(down[c], f) BY <1>3, <1>8, <2>1 DEF Greeted
  <2>4. CASE Told(c, "refused")
    BY <1>1, <2>1, <2>2, <2>3, <2>4, ToldGood DEF Unasked, Outcomes
  <2>5. CASE UNCHANGED outcome
    BY <1>1, <2>1, <2>2, <2>3, <2>5 DEF Good, Asked, Holds
  <2> QED BY <1>8, <2>4, <2>5 DEF Greeted
<1>9. CASE Load(c)
  <2>1. pc[c] = "load" /\ UNCHANGED <<handler, up, down, ran>> BY <1>9 DEF Load, Moves
  <2>2. ~Asked(c) BY <1>1, <2>1 DEF Good
  <2>3. CASE Told(c, "not asked")
    BY <1>1, <2>1, <2>2, <2>3, ToldGood DEF Unasked, Outcomes
  <2>4. CASE UNCHANGED outcome
    BY <1>1, <2>1, <2>2, <2>4 DEF Good, Asked, Holds
  <2> QED BY <1>9, <2>3, <2>4 DEF Load
<1>10. CASE Send(c)
  <2>1. pc[c] = "send" /\ pc'[c] = "sent" /\ UNCHANGED <<outcome, handler, down, ran>>
    BY <1>1, <1>10 DEF Send, Moves, ClientsTyped
  <2> QED BY <1>1, <2>1 DEF Good, Holds
<1>11. CASE Receive(c)
  <2>1. down'[c] = Tail(down[c]) /\ down[c] # <<>> /\ UNCHANGED <<handler, up, ran>>
    BY <1>1, <1>11 DEF Receive, ClientsTyped
  <2>2. \A f : Holds(down'[c], f) => Holds(down[c], f) BY <1>3, <2>1
  <2>3. Head(down[c]) \in Answers /\ Holds(down[c], Head(down[c])) BY <1>2, <2>1, HeadHolds
  <2>4. CASE Told(c, Head(down[c]))
    <3>1. Head(down[c]) \in Outcomes /\ Head(down[c]) \notin Unasked
      BY <2>3 DEF Answers, Outcomes, Unasked
    <3>2. Head(down[c]) = "result" => ran[c] = "completed" BY <1>1, <2>3 DEF Good
    <3> QED BY <1>1, <2>1, <2>2, <2>4, <3>1, <3>2, ToldGood
  <2>5. CASE UNCHANGED <<pc, outcome>>
    BY <1>1, <2>1, <2>2, <2>5 DEF Good, Asked, Holds
  <2> QED BY <1>11, <2>4, <2>5 DEF Receive
<1>12. CASE ReadFails(c)
  <2>1. CASE pc[c] = "greeted"
    BY <1>1, <1>12, <2>1, ToldGood DEF ReadFails, Good, Unasked, Outcomes
  <2>2. CASE pc[c] = "sent"
    BY <1>1, <1>12, <2>2, ToldGood DEF ReadFails, Unasked, Outcomes
  <2> QED BY <1>12, <2>1, <2>2 DEF ReadFails
<1>13. CASE SendCancel(c)
  <2>1. up'[c] = Append(up[c], "cancel") /\ UNCHANGED <<pc, outcome, handler, down, ran>>
    BY <1>1, <1>13 DEF SendCancel, ClientsTyped
  <2>2. Holds(up'[c], "request") => Holds(up[c], "request")
    <3>1. "cancel" \in Requests BY DEF Requests
    <3>2. Holds(Append(up[c], "cancel"), "request")
            => Holds(up[c], "request") \/ "request" = "cancel"
      BY <1>2, <3>1, AppendHolds
    <3> QED BY <2>1, <3>2
  <2> QED BY <1>1, <2>1, <2>2 DEF Good, Asked, Holds
<1>14. CASE CloseWrite(c) \/ ExpireRead(c) \/ Cancel(c)
  <2>1. Alike(c) BY <1>14 DEF CloseWrite, ExpireRead, Cancel, wireVars, Alike
  <2> QED BY <1>1, <2>1, AlikeGood
<1>15. CASE Die(c)
  BY <1>1, <1>15, ToldGood DEF Die, Unasked, Outcomes
<1> QED BY <1>4, <1>5, <1>6, <1>7, <1>8, <1>9, <1>10, <1>11, <1>12, <1>13, <1>14, <1>15
        DEF ClientStep, CancelStep

(* A frame of the daemon's that is not a result.                             *)
LEMMA WritesHolds ==
  ASSUME ClientsTyped, NEW c \in Clients, NEW f \in Answers, Writes(c, f), NEW g, Holds(down'[c], g)
  PROVE  Holds(down[c], g) \/ g = f
<1>1. CASE downEnd[c] BY <1>1 DEF Writes
<1>2. CASE ~downEnd[c]
  <2>1. down'[c] = Append(down[c], f) /\ down[c] \in Seq(Answers)
    BY <1>2 DEF Writes, ClientsTyped
  <2> QED BY <2>1, AppendHolds
<1> QED BY <1>1, <1>2

LEMMA HandlerStepGood ==
  ASSUME ClientInv, NEW c \in Clients, HandlerStep(c) \/ Watch(c)
  PROVE  Good(c)'
<1>1. Good(c) /\ ClientsTyped BY GoodParts
<1>2. up[c] \in Seq(Requests) /\ down[c] \in Seq(Answers) BY <1>1 DEF ClientsTyped
<1>3. UNCHANGED <<pc, outcome>>
  BY DEF HandlerStep, Accept, ReadHello, ReadRequest, ReadEnds, EmitURL, Complete,
         OperationFails, Reply, Watch, clientVars
<1>4. ASSUME up' = [up EXCEPT ![c] = Tail(@)], up[c] # <<>>
      PROVE  (\A f : Holds(up'[c], f) => Holds(up[c], f)) /\ Holds(up[c], Head(up[c]))
  BY <1>1, <1>2, <1>4, TailHolds, HeadHolds DEF ClientsTyped
<1>5. CASE Accept(c)
  BY <1>1, <1>3, <1>5 DEF Accept, Handles, wireVars, Good, Asked, Holds, ClientsTyped
<1>6. CASE ReadHello(c)
  <2>1. \A f : Holds(up'[c], f) => Holds(up[c], f) BY <1>4, <1>6 DEF ReadHello
  <2>2. Holds(down'[c], "result") => Holds(down[c], "result")
    BY <1>1, <1>6, WritesHolds DEF ReadHello, Ends, Answers
  <2>3. handler'[c] \in {"request", "closed"} /\ handler[c] = "hello" /\ ran' = ran
    BY <1>1, <1>6 DEF ReadHello, Handles, ClientsTyped
  <2> QED BY <1>1, <1>3, <2>1, <2>2, <2>3 DEF Good, Asked
<1>7. CASE ReadRequest(c)
  <2>1. (\A f : Holds(up'[c], f) => Holds(up[c], f)) /\ Holds(up[c], Head(up[c]))
    BY <1>4, <1>7 DEF ReadRequest
  <2>2. handler[c] = "request" /\ ran[c] # "completed"
    BY <1>1, <1>7 DEF ReadRequest, Handles, Good
  <2>3. CASE Head(up[c]) = "request"
    <3>1. handler'[c] = "execute" /\ ran'[c] = "started" /\ down' = down
      BY <1>1, <1>7, <2>3 DEF ReadRequest, Handles, ClientsTyped
    <3> QED BY <1>1, <1>3, <2>1, <2>2, <2>3, <3>1 DEF Good, Asked, Holds
  <2>4. CASE Head(up[c]) # "request"
    <3>1. handler'[c] = "closed" /\ ran' = ran /\ Ends(c, "error")
      BY <1>1, <1>7, <2>4 DEF ReadRequest, Handles, ClientsTyped
    <3>2. Holds(down'[c], "result") => Holds(down[c], "result")
      BY <1>1, <3>1, WritesHolds DEF Ends, Answers
    <3> QED BY <1>1, <1>3, <2>1, <3>1, <3>2 DEF Good, Asked
  <2> QED BY <2>3, <2>4
<1>8. CASE ReadEnds(c)
  <2>1. handler'[c] = "closed" /\ UNCHANGED <<up, down, ran>>
    BY <1>1, <1>8 DEF ReadEnds, Handles, ClientsTyped
  <2> QED BY <1>1, <1>3, <2>1 DEF Good, Asked, Holds
<1>9. CASE EmitURL(c)
  <2>1. Holds(down'[c], "result") => Holds(down[c], "result")
    BY <1>1, <1>9, WritesHolds DEF EmitURL, Answers
  <2> QED BY <1>1, <1>3, <1>9, <2>1 DEF EmitURL, Good, Asked, Holds
<1>10. CASE Complete(c) \/ OperationFails(c)
  <2>1. handler[c] = "execute" /\ handler'[c] = "reply" /\ UNCHANGED <<up, down>>
    BY <1>1, <1>10 DEF Complete, OperationFails, Handles, wireVars, ClientsTyped
  <2>2. ran'[c] \in {"completed", "failed"} BY <1>1, <1>10 DEF Complete, OperationFails, ClientsTyped
  <2> QED BY <1>1, <1>3, <2>1, <2>2 DEF Good, Asked, Holds
<1>11. CASE Reply(c)
  <2>1. handler'[c] = "closed" /\ UNCHANGED <<up, ran>>
    BY <1>1, <1>11 DEF Reply, Handles, ClientsTyped
  <2>2. Holds(down'[c], "result") => Holds(down[c], "result") \/ ran[c] = "completed"
    BY <1>1, <1>11, WritesHolds DEF Reply, Ends, Answers
  <2> QED BY <1>1, <1>3, <2>1, <2>2 DEF Good, Asked, Holds
<1>12. CASE Watch(c)
  BY <1>1, <1>12, AlikeGood DEF Watch, clientVars, wireVars, Alike
<1> QED BY <1>5, <1>6, <1>7, <1>8, <1>9, <1>10, <1>11, <1>12 DEF HandlerStep

(* A daemon's step closes connections and does nothing else to a client.     *)
LEMMA DaemonStepGood ==
  ASSUME ClientInv, NEW d \in Daemons, DaemonStep(d), NEW c \in Clients
  PROVE  /\ Good(c)' /\ handler'[c] \in {handler[c], "closed"}
         /\ UNCHANGED <<pc, outcome, dialed, up, down, ran>>
<1>1. UNCHANGED <<pc, outcome, dialed, up, down, ran>>
  BY DEF DaemonStep, TakeLock, RemoveStale, Listen, Serve, StartFails, ProtectFails, Stop,
         CloseConnections, Drained, Unlink, Unlock, Crash, Elsewhere, clientVars, wireVars
<1>2. handler'[c] \in {handler[c], "closed"}
  BY DEF DaemonStep, TakeLock, RemoveStale, Listen, Serve, StartFails, ProtectFails, Stop,
         CloseConnections, Drained, Unlink, Unlock, Crash, Elsewhere, CloseListener
<1>3. Good(c) BY GoodParts
<1> QED BY <1>1, <1>2, <1>3 DEF Good, Asked, Holds

(* The other clients, and the types.                                         *)
LEMMA OthersAlike ==
  ASSUME ClientsTyped, NEW c \in Clients, NEW q \in Clients \ {c},
         \/ ClientStep(c) \/ CancelStep(c) \/ Cancel(c) \/ Die(c)
         \/ HandlerStep(c) \/ Watch(c)
  PROVE  Alike(q)
<1> USE DEF Alike, ClientsTyped, wireVars, clientVars, Told, Moves, Handles
<1>1. CASE ClientStep(c)
  BY <1>1 DEF ClientStep, DialFails, Dial, WriteFails, Greet, Greeted, Load, Send, Receive,
              ReadFails
<1>2. CASE CancelStep(c) \/ Cancel(c) \/ Die(c)
  BY <1>2 DEF CancelStep, SendCancel, CloseWrite, ExpireRead, Cancel, Die
<1>3. CASE HandlerStep(c) \/ Watch(c)
  BY <1>3 DEF HandlerStep, Accept, ReadHello, ReadRequest, ReadEnds, EmitURL, Complete,
              OperationFails, Reply, Watch, Writes, Ends
<1> QED BY <1>1, <1>2, <1>3

LEMMA ToldTypes ==
  ASSUME ClientsTyped, NEW c \in Clients, NEW what \in Outcomes, Told(c, what),
         UNCHANGED <<dialed, handler, up, ran>>, down' \in [Clients -> Seq(Answers)]
  PROVE  ClientsTyped'
  BY DEF ClientsTyped, Told, Outcomes

LEMMA TailType == ASSUME NEW S, NEW s \in Seq(S), s # <<>> PROVE Tail(s) \in Seq(S)
  OBVIOUS

LEMMA ClientStepTypes ==
  ASSUME ClientsTyped, DaemonInv, NEW c \in Clients,
         ClientStep(c) \/ CancelStep(c) \/ Cancel(c) \/ Die(c)
  PROVE  ClientsTyped'
<1>1. Unasked \cup {"failed", "killed"} \cup Answers \subseteq Outcomes
  BY DEF Outcomes
<1>2. down[c] # <<>> => Tail(down[c]) \in Seq(Answers) /\ Head(down[c]) \in Answers
  BY TailType, HeadHolds DEF ClientsTyped
<1>3. CASE DialFails(c) \/ WriteFails(c) \/ ReadFails(c) \/ Die(c)
  BY <1>1, <1>3, ToldTypes
  DEF DialFails, WriteFails, ReadFails, Die, Unasked, ClientsTyped
<1>4. CASE Dial(c)
  BY <1>4 DEF Dial, Moves, ClientsTyped, DaemonInv, DaemonsTyped, wireVars
<1>5. CASE Greet(c) \/ Send(c) \/ SendCancel(c)
  <2>1. PICK f \in Requests : up' = [up EXCEPT ![c] = Append(@, f)]
    BY <1>5 DEF Greet, Send, SendCancel, Requests
  <2>2. \A s \in Seq(Requests) : Append(s, f) \in Seq(Requests)
    OBVIOUS
  <2>3. up' \in [Clients -> Seq(Requests)]
    BY <2>1, <2>2 DEF ClientsTyped
  <2> QED BY <1>5, <2>3 DEF Greet, Send, SendCancel, Moves, ClientsTyped
<1>6. CASE Greeted(c) \/ Receive(c)
  <2>1. down' \in [Clients -> Seq(Answers)] /\ UNCHANGED <<dialed, handler, up, ran>>
    BY <1>2, <1>6 DEF Greeted, Receive, ClientsTyped
  <2>2. CASE Told(c, "refused") \/ Told(c, Head(down[c]))
    BY <1>1, <1>2, <1>6, <2>1, <2>2, ToldTypes DEF Unasked, Greeted, Receive
  <2>3. CASE outcome' = outcome /\ (pc' = pc \/ Moves(c, "greeted", "load"))
    BY <2>1, <2>3 DEF Moves, ClientsTyped
  <2> QED BY <1>6, <2>2, <2>3 DEF Greeted, Receive
<1>7. CASE Load(c)
  <2>1. CASE Told(c, "not asked")
    BY <1>1, <1>7, <2>1, ToldTypes DEF Load, Unasked, ClientsTyped
  <2>2. CASE Moves(c, "load", "send") /\ outcome' = outcome
    BY <1>7, <2>2 DEF Load, Moves, ClientsTyped
  <2> QED BY <1>7, <2>1, <2>2 DEF Load
<1>8. CASE CloseWrite(c) \/ ExpireRead(c) \/ Cancel(c)
  BY <1>8 DEF CloseWrite, ExpireRead, Cancel, ClientsTyped, wireVars
<1> QED BY <1>3, <1>4, <1>5, <1>6, <1>7, <1>8 DEF ClientStep, CancelStep

LEMMA HandlerStepTypes ==
  ASSUME ClientsTyped, NEW c \in Clients, HandlerStep(c) \/ Watch(c)
  PROVE  ClientsTyped'
<1>1. UNCHANGED <<pc, outcome, dialed>>
  BY DEF HandlerStep, Accept, ReadHello, ReadRequest, ReadEnds, EmitURL, Complete,
         OperationFails, Reply, Watch, clientVars
<1>2. up' \in [Clients -> Seq(Requests)]
  <2>1. up[c] # <<>> => Tail(up[c]) \in Seq(Requests) BY TailType DEF ClientsTyped
  <2> QED BY <2>1 DEF ClientsTyped, HandlerStep, Accept, ReadHello, ReadRequest, ReadEnds,
                      EmitURL, Complete, OperationFails, Reply, Watch, wireVars
<1>3. down' \in [Clients -> Seq(Answers)]
  <2>1. ASSUME NEW f \in Answers, Writes(c, f) PROVE down' \in [Clients -> Seq(Answers)]
    BY <2>1 DEF Writes, ClientsTyped
  <2>2. {"hello_ok", "hello_error", "url", "result", "error"} \subseteq Answers BY DEF Answers
  <2>3. (\E f \in Answers : Writes(c, f)) \/ down' = down
    BY <2>2 DEF HandlerStep, Accept, ReadHello, ReadRequest, ReadEnds, EmitURL, Complete,
                OperationFails, Reply, Watch, Ends, wireVars
  <2> QED BY <2>1, <2>3 DEF ClientsTyped
<1>4. ran' \in [Clients -> {"no", "started", "completed", "failed"}]
  BY DEF ClientsTyped, HandlerStep, Accept, ReadHello, ReadRequest, ReadEnds, EmitURL, Complete,
         OperationFails, Reply, Watch
<1>5. handler' \in [Clients -> {"none", "backlog", "hello", "request", "execute", "reply", "closed"}]
  BY DEF ClientsTyped, HandlerStep, Accept, ReadHello, ReadRequest, ReadEnds, EmitURL, Complete,
         OperationFails, Reply, Watch, Handles
<1> QED BY <1>1, <1>2, <1>3, <1>4, <1>5 DEF ClientsTyped

LEMMA DaemonStepTypes ==
  ASSUME ClientInv, NEW d \in Daemons, DaemonStep(d)
  PROVE  ClientsTyped'
<1>1. UNCHANGED <<pc, outcome, dialed, up, down, ran>>
  BY DEF DaemonStep, TakeLock, RemoveStale, Listen, Serve, StartFails, ProtectFails, Stop,
         CloseConnections, Drained, Unlink, Unlock, Crash, Elsewhere, clientVars, wireVars
<1>2. handler' \in [Clients -> {"none", "backlog", "hello", "request", "execute", "reply", "closed"}]
  BY DEF ClientInv, ClientsTyped, DaemonStep, TakeLock, RemoveStale, Listen, Serve, StartFails,
         ProtectFails, Stop, CloseConnections, Drained, Unlink, Unlock, Crash, Elsewhere,
         CloseListener
<1> QED BY <1>1, <1>2 DEF ClientInv, ClientsTyped

LEMMA ClientInvStep == ASSUME DaemonInv, ClientInv, [Next]_vars PROVE ClientInv'
<1> USE GoodParts
<1>1. ASSUME NEW c \in Clients,
             \/ ClientStep(c) \/ CancelStep(c) \/ Cancel(c) \/ Die(c)
             \/ HandlerStep(c) \/ Watch(c)
      PROVE  ClientInv'
  <2>1. ClientsTyped' BY <1>1, ClientStepTypes, HandlerStepTypes
  <2>2. Good(c)' BY <1>1, ClientStepGood, HandlerStepGood
  <2>3. \A q \in Clients \ {c} : Good(q)' BY <1>1, OthersAlike, AlikeGood
  <2>4. \A q \in Clients : Good(q)' BY <2>2, <2>3
  <2> QED BY <2>1, <2>4 DEF ClientInv, AskedOnlyBySending, ToldAtTheEnd, CompletedOnce, Good
<1>2. ASSUME NEW d \in Daemons, DaemonStep(d) PROVE ClientInv'
  <2>1. ClientsTyped' BY <1>2, DaemonStepTypes
  <2>2. \A c \in Clients : Good(c)' BY <1>2, DaemonStepGood
  <2> QED BY <2>1, <2>2 DEF ClientInv, AskedOnlyBySending, ToldAtTheEnd, CompletedOnce, Good
<1>3. CASE UNCHANGED vars
  BY <1>3 DEF vars, clientVars, wireVars, ClientInv, ClientsTyped, AskedOnlyBySending,
              ToldAtTheEnd, CompletedOnce, Asked, Holds
<1> QED BY <1>1, <1>2, <1>3 DEF Next

LEMMA ClientInvInit == ASSUME Init PROVE ClientInv
<1>1. \A f : ~Holds(<<>>, f) BY DEF Holds
<1>2. ClientsTyped
  BY DEF Init, ClientsTyped, Outcomes, Unasked, Answers, Requests
<1> QED BY <1>1, <1>2, ProcessAssumption
        DEF Init, ClientInv, AskedOnlyBySending, ToldAtTheEnd, CompletedOnce, Asked

(* A client is told of a result only if its operation completed, and that    *)
(* there was no daemon, no handshake or no request only if it never began,   *)
(* whatever crashes, stops and cancellations cross its frames.               *)
THEOREM OutcomesAreTrue == Spec => []OutcomeIsTrue
<1>1. Init => DaemonInv /\ ClientInv BY DaemonInvInit, ClientInvInit
<1>2. DaemonInv /\ ClientInv /\ [Next]_vars => (DaemonInv /\ ClientInv)'
  BY DaemonInvStep, ClientInvStep
<1>3. ClientInv => OutcomeIsTrue
  <2> SUFFICES ASSUME ClientInv, NEW c \in Clients
               PROVE  /\ outcome[c] = "result" => ran[c] = "completed"
                      /\ outcome[c] \in Unasked => ran[c] = "no"
    BY DEF OutcomeIsTrue, Unasked
  <2>1. CASE outcome[c] \in Unasked /\ ran[c] # "no"
    <3>1. pc[c] = "sent" BY <2>1 DEF ClientInv, AskedOnlyBySending, Asked
    <3> QED BY <2>1, <3>1, ProcessAssumption DEF ClientInv, ToldAtTheEnd, Unasked
  <2> QED BY <2>1 DEF ClientInv, CompletedOnce
<1> QED BY <1>1, <1>2, <1>3, PTL DEF Spec
=============================================================================
