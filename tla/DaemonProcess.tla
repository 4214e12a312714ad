---------------------------- MODULE DaemonProcess ----------------------------
(* The daemon as a process and its wire protocol                             *)
(* (src/internal/cli/daemon.go): one daemon per runtime directory, held by a *)
(* flock and reached through a socket file that a crash leaves behind, and   *)
(* one request per connection, which its client may cancel at any time.      *)
(*                                                                           *)
(* A daemon that ended may be started again; the connections of its earlier  *)
(* life are all closed by then.  What a request does inside the daemon is    *)
(* DaemonPool's.                                                             *)
EXTENDS Naturals, Sequences

CONSTANTS Daemons, Clients, None,
          MaxCrashes,  \* bound: daemons killed
          MaxEvents    \* bound: authorization URLs sent for one request

ASSUME ProcessAssumption ==
  /\ None \notin Daemons /\ MaxCrashes \in Nat /\ MaxEvents \in Nat
  /\ None \notin {"unavailable", "refused", "not asked", "result"}

VARIABLES
  life,      \* life[d]: where daemon d is between start and exit
  flock,     \* holder of the lock on daemon.lock
  socket,    \* the daemon whose listener daemon.sock leads to, None: no file
  open,      \* daemons whose listener is open
  crashes,
  pc,        \* pc[c]: where client c is
  outcome,   \* outcome[c]: what c's caller is told
  cancel,    \* cancel[c]: progress of cancelDaemonRequest
  dialed,    \* dialed[c]: the daemon c's connection leads to
  handler,   \* handler[c]: where that daemon's handler for c is
  ctx,       \* ctx[c]: the request's context, "live" or "canceled"
  up, down,  \* frames under way to the daemon and to the client
  upEnd, downEnd,  \* that direction's writer has closed
  ran        \* history: ran[c]: how far the operation c asked for came

daemonVars == <<life, flock, socket, open, crashes>>
clientVars == <<pc, outcome, cancel, dialed>>
wireVars == <<up, down, upEnd, downEnd>>
vars == <<daemonVars, clientVars, handler, ctx, wireVars, ran>>

Init ==
  /\ life = [d \in Daemons |-> "off"] /\ flock = None /\ socket = None
  /\ open = {} /\ crashes = 0
  /\ pc = [c \in Clients |-> "new"] /\ outcome = [c \in Clients |-> None]
  /\ cancel = [c \in Clients |-> "no"] /\ dialed = [c \in Clients |-> None]
  /\ handler = [c \in Clients |-> "none"] /\ ctx = [c \in Clients |-> "live"]
  /\ up = [c \in Clients |-> <<>>] /\ down = [c \in Clients |-> <<>>]
  /\ upEnd = [c \in Clients |-> FALSE] /\ downEnd = [c \in Clients |-> FALSE]
  /\ ran = [c \in Clients |-> "no"]

-----------------------------------------------------------------------------
(* newDaemon.                                                                *)
Goes(d, from, to) == life[d] = from /\ life' = [life EXCEPT ![d] = to]
Elsewhere == UNCHANGED <<clientVars, handler, ctx, wireVars, ran, crashes>>

(* The non-blocking flock; daemon_already_running otherwise.                 *)
TakeLock(d) ==
  /\ Goes(d, "off", "clean") /\ flock = None
  /\ flock' = d
  /\ UNCHANGED <<socket, open>> /\ Elsewhere

(* A socket file found under the lock is stale.                              *)
RemoveStale(d) ==
  /\ Goes(d, "clean", "listen")
  /\ socket' = None
  /\ UNCHANGED <<flock, open>> /\ Elsewhere

Listen(d) ==
  /\ Goes(d, "listen", "protect")
  /\ socket' = d /\ open' = open \cup {d}
  /\ UNCHANGED flock /\ Elsewhere

(* Chmod and the HMAC key.                                                   *)
Serve(d) ==
  /\ Goes(d, "protect", "serve")
  /\ UNCHANGED <<flock, socket, open>> /\ Elsewhere

(* A failure before there is a listener, and one after.                      *)
StartFails(d) ==
  /\ Goes(d, "clean", "unlock") \/ Goes(d, "listen", "unlock")
  /\ UNCHANGED <<flock, socket, open>> /\ Elsewhere

HandlersOf(d) == {c \in Clients : dialed[c] = d}

(* Closing a listener removes its socket file, by name, and resets the       *)
(* connections nobody accepted.                                              *)
CloseListener(d) ==
  /\ open' = open \ {d} /\ socket' = None
  /\ downEnd' = [c \in Clients |->
       downEnd[c] \/ (c \in HandlersOf(d) /\ handler[c] = "backlog")]
  /\ handler' = [c \in Clients |->
       IF c \in HandlersOf(d) /\ handler[c] = "backlog" THEN "closed" ELSE handler[c]]

ProtectFails(d) ==
  /\ Goes(d, "protect", "unlink")
  /\ CloseListener(d)
  /\ UNCHANGED <<flock, crashes, clientVars, ctx, up, down, upEnd, ran>>

(* A signal, or close: d.cancel cancels every request's context, and the     *)
(* listener is closed.                                                       *)
Stop(d) ==
  /\ Goes(d, "serve", "closing")
  /\ CloseListener(d)
  /\ ctx' = [c \in Clients |-> IF c \in HandlersOf(d) THEN "canceled" ELSE ctx[c]]
  /\ UNCHANGED <<flock, crashes, clientVars, up, down, upEnd, ran>>

(* d.close closes the connections, of requests under way too.                *)
CloseConnections(d) ==
  /\ Goes(d, "closing", "drain")
  /\ downEnd' = [c \in Clients |-> downEnd[c] \/ c \in HandlersOf(d)]
  /\ UNCHANGED <<flock, socket, open, crashes, clientVars, handler, ctx,
                 up, down, upEnd, ran>>

(* d.wg.Wait.                                                                *)
Drained(d) ==
  /\ Goes(d, "drain", "unlink")
  /\ \A c \in HandlersOf(d) : handler[c] \in {"none", "closed"}
  /\ UNCHANGED <<flock, socket, open>> /\ Elsewhere

(* Mutant: the lock is given up before the socket is cleaned up.             *)
UnlinkUnlocked(d) ==
  /\ Goes(d, "unlink", IF flock = d THEN "unlink" ELSE "off")
  /\ flock' = (IF flock = d THEN None ELSE flock)
  /\ socket' = (IF flock = d THEN socket ELSE None)
  /\ UNCHANGED open /\ Elsewhere

(* removeOwnedSocket, then the lock.                                         *)
Unlink(d) ==
  /\ Goes(d, "unlink", "unlock")
  /\ socket' = None
  /\ UNCHANGED <<flock, open>> /\ Elsewhere

Unlock(d) ==
  /\ Goes(d, "unlock", "off") /\ flock = d
  /\ flock' = None
  /\ UNCHANGED <<socket, open>> /\ Elsewhere

(* A daemon that is killed drops its lock and its connections, and leaves    *)
(* its socket file behind.                                                   *)
Crash(d) ==
  /\ life[d] # "off" /\ crashes < MaxCrashes
  /\ crashes' = crashes + 1
  /\ life' = [life EXCEPT ![d] = "off"]
  /\ flock' = (IF flock = d THEN None ELSE flock) /\ open' = open \ {d}
  /\ handler' = [c \in Clients |-> IF c \in HandlersOf(d) THEN "closed" ELSE handler[c]]
  /\ downEnd' = [c \in Clients |-> downEnd[c] \/ c \in HandlersOf(d)]
  /\ UNCHANGED <<socket, clientVars, ctx, up, down, upEnd, ran>>

-----------------------------------------------------------------------------
(* openDaemonClient and request.                                             *)
Told(c, what) ==
  /\ pc' = [pc EXCEPT ![c] = "done"] /\ outcome' = [outcome EXCEPT ![c] = what]
  /\ upEnd' = [upEnd EXCEPT ![c] = TRUE]

Moves(c, from, to) == pc[c] = from /\ pc' = [pc EXCEPT ![c] = to]

(* No socket file, or one that nobody listens at: daemon_unavailable.        *)
DialFails(c) ==
  /\ pc[c] = "new" /\ socket \notin open
  /\ Told(c, "unavailable")
  /\ UNCHANGED <<daemonVars, cancel, dialed, handler, ctx, up, down, downEnd, ran>>

Dial(c) ==
  /\ socket \in open /\ Moves(c, "new", "greet")
  /\ dialed' = [dialed EXCEPT ![c] = socket]
  /\ handler' = [handler EXCEPT ![c] = "backlog"]
  /\ UNCHANGED <<daemonVars, outcome, cancel, ctx, wireVars, ran>>

(* A write fails once this side was shut by a cancellation or the other side *)
(* is gone; otherwise the socket's buffer takes the frame.                   *)
Writable(c) == cancel[c] \in {"no", "asked", "sent"} /\ ~downEnd[c]

WriteFails(c) ==
  /\ pc[c] \in {"greet", "send"} /\ ~Writable(c)
  /\ Told(c, IF pc[c] = "greet" THEN "unavailable" ELSE "failed")
  /\ UNCHANGED <<daemonVars, cancel, dialed, handler, ctx, up, down, downEnd, ran>>

(* The client's version may be another than the daemon's.                    *)
Greet(c) ==
  /\ Writable(c) /\ Moves(c, "greet", "greeted")
  /\ \E f \in {"hello", "hello from another version"} :
       up' = [up EXCEPT ![c] = Append(@, f)]
  /\ UNCHANGED <<daemonVars, outcome, cancel, dialed, handler, ctx, down, upEnd, downEnd, ran>>

(* After the handshake the client loads its configuration and evaluates the  *)
(* context; it may fail to, and goes away.                                   *)
Greeted(c) ==
  /\ down[c] # <<>> /\ cancel[c] # "expired"
  /\ down' = [down EXCEPT ![c] = Tail(@)]
  /\ IF Head(down[c]) = "hello_ok"
     THEN Moves(c, "greeted", "load") /\ UNCHANGED <<outcome, upEnd>>
     ELSE pc[c] = "greeted" /\ Told(c, "refused")
  /\ UNCHANGED <<daemonVars, cancel, dialed, handler, ctx, up, downEnd, ran>>

Load(c) ==
  /\ \/ Moves(c, "load", "send") /\ UNCHANGED <<outcome, upEnd>>
     \/ pc[c] = "load" /\ Told(c, "not asked")
  /\ UNCHANGED <<daemonVars, cancel, dialed, handler, ctx, up, down, downEnd, ran>>

Send(c) ==
  /\ Writable(c) /\ Moves(c, "send", "sent")
  /\ up' = [up EXCEPT ![c] = Append(@, "request")]
  /\ UNCHANGED <<daemonVars, outcome, cancel, dialed, handler, ctx, down, upEnd, downEnd, ran>>

(* Authorization URLs are shown; the first other frame is the reply.         *)
Receive(c) ==
  /\ pc[c] = "sent" /\ down[c] # <<>> /\ cancel[c] # "expired"
  /\ down' = [down EXCEPT ![c] = Tail(@)]
  /\ IF Head(down[c]) = "url" THEN UNCHANGED <<pc, outcome, upEnd>>
     ELSE Told(c, Head(down[c]))
  /\ UNCHANGED <<daemonVars, cancel, dialed, handler, ctx, up, downEnd, ran>>

(* Mutant: every lost connection is a daemon that was unavailable.           *)
ReadFailsUnavailable(c) ==
  /\ pc[c] \in {"greeted", "sent"}
  /\ cancel[c] = "expired" \/ (down[c] = <<>> /\ downEnd[c])
  /\ Told(c, "unavailable")
  /\ UNCHANGED <<daemonVars, cancel, dialed, handler, ctx, up, down, downEnd, ran>>

(* The connection ended, or the cancellation's deadline did.                 *)
ReadFails(c) ==
  /\ pc[c] \in {"greeted", "sent"}
  /\ cancel[c] = "expired" \/ (down[c] = <<>> /\ downEnd[c])
  /\ Told(c, IF pc[c] = "greeted" THEN "unavailable" ELSE "failed")
  /\ UNCHANGED <<daemonVars, cancel, dialed, handler, ctx, up, down, downEnd, ran>>

(* The caller's context ends; context.AfterFunc runs cancelDaemonRequest     *)
(* beside the client: a frame, the end of the write side, a read deadline.   *)
Cancel(c) ==
  /\ pc[c] \in {"greet", "greeted", "load", "send", "sent"} /\ cancel[c] = "no"
  /\ cancel' = [cancel EXCEPT ![c] = "asked"]
  /\ UNCHANGED <<daemonVars, pc, outcome, dialed, handler, ctx, wireVars, ran>>

SendCancel(c) ==
  /\ pc[c] # "done" /\ cancel[c] = "asked"
  /\ cancel' = [cancel EXCEPT ![c] = "sent"]
  /\ up' = [up EXCEPT ![c] = Append(@, "cancel")]
  /\ UNCHANGED <<daemonVars, pc, outcome, dialed, handler, ctx, down, upEnd, downEnd, ran>>

CloseWrite(c) ==
  /\ pc[c] # "done" /\ cancel[c] = "sent"
  /\ cancel' = [cancel EXCEPT ![c] = "shut"]
  /\ upEnd' = [upEnd EXCEPT ![c] = TRUE]
  /\ UNCHANGED <<daemonVars, pc, outcome, dialed, handler, ctx, up, down, downEnd, ran>>

(* Mutant: the client waits for the daemon's answer to its cancellation.     *)
ExpireReadOnReply(c) ==
  /\ pc[c] # "done" /\ cancel[c] = "shut" /\ down[c] # <<>>
  /\ cancel' = [cancel EXCEPT ![c] = "expired"]
  /\ UNCHANGED <<daemonVars, pc, outcome, dialed, handler, ctx, wireVars, ran>>

ExpireRead(c) ==
  /\ pc[c] # "done" /\ cancel[c] = "shut"
  /\ cancel' = [cancel EXCEPT ![c] = "expired"]
  /\ UNCHANGED <<daemonVars, pc, outcome, dialed, handler, ctx, wireVars, ran>>

(* The client is killed.                                                     *)
Die(c) ==
  /\ pc[c] \notin {"new", "done"}
  /\ Told(c, "killed")
  /\ UNCHANGED <<daemonVars, cancel, dialed, handler, ctx, up, down, downEnd, ran>>

-----------------------------------------------------------------------------
(* serve and handle, for the connection of client c.                         *)
Alive(c) == dialed[c] # None /\ life[dialed[c]] # "off"
Handles(c, from, to) == handler[c] = from /\ handler' = [handler EXCEPT ![c] = to]

Accept(c) ==
  /\ Handles(c, "backlog", "hello") /\ dialed[c] \in open
  /\ life[dialed[c]] = "serve"
  /\ UNCHANGED <<daemonVars, clientVars, ctx, wireVars, ran>>

Closed(c) == up[c] = <<>> /\ (upEnd[c] \/ downEnd[c])

Writes(c, f) == down' = IF downEnd[c] THEN down ELSE [down EXCEPT ![c] = Append(@, f)]
Ends(c, f) == Writes(c, f) /\ downEnd' = [downEnd EXCEPT ![c] = TRUE]

(* The first frame must be a hello of this protocol version.                 *)
ReadHello(c) ==
  /\ up[c] # <<>>
  /\ up' = [up EXCEPT ![c] = Tail(@)]
  /\ IF Head(up[c]) = "hello"
     THEN Handles(c, "hello", "request") /\ Writes(c, "hello_ok") /\ UNCHANGED downEnd
     ELSE Handles(c, "hello", "closed") /\ Ends(c, "hello_error")
  /\ UNCHANGED <<daemonVars, clientVars, ctx, upEnd, ran>>

(* The second must be a request; a cancellation that overtook it is not one. *)
ReadRequest(c) ==
  /\ up[c] # <<>>
  /\ up' = [up EXCEPT ![c] = Tail(@)]
  /\ IF Head(up[c]) = "request"
     THEN /\ Handles(c, "request", "execute")
          /\ ran' = [ran EXCEPT ![c] = "started"]
          /\ UNCHANGED <<down, downEnd>>
     ELSE Handles(c, "request", "closed") /\ Ends(c, "error") /\ UNCHANGED ran
  /\ UNCHANGED <<daemonVars, clientVars, ctx, upEnd>>

ReadEnds(c) ==
  /\ Closed(c)
  /\ Handles(c, "hello", "closed") \/ Handles(c, "request", "closed")
  /\ downEnd' = [downEnd EXCEPT ![c] = TRUE]
  /\ UNCHANGED <<daemonVars, clientVars, ctx, up, down, upEnd, ran>>

(* Mutant: only a cancellation frame is watched for.                         *)
WatchFrames(c) ==
  /\ handler[c] = "execute" /\ ctx[c] = "live" /\ Alive(c)
  /\ up[c] # <<>>
  /\ ctx' = [ctx EXCEPT ![c] = "canceled"]
  /\ UNCHANGED <<daemonVars, clientVars, handler, wireVars, ran>>

(* requestContext: whatever else arrives, and the end of the connection,     *)
(* cancels the request.                                                      *)
Watch(c) ==
  /\ handler[c] = "execute" /\ ctx[c] = "live" /\ Alive(c)
  /\ up[c] # <<>> \/ Closed(c)
  /\ ctx' = [ctx EXCEPT ![c] = "canceled"]
  /\ UNCHANGED <<daemonVars, clientVars, handler, wireVars, ran>>

(* execute: an authorization URL for the user; the outcome.                  *)
EmitURL(c) ==
  /\ handler[c] = "execute" /\ Len(down[c]) < MaxEvents
  /\ Writes(c, "url")
  /\ UNCHANGED <<daemonVars, clientVars, handler, ctx, up, upEnd, downEnd, ran>>

Complete(c) ==
  /\ Handles(c, "execute", "reply")
  /\ ran' = [ran EXCEPT ![c] = "completed"]
  /\ UNCHANGED <<daemonVars, clientVars, ctx, wireVars>>

OperationFails(c) ==
  /\ Handles(c, "execute", "reply")
  /\ ran' = [ran EXCEPT ![c] = "failed"]
  /\ UNCHANGED <<daemonVars, clientVars, ctx, wireVars>>

Reply(c) ==
  /\ Handles(c, "reply", "closed")
  /\ Ends(c, IF ran[c] = "completed" THEN "result" ELSE "error")
  /\ UNCHANGED <<daemonVars, clientVars, ctx, up, upEnd, ran>>

DaemonStep(d) ==
  \/ TakeLock(d) \/ RemoveStale(d) \/ Listen(d) \/ Serve(d) \/ StartFails(d)
  \/ ProtectFails(d) \/ Stop(d) \/ CloseConnections(d) \/ Drained(d) \/ Unlink(d)
  \/ Unlock(d) \/ Crash(d)

ClientStep(c) ==
  \/ DialFails(c) \/ Dial(c) \/ WriteFails(c) \/ Greet(c) \/ Greeted(c) \/ Load(c)
  \/ Send(c) \/ Receive(c) \/ ReadFails(c)

CancelStep(c) == SendCancel(c) \/ CloseWrite(c) \/ ExpireRead(c)

HandlerStep(c) ==
  \/ Accept(c) \/ ReadHello(c) \/ ReadRequest(c) \/ ReadEnds(c)
  \/ EmitURL(c) \/ Complete(c) \/ OperationFails(c) \/ Reply(c)

Next ==
  \/ \E d \in Daemons : DaemonStep(d)
  \/ \E c \in Clients : ClientStep(c) \/ CancelStep(c) \/ Cancel(c) \/ Die(c)
                        \/ HandlerStep(c) \/ Watch(c)

(* The client's goroutines run, and so does the daemon's watcher; the daemon *)
(* need not do anything else.                                                *)
Spec ==
  /\ Init /\ [][Next]_vars
  /\ \A c \in Clients :
       WF_vars(ClientStep(c)) /\ WF_vars(CancelStep(c)) /\ WF_vars(Watch(c))

-----------------------------------------------------------------------------
(* While a daemon serves, the socket file leads to it: daemons that start,   *)
(* stop, fail to start or clean up after a crash never take it away.         *)
SocketLeadsToDaemon == \A d \in Daemons : life[d] = "serve" => socket = d

(* What a client is told is true of its operation: a result means that it    *)
(* completed, daemon_unavailable and a refused handshake mean that it never  *)
(* started, so that trying again, with --direct or a new daemon, is safe.    *)
OutcomeIsTrue == \A c \in Clients :
  /\ outcome[c] = "result" => ran[c] = "completed"
  /\ outcome[c] \in {"unavailable", "refused", "not asked"} => ran[c] = "no"

(* A canceled client returns, whatever the daemon does or does not do.       *)
CanceledClientReturns == \A c \in Clients : cancel[c] # "no" ~> pc[c] = "done"

(* And its operation learns of it, unless it is over by then.                *)
CancelReachesOperation == \A c \in Clients :
  cancel[c] # "no" /\ handler[c] = "execute"
    ~> ctx[c] = "canceled" \/ handler[c] # "execute"
=============================================================================
