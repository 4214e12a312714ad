---------------------------- MODULE OAuthCallback ----------------------------
(* The loopback server that waits for the browser (internal/cli/oauth.go,    *)
(* fetchAuthorizationCode and handleCallback).  A runtime has one flow at a  *)
(* time, but its server outlives the flow: a tab that an abandoned flow left *)
(* open may come back at any time, and a handler that has looked the flow up *)
(* may be overtaken by its end and by the start of the next one.             *)
(*                                                                           *)
(* OAuthCredential takes what happens here for one step, BrowserDone.        *)
EXTENDS Naturals

CONSTANTS Callbacks,  \* the requests browsers make, each served by a goroutine
          MaxFlows,   \* bound: flows begun
          None

(* What the constants must satisfy. *)
CallbackAssumption == MaxFlows \in Nat /\ None \notin Callbacks

VARIABLES flow,        \* how far fetchAuthorizationCode is, none when it does not run
          flows,       \* flows begun; the active one is the last
          result,      \* result[n]: the callback whose code is in flow n's channel
          failure,     \* failure[n]: the same for its errors
          server,      \* the listener: a registration that needs its port binds it first
          tabs,        \* the flows whose URL a browser was sent to
          callback,    \* callback[c]: the request c and how far its handler is
          returned     \* returned[n]: what flow n ended with

flowVars == <<flow, flows, returned>>
channelVars == <<result, failure>>
vars == <<flowVars, channelVars, server, tabs, callback>>

Flows == 1..MaxFlows
Unsent == [at |-> "unsent", tab |-> 0, query |-> "none", channel |-> 0]

Init ==
    /\ flow = "none" /\ flows = 0 /\ returned = [n \in Flows |-> None]
    /\ result = [n \in Flows |-> None] /\ failure = [n \in Flows |-> None]
    /\ server \in {"unbound", "bound"} /\ tabs = {}
    /\ callback = [c \in Callbacks |-> Unsent]

-----------------------------------------------------------------------------
(* Mutant: a runtime keeps its channels from one flow to the next.           *)
ChannelKept(n) == 1

(* Every flow makes channels of its own.                                     *)
ChannelOf(n) == n

Active == flow # "none"

(* The SDK was challenged; a second flow of the runtime is refused.          *)
Begin ==
    /\ flow = "none" /\ flows < MaxFlows
    /\ flow' = "locking" /\ flows' = flows + 1
    /\ UNCHANGED <<returned, channelVars, server, tabs, callback>>

Goto(from, to) == flow = from /\ flow' = to /\ UNCHANGED flows

(* LockAuthorization or onFlowStart refuses, or the port is taken.           *)
Refuse ==
    /\ \/ Goto("locking", "none") \/ Goto("registering", "none")
       \/ server = "unbound" /\ Goto("serving", "leaving")
    /\ UNCHANGED <<returned, channelVars, server, tabs, callback>>

Lock ==
    /\ Goto("locking", "registering")
    /\ UNCHANGED <<returned, channelVars, server, tabs, callback>>

Register ==
    /\ Goto("registering", "serving")
    /\ UNCHANGED <<returned, channelVars, server, tabs, callback>>

(* ensureCallbackServer, then the URL is shown.  A server is started once; a *)
(* listener that was closed serves no more.                                  *)
Serve ==
    /\ Goto("serving", "waiting")
    /\ server' = IF server = "closed" THEN server ELSE "serving"
    /\ tabs' = tabs \cup {flows}
    /\ UNCHANGED <<returned, channelVars, callback>>

Take(channel) ==
    LET n == ChannelOf(flows) IN
    /\ Goto("waiting", "leaving")
    /\ channel[n] # None
    /\ returned' = [returned EXCEPT ![flows] = channel[n]]

TakeResult ==
    /\ Take(result)
    /\ result' = [result EXCEPT ![ChannelOf(flows)] = None]
    /\ UNCHANGED <<failure, server, tabs, callback>>

TakeFailure ==
    /\ Take(failure)
    /\ failure' = [failure EXCEPT ![ChannelOf(flows)] = None]
    /\ UNCHANGED <<result, server, tabs, callback>>

(* The context of the request, or of the first connection, is done.          *)
Interrupt ==
    /\ Goto("waiting", "leaving")
    /\ UNCHANGED <<returned, channelVars, server, tabs, callback>>

(* The deferred cleanup: the flow is no longer active.  The listener stays.  *)
Leave ==
    /\ Goto("leaving", "none")
    /\ UNCHANGED <<returned, channelVars, server, tabs, callback>>

(* oauthRuntime.Close: when the session could not connect, and whenever it   *)
(* is retired.  Without a listener or a server it does nothing; handlers     *)
(* that run, and a flow, go on.                                              *)
Close ==
    /\ server \in {"bound", "serving"} /\ server' = "closed"
    /\ UNCHANGED <<flowVars, channelVars, tabs, callback>>

-----------------------------------------------------------------------------
(* The provider sends the browser of some tab back, once or again, with a    *)
(* code, with an error, or with neither.                                     *)
Arrive(c) ==
    /\ server = "serving" /\ callback[c].at = "unsent"
    /\ \E tab \in tabs, query \in {"code", "error", "neither"} :
         callback' = [callback EXCEPT ![c] =
                        [at |-> "come", tab |-> tab, query |-> query, channel |-> 0]]
    /\ UNCHANGED <<flowVars, channelVars, server, tabs>>

(* The handler reads the active flow's channels under the mutex.             *)
Look(c) ==
    /\ callback[c].at = "come"
    /\ callback' = [callback EXCEPT ![c].at = IF Active THEN "looked" ELSE "conflict",
                                    ![c].channel = IF Active THEN flows ELSE 0]
    /\ UNCHANGED <<flowVars, channelVars, server, tabs>>

(* Then it answers, and sends without waiting: into a channel that is full   *)
(* nothing more goes.                                                        *)
Shows(c, page) == callback' = [callback EXCEPT ![c].at = page]

Answer(c) ==
    LET n == ChannelOf(callback[c].channel)
        query == callback[c].query
    IN  /\ callback[c].at = "looked"
        /\ \/ /\ query = "error" /\ Shows(c, "denied")
              /\ failure' = [failure EXCEPT ![n] = IF @ = None THEN c ELSE @]
              /\ UNCHANGED result
           \/ /\ query = "neither" /\ Shows(c, "invalid")
              /\ UNCHANGED channelVars
           \/ /\ query = "code" /\ result[n] = None /\ Shows(c, "complete")
              /\ result' = [result EXCEPT ![n] = c]
              /\ UNCHANGED failure
           \/ /\ query = "code" /\ result[n] # None /\ Shows(c, "conflict")
              /\ UNCHANGED channelVars
        /\ UNCHANGED <<flowVars, server, tabs>>

Next ==
    \/ Begin \/ Lock \/ Register \/ Refuse \/ Serve \/ TakeResult \/ TakeFailure
    \/ Interrupt \/ Leave \/ Close
    \/ \E c \in Callbacks : Arrive(c) \/ Look(c) \/ Answer(c)

Spec == Init /\ [][Next]_vars

-----------------------------------------------------------------------------
(* Every variable keeps its type.                                            *)
TypeOK ==
    /\ flow \in {"none", "locking", "registering", "serving", "waiting", "leaving"}
    /\ flows \in 0..MaxFlows /\ tabs \subseteq Flows
    /\ server \in {"unbound", "bound", "serving", "closed"}
    /\ returned \in [Flows -> Callbacks \cup {None}]
    /\ result \in [Flows -> Callbacks \cup {None}]
    /\ failure \in [Flows -> Callbacks \cup {None}]
    /\ callback \in [Callbacks ->
         [at : {"unsent", "come", "looked", "complete", "denied", "invalid", "conflict"},
          tab : 0..MaxFlows, query : {"none", "code", "error", "neither"}, channel : 0..MaxFlows]]

(* A flow is ended only by a request whose handler looked it up, so nothing  *)
(* that was looked up for an earlier flow ends it however late it is sent,   *)
(* and no request ends two flows.  The request came from the flow's own tab  *)
(* or from one an earlier flow left open, which the handler does not tell    *)
(* apart.  And a browser told that the authorization is complete was heard:  *)
(* as long as its flow waits, an answer waits for it.                        *)
FlowsKeptApart ==
    /\ \A n \in Flows : returned[n] # None =>
         callback[returned[n]].channel = n /\ callback[returned[n]].tab \in 1..n
    /\ \A c \in Callbacks :
         callback[c].at = "complete" /\ flow = "waiting" /\ callback[c].channel = flows
           => result[flows] # None
=============================================================================
