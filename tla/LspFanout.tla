----------------------------- MODULE LspFanout -----------------------------
(* One language-server request (src/internal/cli/lsp_cli.go, and executeLSP  *)
(* in daemon.go): the providers whose selectors match are asked at once, each *)
(* by a goroutine of its own, and their answers become one.  Through the      *)
(* daemon the sessions are leased, some of them already while the secrets of  *)
(* each scope are looked up; with --direct each worker starts its own.        *)
EXTENDS Integers, SequencesExt, Filtering

CONSTANTS Providers,  \* the definitions of the configuration, in order
          ScopeOf,    \* ScopeOf[p]: workspace or global
          Languages,  \* language IDs a provider's selectors may give the file
          Answers,    \* sequences of items a server may answer with
          Protected,  \* items that reproduce a protected value
          None

(* What a server makes of a request. *)
Outcomes ==
    {[status |-> s, items |-> <<>>] : s \in {"unsupported", "refused", "broken", "canceled"}}
    \cup {[status |-> "ok", items |-> items] : items \in Answers}

(* What the constants must satisfy. *)
ProvidersAssumption ==
    /\ Providers \in Seq(ToSet(Providers))
    /\ \A i, j \in 1..Len(Providers) : Providers[i] = Providers[j] => i = j
    /\ \A items \in Answers : items \in Seq(ToSet(items))
    /\ None \notin Outcomes /\ None \notin {"start", "refused", "broken", "canceled"}

VARIABLES direct,     \* --direct: no daemon
          chosen,     \* chosen[p]: the language IDs its matching selectors give
          pc,         \* match, setup, fan or answered
          scopes,     \* scopes whose secrets are still to be looked up
          instances,  \* providers leased during that setup
          leases,     \* leases[p]: this request's leases on p's session
          work,       \* work[p]: where p's goroutine is
          results,    \* results[p]: what it stored
          said,       \* history: what p's server did
          canceled,   \* the request's context
          reply

setupVars == <<scopes, instances>>
workVars == <<work, results, said>>
vars == <<direct, chosen, pc, setupVars, leases, workVars, canceled, reply>>

All == ToSet(Providers)
Matched == {p \in All : chosen[p] # {}}
matches == Kept(Providers, Matched)
lspScopeOrder ==
    LET Has(scope) == \E p \in Matched : ScopeOf[p] = scope
        first == IF Has("workspace") THEN <<"workspace">> ELSE <<>>
    IN IF Has("global") THEN Append(first, "global") ELSE first

Error(code) == [ok |-> FALSE, error |-> code, partial |-> FALSE, items |-> <<>>, providers |-> <<>>]

Init ==
    /\ direct \in BOOLEAN
    /\ chosen \in [All -> SUBSET Languages]
    /\ pc = "match" /\ scopes = <<>> /\ instances = {} /\ leases = [p \in All |-> 0]
    /\ work = [p \in All |-> "idle"] /\ results = [p \in All |-> None]
    /\ said = [p \in All |-> None] /\ canceled = FALSE /\ reply = None

-----------------------------------------------------------------------------
Answer(value) == pc' = "answered" /\ reply' = value

(* matchLSPDefinitionsForContext, one definition after the other: the first   *)
(* error ends it.  A global provider needs the global root to be there; the   *)
(* selectors of a provider must agree on one language.                        *)
Ambiguous(p) == \E l, k \in chosen[p] : l # k

MatchRefused ==
    /\ pc = "match"
    /\ \E i \in 1..Len(Providers) :
         /\ \A j \in 1..(i - 1) : ~Ambiguous(Providers[j])
         /\ \/ ScopeOf[Providers[i]] = "global" /\ Answer(Error("root"))
            \/ Ambiguous(Providers[i]) /\ Answer(Error("ambiguous"))
    /\ UNCHANGED <<direct, chosen, setupVars, leases, workVars, canceled>>

Match ==
    /\ pc = "match" /\ \A p \in All : ~Ambiguous(p)
    /\ IF Matched = {} THEN Answer(Error("no_provider")) /\ UNCHANGED scopes
                       ELSE pc' = "setup" /\ scopes' = lspScopeOrder /\ UNCHANGED reply
    /\ UNCHANGED <<direct, chosen, instances, leases, workVars, canceled>>

InScope == {p \in Matched : ScopeOf[p] = scopes[1]}

(* All of a scope's sessions are retained and run on the same secrets, *)
(* so the daemon leases them without resolving anything.               *)
ScopeReused ==
    /\ pc = "setup" /\ scopes # <<>> /\ ~direct
    /\ instances' = instances \cup InScope
    /\ leases' = [p \in All |-> IF p \in InScope THEN leases[p] + 1 ELSE leases[p]]
    /\ scopes' = Tail(scopes)
    /\ UNCHANGED <<direct, chosen, pc, workVars, canceled, reply>>

(* A session is missing, or no secret is stored with age: what was leased of *)
(* this scope is released, and its secrets are resolved.                     *)
ScopeResolved ==
    /\ pc = "setup" /\ scopes # <<>>
    /\ scopes' = Tail(scopes)
    /\ UNCHANGED <<direct, chosen, pc, instances, leases, workVars, canceled, reply>>

(* The deferred release of what setup leased. *)
ReleaseSetup == leases' = [p \in All |-> IF p \in instances THEN leases[p] - 1 ELSE leases[p]]

(* A secret or a store is refused, or, once the scopes are through, the file *)
(* cannot be read or the position is not in it.                              *)
SetupFails ==
    /\ pc = "setup" /\ Answer(Error("setup"))
    /\ ReleaseSetup
    /\ UNCHANGED <<direct, chosen, setupVars, workVars, canceled>>

StartWorkers ==
    /\ pc = "setup" /\ scopes = <<>> /\ pc' = "fan"
    /\ work' = [p \in All |-> IF p \in Matched THEN "acquire" ELSE "idle"]
    /\ UNCHANGED <<direct, chosen, setupVars, leases, results, said, canceled, reply>>

-----------------------------------------------------------------------------
(* The goroutine of provider p. *)
Finish(p, result) ==
    /\ work' = [work EXCEPT ![p] = "done"]
    /\ results' = [results EXCEPT ![p] = result]

Failed(code) == [status |-> "failed", error |-> code, items |-> <<>>]

Acquire(p) ==
    /\ work[p] = "acquire"
    /\ work' = [work EXCEPT ![p] = "call"]
    /\ leases' = [leases EXCEPT ![p] = IF direct \/ p \in instances THEN @ ELSE @ + 1]
    /\ UNCHANGED <<direct, chosen, pc, setupVars, results, said, canceled, reply>>

AcquireFails(p) ==
    /\ work[p] = "acquire" /\ p \notin instances
    /\ Finish(p, Failed("start"))
    /\ UNCHANGED <<direct, chosen, pc, setupVars, leases, said, canceled, reply>>

(* redactLSPProviderRun: what reproduces a protected value is dropped. *)
redactLSPProviderRun(items) == Kept(items, ToSet(items) \ Protected)

(* The session serves the request: it answers, or does not advertise the     *)
(* operation, or refuses it, or breaks, or the context ends it; the daemon's *)
(* worker then releases its lease.                                           *)
Call(p, outcome) ==
    /\ work[p] = "call"
    /\ outcome.status = "canceled" => canceled
    /\ said' = [said EXCEPT ![p] = outcome]
    /\ CASE outcome.status = "ok" ->
              Finish(p, [status |-> "ok", error |-> None, items |-> redactLSPProviderRun(outcome.items)])
         [] outcome.status = "unsupported" ->
              Finish(p, [status |-> "unsupported", error |-> None, items |-> <<>>])
         [] OTHER -> Finish(p, Failed(outcome.status))
    /\ leases' = [leases EXCEPT ![p] = IF direct THEN @ ELSE @ - 1]
    /\ UNCHANGED <<direct, chosen, pc, setupVars, canceled, reply>>

Cancel ==
    /\ ~canceled /\ pc # "answered" /\ canceled' = TRUE
    /\ UNCHANGED <<direct, chosen, pc, setupVars, leases, workVars, reply>>

-----------------------------------------------------------------------------
(* aggregateLSPRequestResults, the same for locations, hovers, signatures and *)
(* symbols: one pass over the matches in the order of their definitions.      *)
NothingYet == [successes |-> 0, failures |-> 0, firstErr |-> None, items |-> <<>>, outcomes |-> <<>>]

AfterMatch(sum, p) ==
    LET result == results[p]
        seen == [sum EXCEPT !.outcomes = Append(@, <<p, result.status>>)]
    IN CASE result.status = "unsupported" -> seen
         [] result.status = "failed" ->
              [seen EXCEPT !.failures = @ + 1, !.firstErr = IF @ = None THEN result.error ELSE @]
         [] OTHER ->
              [seen EXCEPT !.successes = @ + 1,
                           !.items = @ \o [i \in 1..Len(result.items) |-> <<p, result.items[i]>>]]

Aggregated ==
    LET upTo[n \in 0..Len(matches)] ==
          IF n = 0 THEN NothingYet ELSE AfterMatch(upTo[n - 1], matches[n])
    IN upTo[Len(matches)]

aggregateByCount ==
    LET sum == Aggregated
    IN [ok |-> sum.successes > 0, error |-> sum.firstErr,
        partial |-> sum.successes \in 1..(Len(matches) - 1), items |-> sum.items, providers |-> sum.outcomes]

aggregateLSPResults ==
    LET sum == Aggregated
    IN IF sum.successes > 0
       THEN [ok |-> TRUE, error |-> None, partial |-> sum.failures > 0,
             items |-> sum.items, providers |-> sum.outcomes]
       ELSE [ok |-> FALSE, error |-> IF sum.firstErr = None THEN "capability" ELSE sum.firstErr,
             partial |-> FALSE, items |-> <<>>, providers |-> sum.outcomes]

(* wait.Wait() returned. *)
Aggregate ==
    /\ pc = "fan" /\ \A p \in Matched : work[p] = "done"
    /\ Answer(aggregateLSPResults)
    /\ UNCHANGED <<direct, chosen, setupVars, leases, workVars, canceled>>

Next ==
    \/ Match \/ MatchRefused \/ ScopeReused \/ ScopeResolved \/ SetupFails \/ StartWorkers \/ Aggregate \/ Cancel
    \/ \E p \in All : \/ Acquire(p) \/ AcquireFails(p)
                      \/ \E outcome \in Outcomes : Call(p, outcome)

Spec == Init /\ [][Next]_vars

-----------------------------------------------------------------------------
Answered(p) == said[p] # None /\ said[p].status = "ok"
Unsupported(p) == said[p] # None /\ said[p].status = "unsupported"
Unserved(p) == ~Answered(p) /\ ~Unsupported(p)

(* What provider p contributes, and what comes of all of them in order. *)
Contribution(p) ==
    IF ~Answered(p) THEN <<>>
    ELSE LET kept == Kept(said[p].items, ToSet(said[p].items) \ Protected)
         IN [i \in 1..Len(kept) |-> <<p, kept[i]>>]

(* No lease outlives the reply or is released twice, wherever the request    *)
(* ended.                                                                    *)
LeasesReturned ==
    /\ \A p \in All : leases[p] \in 0..1
    /\ pc = "answered" => \A p \in All : leases[p] = 0

(* The matching ended the request.                                           *)
NoneAsked == reply.error \in {"root", "ambiguous", "no_provider"}

(* Whatever order the providers finish in, the reply is made of what their    *)
(* servers said: it succeeds exactly when one of them answered, holds every   *)
(* item of those that did, in the order of their definitions and nothing      *)
(* protected, is partial exactly when one that was asked could not serve it   *)
(* for another reason than not advertising the operation, and names each of   *)
(* them; a failure is that of the first which failed; and the leases are      *)
(* returned.                                                                  *)
AnswerComplete ==
    /\ LeasesReturned
    /\ pc = "answered" /\ (\A p \in Matched : work[p] = "done") /\ ~NoneAsked =>
         /\ reply.ok <=> \E p \in Matched : Answered(p)
         /\ reply.items = FlattenSeq([i \in 1..Len(matches) |-> Contribution(matches[i])])
         /\ reply.partial <=> reply.ok /\ \E p \in Matched : Unserved(p)
         /\ Len(reply.providers) = Len(matches)
         /\ ~reply.ok =>
              \/ reply.error = "capability" /\ \A p \in Matched : Unsupported(p)
              \/ \E i \in 1..Len(matches) :
                    /\ Unserved(matches[i]) /\ reply.error = results[matches[i]].error
                    /\ \A j \in 1..(i - 1) : Unsupported(matches[j])
=============================================================================
