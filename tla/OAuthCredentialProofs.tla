----------------------- MODULE OAuthCredentialProofs ------------------------
(***************************************************************************)
(* The safety properties of OAuthCredential, for any number of runtimes,   *)
(* authorizations, refreshes and generations.                              *)
(***************************************************************************)
EXTENDS MCOAuthCredential, TLAPS

(* Whoever can send a token knows that a credential was found, and a       *)
(* runtime that has not loaded the record yet sends none.                  *)
SenderFound ==
    \A r \in Runtimes :
        /\ source[r] # None \/ pending[r] # {} => found[r]
        /\ stage[r] = "absent" => pending[r] = {}

Inv == TypeOK /\ SenderFound /\ OneBrowserFlow /\ FlowsRegistered

USE RuntimesAssumption, NoneAssumption, BoundsAssumption

(* The initial state satisfies the invariant.                              *)
LEMMA InitInv == Init => Inv
<1> SUFFICES ASSUME Init PROVE Inv
  OBVIOUS
<1>1. TypeOK
  <2>1. /\ generation \in 0..generations
        /\ generations \in 0..MaxGenerations
        /\ authorizations \in 0..MaxAuthorizations
    BY DEF Init
  <2>4. /\ stored \in IF generation = 0 THEN {None} ELSE Tokens
        /\ authLock \in Runtimes \cup {None} /\ authFlows \in BOOLEAN
    BY DEF Init
  <2>2. /\ stage \in [Runtimes -> {"absent", "open", "unavailable", "closed"}]
        /\ record \in [Runtimes -> 0..MaxGenerations]
        /\ found \in [Runtimes -> BOOLEAN] /\ code \in [Runtimes -> BOOLEAN]
        /\ flow \in [Runtimes -> {"none", "locking", "registering", "browser", "leaving",
                                  "unlocking", "exchanging"}]
    BY DEF Init
  <2>3. /\ held \in [Runtimes -> Tokens \cup {None}]
        /\ source \in [Runtimes -> Tokens \cup {None}]
        /\ pending \in [Runtimes -> SUBSET Tokens]
    BY DEF Init
  <2> QED BY <2>1, <2>2, <2>3, <2>4 DEF TypeOK
<1>2. SenderFound /\ OneBrowserFlow /\ FlowsRegistered
  BY DEF Init, SenderFound, OneBrowserFlow, FlowsRegistered, InFlow
<1> QED BY <1>1, <1>2 DEF Inv

(* A record is stored under a generation that was issued.                  *)
LEMMA SaveType ==
  ASSUME TypeOK, NEW g \in 0..MaxGenerations, NEW t \in Tokens, Save(g, t)
  PROVE  /\ generations' \in 0..MaxGenerations
         /\ generation' \in 0..generations' /\ generation' # 0
         /\ stored' = t
  BY DEF TypeOK, Save

(* Every step keeps every variable in its type.                            *)
LEMMA TypeStep == ASSUME TypeOK, [Next]_vars PROVE TypeOK'
<1> USE DEF Tokens
<1>1. CASE Delete
  BY <1>1 DEF TypeOK, Delete, flowVars, tokenVars
<1>2. ASSUME NEW r \in Runtimes, Load(r) PROVE TypeOK'
  <2>1. stored \in Tokens \cup {None} /\ generation \in 0..MaxGenerations
    BY DEF TypeOK
  <2> QED BY <1>2, <2>1 DEF TypeOK, Load, storeVars, flowVars
<1>3. ASSUME NEW r \in Runtimes, LoadUnavailable(r) \/ Close(r) PROVE TypeOK'
  BY <1>3 DEF TypeOK, LoadUnavailable, Close, storeVars, flowVars, tokenVars
<1>11. ASSUME NEW r \in Runtimes, Crash(r) PROVE TypeOK'
  BY <1>11 DEF TypeOK, Crash, storeVars
<1>4. ASSUME NEW r \in Runtimes, Obtain(r) PROVE TypeOK'
  <2>1. source[r] \in Tokens BY <1>4 DEF TypeOK, Obtain
  <2>2. PICK n \in {source[r].nth, source[r].nth + 1} :
            /\ n <= MaxRefreshes
            /\ source' = [source EXCEPT ![r] = [source[r] EXCEPT !.nth = n]]
            /\ pending' = [pending EXCEPT ![r] = @ \cup {[source[r] EXCEPT !.nth = n]}]
    BY <1>4 DEF Obtain
  <2>3. [source[r] EXCEPT !.nth = n] \in Tokens BY <2>1, <2>2
  <2> QED BY <1>4, <2>2, <2>3 DEF TypeOK, Obtain, storeVars, flowVars
<1>5. ASSUME NEW r \in Runtimes, NEW t \in pending[r],
             TokenUnchanged(r, t) \/ TokenSaved(r, t) \/ TokenNotSaved(r, t)
      PROVE  TypeOK'
  <2>1. t \in Tokens BY DEF TypeOK
  <2>2. CASE TokenUnchanged(r, t)
    BY <2>2 DEF TypeOK, TokenUnchanged, Token, storeVars, flowVars
  <2>3. CASE TokenSaved(r, t)
    <3>1. record[r] \in 0..MaxGenerations /\ Save(record[r], t)
      BY <2>3 DEF TypeOK, TokenSaved
    <3>2. /\ generations' \in 0..MaxGenerations
          /\ generation' \in 0..generations' /\ generation' # 0
          /\ stored' = t
      BY <2>1, <3>1, SaveType
    <3> QED BY <2>1, <2>3, <3>2 DEF TypeOK, TokenSaved, Token, flowVars
  <2>4. CASE TokenNotSaved(r, t)
    <3>1. record[r] \in 0..MaxGenerations BY DEF TypeOK
    <3>2. CASE UNCHANGED storeVars
      BY <2>1, <2>4, <3>2 DEF TypeOK, TokenNotSaved, Token, storeVars, flowVars
    <3>3. CASE Save(record[r], t)
      <4>1. /\ generations' \in 0..MaxGenerations
            /\ generation' \in 0..generations' /\ generation' # 0
            /\ stored' = t
        BY <2>1, <3>1, <3>3, SaveType
      <4> QED BY <2>1, <2>4, <4>1 DEF TypeOK, TokenNotSaved, Token, flowVars
    <3> QED BY <2>4, <3>2, <3>3 DEF TokenNotSaved, SaveFails
  <2> QED BY <1>5, <2>2, <2>3, <2>4
<1>6. ASSUME NEW r \in Runtimes,
             BeginFlow(r) \/ LockAuthorization(r) \/ LockRefused(r) \/ RegisterFlow(r)
      PROVE  TypeOK'
  BY <1>6 DEF TypeOK, BeginFlow, LockAuthorization, LockRefused, RegisterFlow, FlowStep,
              storeVars, tokenVars
<1>7. ASSUME NEW r \in Runtimes,
             BrowserDone(r) \/ LeaveFlow(r) \/ Unlock(r) \/ ExchangeFails(r)
      PROVE  TypeOK'
  <2>1. CASE BrowserDone(r)
    BY <2>1 DEF TypeOK, BrowserDone, FlowStep, storeVars, tokenVars
  <2>2. CASE LeaveFlow(r)
    BY <2>2 DEF TypeOK, LeaveFlow, FlowStep, storeVars, tokenVars
  <2>3. CASE Unlock(r) \/ ExchangeFails(r)
    BY <2>3 DEF TypeOK, Unlock, ExchangeFails, FlowStep, storeVars, tokenVars
  <2> QED BY <1>7, <2>1, <2>2, <2>3
<1>8. ASSUME NEW r \in Runtimes, Authorized(r) PROVE TypeOK'
  <2>1. PICK t \in Tokens :
            /\ Exchange(r, t) /\ Save(0, t)
            /\ record' = [record EXCEPT ![r] = generation']
            /\ found' = [found EXCEPT ![r] = TRUE]
            /\ source' = [source EXCEPT ![r] = t]
    BY <1>8 DEF Authorized
  <2>2. /\ generations' \in 0..MaxGenerations
        /\ generation' \in 0..generations' /\ generation' # 0
        /\ stored' = t
    BY <2>1, SaveType
  <2> QED BY <2>1, <2>2 DEF TypeOK, Exchange, FlowStep
<1>9. ASSUME NEW r \in Runtimes, AuthorizedNotSaved(r) PROVE TypeOK'
  <2>1. PICK t \in Tokens :
            /\ Exchange(r, t) /\ SaveFails(0, t)
            /\ record' = [record EXCEPT ![r] = 0]
            /\ UNCHANGED <<found, source>>
    BY <1>9 DEF AuthorizedNotSaved
  <2>2. CASE UNCHANGED storeVars
    BY <2>1, <2>2 DEF TypeOK, Exchange, FlowStep, storeVars
  <2>3. CASE Save(0, t)
    <3>1. /\ generations' \in 0..MaxGenerations
          /\ generation' \in 0..generations' /\ generation' # 0
          /\ stored' = t
      BY <2>1, <2>3, SaveType
    <3> QED BY <2>1, <3>1 DEF TypeOK, Exchange, FlowStep
  <2> QED BY <2>1, <2>2, <2>3 DEF SaveFails
<1>10. CASE UNCHANGED vars
  BY <1>10 DEF TypeOK, vars, storeVars, flowVars, tokenVars
<1> QED
  BY <1>1, <1>2, <1>3, <1>4, <1>5, <1>6, <1>7, <1>8, <1>9, <1>10, <1>11
  DEF Next, Use, Flow

(* No step lets a runtime send a token before it knows of a credential.    *)
LEMMA SenderStep == ASSUME TypeOK, SenderFound, [Next]_vars PROVE SenderFound'
<1>1. CASE Delete
  BY <1>1 DEF SenderFound, Delete, tokenVars
<1>2. ASSUME NEW r \in Runtimes, Load(r) PROVE SenderFound'
  <2>1. stored # None => generation # 0 BY DEF TypeOK
  <2> QED BY <1>2, <2>1 DEF TypeOK, SenderFound, Load
<1>3. ASSUME NEW r \in Runtimes, LoadUnavailable(r) \/ Close(r) PROVE SenderFound'
  BY <1>3 DEF TypeOK, SenderFound, LoadUnavailable, Close, tokenVars
<1>9. ASSUME NEW r \in Runtimes, Crash(r) PROVE SenderFound'
  BY <1>9 DEF TypeOK, SenderFound, Crash
<1>4. ASSUME NEW r \in Runtimes, Obtain(r) PROVE SenderFound'
  BY <1>4 DEF TypeOK, SenderFound, Obtain
<1>5. ASSUME NEW r \in Runtimes, NEW t \in pending[r],
             TokenUnchanged(r, t) \/ TokenSaved(r, t) \/ TokenNotSaved(r, t)
      PROVE  SenderFound'
  BY <1>5 DEF TypeOK, SenderFound, TokenUnchanged, TokenSaved, TokenNotSaved, Token
<1>6. ASSUME NEW r \in Runtimes, Flow(r), ~Authorized(r) PROVE SenderFound'
  BY <1>6 DEF SenderFound, Flow, BeginFlow, LockAuthorization, LockRefused, RegisterFlow,
              BrowserDone, LeaveFlow, Unlock, ExchangeFails, AuthorizedNotSaved, Exchange,
              tokenVars
<1>7. ASSUME NEW r \in Runtimes, Authorized(r) PROVE SenderFound'
  BY <1>7 DEF TypeOK, SenderFound, Authorized, Exchange
<1>8. CASE UNCHANGED vars
  BY <1>8 DEF SenderFound, vars, tokenVars
<1> QED
  BY <1>1, <1>2, <1>3, <1>4, <1>5, <1>6, <1>7, <1>8, <1>9 DEF Next, Use

(* No step opens a second flow, or leaves d.authFlows wrong.               *)
LEMMA FlowStepInv ==
  ASSUME TypeOK, OneBrowserFlow, FlowsRegistered, [Next]_vars
  PROVE  OneBrowserFlow' /\ FlowsRegistered'
<1> USE DEF OneBrowserFlow, FlowsRegistered, InFlow
<1>1. CASE UNCHANGED flowVars
  BY <1>1 DEF flowVars
<1>2. ASSUME NEW r \in Runtimes, BeginFlow(r) \/ LockRefused(r)
      PROVE  OneBrowserFlow' /\ FlowsRegistered'
  BY <1>2 DEF TypeOK, BeginFlow, LockRefused, FlowStep
<1>3. ASSUME NEW r \in Runtimes, LockAuthorization(r)
      PROVE  OneBrowserFlow' /\ FlowsRegistered'
  BY <1>3 DEF TypeOK, LockAuthorization, FlowStep
<1>4. ASSUME NEW r \in Runtimes, RegisterFlow(r)
      PROVE  OneBrowserFlow' /\ FlowsRegistered'
  BY <1>4 DEF TypeOK, RegisterFlow, FlowStep
<1>5. ASSUME NEW r \in Runtimes, BrowserDone(r)
      PROVE  OneBrowserFlow' /\ FlowsRegistered'
  BY <1>5 DEF TypeOK, BrowserDone, FlowStep
<1>6. ASSUME NEW r \in Runtimes, LeaveFlow(r)
      PROVE  OneBrowserFlow' /\ FlowsRegistered'
  BY <1>6 DEF TypeOK, LeaveFlow, FlowStep
<1>7. ASSUME NEW r \in Runtimes, Unlock(r)
      PROVE  OneBrowserFlow' /\ FlowsRegistered'
  BY <1>7 DEF TypeOK, Unlock, FlowStep
<1>8. ASSUME NEW r \in Runtimes, ExchangeFails(r) \/ Authorized(r) \/ AuthorizedNotSaved(r)
      PROVE  OneBrowserFlow' /\ FlowsRegistered'
  <2>1. /\ FlowStep(r, "exchanging", "none")
        /\ UNCHANGED <<authLock, authFlows>>
    BY <1>8 DEF ExchangeFails, Authorized, AuthorizedNotSaved, Exchange
  <2> QED BY <2>1 DEF TypeOK, FlowStep
<1>9. ASSUME NEW r \in Runtimes, Load(r) \/ LoadUnavailable(r) \/ Close(r) \/ Use(r)
      PROVE  UNCHANGED flowVars
  BY <1>9 DEF Load, LoadUnavailable, Close, Use, Obtain, TokenUnchanged, TokenSaved,
              TokenNotSaved, Token
<1>10. CASE Delete
  BY <1>1, <1>10 DEF Delete
<1>12. ASSUME NEW r \in Runtimes, Crash(r)
      PROVE  OneBrowserFlow' /\ FlowsRegistered'
  BY <1>12 DEF TypeOK, Crash
<1>11. CASE UNCHANGED vars
  BY <1>1, <1>11 DEF vars
<1> QED
  BY <1>1, <1>2, <1>3, <1>4, <1>5, <1>6, <1>7, <1>8, <1>9, <1>10, <1>11,
     <1>12
  DEF Next, Flow

(* The invariant is inductive.                                             *)
THEOREM Invariance == Spec => []Inv
<1>1. Inv /\ [Next]_vars => Inv'
  BY TypeStep, SenderStep, FlowStepInv DEF Inv
<1> QED BY InitInv, <1>1, PTL DEF Spec

(* The variables of every reachable state have their types.                *)
THEOREM TypeCorrect == Spec => []TypeOK
  BY Invariance, PTL DEF Inv

(* A logout, by whichever process, is noticed by every session that could  *)
(* still send a token.                                                     *)
THEOREM LogoutIsNoticed == Spec => []LogoutNoticed
<1>1. Inv => LogoutNoticed
  BY DEF Inv, TypeOK, SenderFound, LogoutNoticed, Current
<1> QED BY Invariance, <1>1, PTL

(* Browser flows for one credential exclude each other over all processes. *)
THEOREM OneFlowAtATime == Spec => []OneBrowserFlow
  BY Invariance, PTL DEF Inv

(* A finished flow, however it ended, is never left registered.            *)
THEOREM FlowsAreRegistered == Spec => []FlowsRegistered
  BY Invariance, PTL DEF Inv

(* No replaced or deleted generation is stored again.                      *)
THEOREM GenerationsNeverReturn == Spec => GenerationNeverReturns
<1> DEFINE Fresh == generation' # generation => generation' = 0 \/ generation' = generations + 1
<1>1. TypeOK /\ [Next]_vars => [Fresh]_vars
  <2> SUFFICES ASSUME TypeOK, Next PROVE Fresh
    BY DEF vars
  <2>1. CASE Delete
    BY <2>1 DEF Delete
  <2>2. ASSUME NEW r \in Runtimes, Load(r) \/ LoadUnavailable(r) \/ Close(r) PROVE Fresh
    BY <2>2 DEF Load, LoadUnavailable, Close, storeVars
  <2>5. ASSUME NEW r \in Runtimes, Crash(r) PROVE Fresh
    BY <2>5 DEF Crash, storeVars
  <2>3. ASSUME NEW r \in Runtimes, Use(r) PROVE Fresh
    BY <2>3 DEF Use, Obtain, TokenUnchanged, TokenSaved, TokenNotSaved, SaveFails, Save, storeVars
  <2>4. ASSUME NEW r \in Runtimes, Flow(r) PROVE Fresh
    BY <2>4 DEF Flow, BeginFlow, LockAuthorization, LockRefused, RegisterFlow, BrowserDone,
                LeaveFlow, Unlock, ExchangeFails, Authorized, AuthorizedNotSaved, SaveFails,
                Save, storeVars
  <2> QED BY <2>1, <2>2, <2>3, <2>4, <2>5 DEF Next
<1> QED BY TypeCorrect, <1>1, PTL DEF Spec, GenerationNeverReturns

-----------------------------------------------------------------------------
(* Both scenes of the instances: a step of one leaves the other as it is, so *)
(* every behaviour is one of the store, and one of the runtimes.             *)
LEMMA SceneIsBoth == SceneSpec => Store!Spec /\ Spec
<1>1. SceneInit => Store!Init /\ Init BY DEF SceneInit
<1>2. [SceneNext]_<<scene, vars, StoreVars>> => [Store!Next]_(Store!vars) /\ [Next]_vars
  BY DEF SceneNext, StoreVars, Store!vars, Store!fileVars, Store!callVars
<1> QED BY <1>1, <1>2, PTL DEF SceneSpec, Store!Spec, Spec

(* What a crash leaves under a record's name is what some save put there     *)
(* (CredentialStoreProofs).                                                  *)
THEOREM NoTornRecord == SceneSpec => []RecordsWhole
<1>1. Store!Spec => []Store!RecordsWhole BY Store!NoTornRecord, StoreConstantsAssumption
<1> QED BY <1>1, SceneIsBoth, PTL DEF RecordsWhole

(* Two processes never hold one identity's authorization lease.              *)
THEOREM OneLeasePerIdentity == SceneSpec => []OneAuthorization
<1>1. Store!Spec => []Store!OneAuthorization
  BY Store!OneLeasePerIdentity, StoreConstantsAssumption
<1> QED BY <1>1, SceneIsBoth, PTL DEF OneAuthorization

(* The files, locks and keyring calls of the store implement atomic loads,   *)
(* saves and deletions.                                                      *)
THEOREM StoreImplementsAtomicStore == SceneSpec => ImplementsAtomicStore
<1>1. Store!Spec => Store!ImplementsAtomicStore
  BY Store!StoreImplementsAtomicStore, StoreConstantsAssumption
<1> QED BY <1>1, SceneIsBoth, PTL DEF ImplementsAtomicStore
=============================================================================
