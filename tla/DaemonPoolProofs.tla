--------------------------- MODULE DaemonPoolProofs -------------------------
(***************************************************************************)
(* Proofs about the daemon's instance pool, for any number of requests,    *)
(* keys, reloads and logins.                                               *)
(***************************************************************************)
EXTENDS DaemonPoolInv, FiniteSetTheorems, TLAPS

(* A lease is counted, so release's decrement cannot go below zero.        *)
LEMMA HolderCounted ==
    ASSUME IInv, NEW r \in Requests, NEW e \in Requests, Leaseholder(r, e)
    PROVE  active[e] \in Nat /\ active[e] > 0
<1>1. r \in Leaseholders(e) /\ Leaseholders(e) \subseteq Requests
  BY DEF Leaseholders
<1>2. IsFiniteSet(Leaseholders(e))
  BY <1>1, RequestsAssumption, FS_Subset
<1>3. Cardinality(Leaseholders(e)) # 0
  BY <1>1, <1>2, FS_EmptySet
<1>. QED
  BY <1>3 DEF IInv, TypeOK, LeaseCount

(* The request at a step past acquire refers to an entry.                  *)
LEMMA AtEntry ==
    ASSUME IInv, NEW r \in Requests,
           pc[r] \in {"wait", "check", "lock", "operate", "release"}
    PROVE  at[r] \in Requests
BY DEF IInv, TypeOK, Placement

(* Only a published instance is ever leased.                               *)
LEMMA IdleUntilLive ==
    ASSUME IInv, NEW e \in Requests, phase[e] # "live"
    PROVE  active[e] = 0
<1>1. Leaseholders(e) = {}
  BY NoneAssumption DEF IInv, Placement, Leaseholders, Leaseholder
<1>. QED
  BY <1>1, FS_EmptySet DEF IInv, LeaseCount

(* Withdrawing entries keeps the types of what it writes.                  *)
LEMMA WithdrawType ==
    ASSUME TypeOK, NEW r \in Requests, NEW S \in SUBSET Requests, Withdraw(r, S)
    PROVE  /\ pools' \in [Keys -> Requests \cup {None}]
           /\ retired' \in [Requests -> BOOLEAN]
           /\ retiring' \subseteq Requests
           /\ todo' \in [Requests -> SUBSET Requests]
           /\ pc' \in [Requests -> {"new", "acquire", "wait", "check", "lock", "operate",
                            "release", "confirm", "retire", "close", "forget", "done"}]
<1>1. pools' \in [Keys -> Requests \cup {None}]
  BY DEF TypeOK, Withdraw
<1>2. retired' \in [Requests -> BOOLEAN]
  <2>1. \A e \in Requests : (retired[e] \/ e \in S) \in BOOLEAN
    OBVIOUS
  <2>. QED BY <2>1 DEF Withdraw
<1>3. retiring' \subseteq Requests
  BY DEF TypeOK, Withdraw
<1>4. todo' \in [Requests -> SUBSET Requests]
  BY DEF TypeOK, Withdraw
<1>5. pc' \in [Requests -> {"new", "acquire", "wait", "check", "lock", "operate",
                          "release", "confirm", "retire", "close", "forget", "done"}]
  BY DEF TypeOK, Withdraw, AfterClosing
<1>. QED BY <1>1, <1>2, <1>3, <1>4, <1>5

(* Every step preserves the types.                                     *)
LEMMA TypeStep ==
    ASSUME IInv, Next
    PROVE  TypeOK'
<1>0. TypeOK BY DEF IInv
<1>. USE DEF vars, daemonVars, entryVars, requestVars, storeVars
<1>1. ASSUME NEW r \in Requests, NEW k \in Keys, Call(r, k) PROVE TypeOK'
  BY <1>1, <1>0, NoneAssumption, BoundsAssumption DEF Call, Accepted, Step, TypeOK
<1>2. ASSUME NEW r \in Requests, Disconnect(r) PROVE TypeOK'
  BY <1>2, <1>0, NoneAssumption, BoundsAssumption DEF Disconnect, TypeOK
<1>3. ASSUME NEW r \in Requests, Reload(r) PROVE TypeOK'
  <2>1. Pooled \in SUBSET Requests
    BY <1>0, NoneAssumption DEF Pooled, TypeOK
  <2>2. Withdraw(r, Pooled)
    BY <1>3 DEF Reload
  <2>3. generation' \in 0..MaxGeneration
    BY <1>3, <1>0, BoundsAssumption DEF Reload, TypeOK
  <2>. QED BY <1>3, <1>0, <2>1, <2>2, <2>3, WithdrawType DEF Reload, TypeOK
<1>4. ASSUME NEW r \in Requests, Login(r) PROVE TypeOK'
  BY <1>4, <1>0, NoneAssumption, BoundsAssumption DEF Login, Accepted, Step,
       FreshCredential, StoreCredential, TypeOK
<1>5. ASSUME NEW r \in Requests, Logout(r) PROVE TypeOK'
  BY <1>5, <1>0, NoneAssumption, BoundsAssumption DEF Logout, Accepted, Step,
       StoreCredential, TypeOK
<1>6. ASSUME NEW r \in Requests, AcquireRefused(r) PROVE TypeOK'
  BY <1>6, <1>0, NoneAssumption, BoundsAssumption DEF AcquireRefused, Step, TypeOK
<1>7. ASSUME NEW r \in Requests, AcquireExisting(r) PROVE TypeOK'
  <2>1. key[r] \in Keys
    BY <1>7 DEF IInv, Placement, AcquireExisting, Step
  <2>. QED BY <1>7, <1>0, <2>1 DEF AcquireExisting, Step, TypeOK
<1>8. ASSUME NEW r \in Requests, AcquireFresh(r) PROVE TypeOK'
  BY <1>8, <1>0, NoneAssumption, BoundsAssumption DEF AcquireFresh, Step, TypeOK
<1>9. ASSUME NEW r \in Requests, Lease(r) PROVE TypeOK'
  <2>1. at[r] \in Requests
    BY <1>9, AtEntry DEF Lease, Step
  <2>. QED BY <1>9, <1>0, <2>1 DEF Lease, Step, TypeOK
<1>10. ASSUME NEW r \in Requests, LeaseRefused(r) PROVE TypeOK'
  BY <1>10, <1>0, NoneAssumption, BoundsAssumption DEF LeaseRefused, Step, TypeOK
<1>11. ASSUME NEW r \in Requests, WaitCanceled(r) PROVE TypeOK'
  BY <1>11, <1>0, NoneAssumption, BoundsAssumption DEF WaitCanceled, Step, TypeOK
<1>12. ASSUME NEW r \in Requests, WaitAuthorizing(r) PROVE TypeOK'
  BY <1>12, <1>0, NoneAssumption, BoundsAssumption DEF WaitAuthorizing, Step, TypeOK
<1>13. ASSUME NEW r \in Requests, CheckCredential(r) PROVE TypeOK'
  BY <1>13, <1>0, NoneAssumption, BoundsAssumption DEF CheckCredential, Step, TypeOK
<1>14. ASSUME NEW r \in Requests, BeginOperation(r) PROVE TypeOK'
  BY <1>14, <1>0, NoneAssumption, BoundsAssumption DEF BeginOperation, Step, TypeOK
<1>15. ASSUME NEW r \in Requests, RefuseOperation(r) PROVE TypeOK'
  BY <1>15, <1>0, NoneAssumption, BoundsAssumption DEF RefuseOperation, Step, TypeOK
<1>16. ASSUME NEW r \in Requests, Release(r) PROVE TypeOK'
  <2>1. at[r] \in Requests /\ Leaseholder(r, at[r])
    BY <1>16, AtEntry DEF Release, Step, Leaseholder
  <2>2. active[at[r]] \in Nat /\ active[at[r]] > 0
    BY <2>1, HolderCounted
  <2>3. active' \in [Requests -> Nat]
    BY <1>16, <1>0, <2>1, <2>2 DEF Release, TypeOK
  <2>. QED BY <1>16, <1>0, <2>1, <2>3 DEF Release, Step, TypeOK
<1>17. ASSUME NEW r \in Requests, ConfirmLogin(r) PROVE TypeOK'
  BY <1>17, <1>0, NoneAssumption, BoundsAssumption DEF ConfirmLogin, Step, TypeOK
<1>18. ASSUME NEW r \in Requests, RetireCredential(r) PROVE TypeOK'
  <2>. DEFINE S == {e \in Pooled : phase[e] = "live" /\ key[e] \in OAuthKeys}
  <2>1. S \in SUBSET Requests
    BY <1>0, NoneAssumption DEF Pooled, TypeOK
  <2>2. Withdraw(r, S)
    BY <1>18 DEF RetireCredential
  <2>. HIDE DEF S
  <2>. QED BY <1>18, <1>0, <2>1, <2>2, WithdrawType DEF RetireCredential, TypeOK
<1>19. ASSUME NEW r \in Requests, CloseRetired(r) PROVE TypeOK'
  BY <1>19, <1>0, NoneAssumption, BoundsAssumption DEF CloseRetired, Step, TypeOK
<1>20. ASSUME NEW r \in Requests, Forget(r) PROVE TypeOK'
  BY <1>20, <1>0, NoneAssumption, BoundsAssumption DEF Forget, Step, AfterClosing,
       TypeOK
<1>21. ASSUME NEW r \in Requests, FinishOperation(r) PROVE TypeOK'
  BY <1>21, <1>0, NoneAssumption, BoundsAssumption DEF FinishOperation, Step, TypeOK
<1>22. ASSUME NEW r \in Requests, LoseSession(r) PROVE TypeOK'
  BY <1>22, <1>0, NoneAssumption, BoundsAssumption DEF LoseSession, Step, TypeOK
<1>23. ASSUME NEW r \in Requests, AbandonOperation(r) PROVE TypeOK'
  BY <1>23, <1>0, NoneAssumption, BoundsAssumption DEF AbandonOperation, Step, TypeOK
<1>24. ASSUME NEW r \in Requests, Reauthorize(r) PROVE TypeOK'
  <2>1. at[r] \in Requests
    BY <1>24, AtEntry DEF Reauthorize
  <2>2. logins' \in 0..MaxLogins /\ credential' \in 0..MaxLogins /\ logins + 1 \in 0..MaxLogins
    BY <1>24, <1>0, BoundsAssumption DEF Reauthorize, FreshCredential, StoreCredential,
         TypeOK
  <2>3. stored' \in [Requests -> SUBSET (0..MaxLogins)]
    BY <1>24, <1>0, <2>2 DEF Reauthorize, FreshCredential, StoreCredential, TypeOK
  <2>. QED BY <1>24, <1>0, <2>1, <2>2, <2>3 DEF Reauthorize, TypeOK
<1>25. ASSUME NEW e \in Requests, LoadTarget(e) PROVE TypeOK'
  BY <1>25, <1>0, NoneAssumption, BoundsAssumption DEF LoadTarget, EntryStep, TypeOK
<1>26. ASSUME NEW e \in Requests, Publish(e) PROVE TypeOK'
  BY <1>26, <1>0, NoneAssumption, BoundsAssumption DEF Publish, EntryStep, TypeOK
<1>27. ASSUME NEW e \in Requests, Discard(e) PROVE TypeOK'
  BY <1>27, <1>0, NoneAssumption, BoundsAssumption DEF Discard, EntryStep,
       PublishError, TypeOK
<1>28. ASSUME NEW e \in Requests, Connect(e) PROVE TypeOK'
  BY <1>28, <1>0, NoneAssumption, BoundsAssumption DEF Connect, EntryStep, TypeOK
<1>29. ASSUME NEW e \in Requests, StartFailed(e) PROVE TypeOK'
  <2>1. pools' \in [Keys -> Requests \cup {None}]
    BY <1>29, <1>0 DEF StartFailed, PublishError, TypeOK
  <2>2. phase' \in [Requests -> {"none", "spawned", "connecting", "connected", "live", "failed"}]
    BY <1>29, <1>0 DEF StartFailed, EntryStep, TypeOK
  <2>. QED BY <1>29, <1>0, <2>1, <2>2 DEF StartFailed, TypeOK
<1>30. ASSUME NEW e \in Requests, BeginAuthorization(e) PROVE TypeOK'
  BY <1>30, <1>0, NoneAssumption, BoundsAssumption DEF BeginAuthorization, TypeOK
<1>31. ASSUME NEW e \in Requests, SaveAuthorization(e) PROVE TypeOK'
  BY <1>31, <1>0, NoneAssumption, BoundsAssumption DEF SaveAuthorization,
       FreshCredential, StoreCredential, TypeOK
<1>32. ASSUME DirectAuth PROVE TypeOK'
  <2>1. credential' \in 0..MaxLogins /\ logins' \in 0..MaxLogins
    BY <1>32, <1>0, BoundsAssumption DEF DirectAuth, FreshCredential, StoreCredential,
         TypeOK
  <2>2. stored' = [r \in Requests |->
          IF pc[r] \in {"new", "done"} THEN stored[r] ELSE stored[r] \cup {credential'}]
    BY <1>32 DEF DirectAuth, FreshCredential, StoreCredential
  <2>3. stored' \in [Requests -> SUBSET (0..MaxLogins)]
    BY <1>0, <2>1, <2>2 DEF TypeOK
  <2>. QED BY <1>32, <1>0, <2>1, <2>3 DEF DirectAuth, TypeOK
<1>33. ASSUME CancelContext PROVE TypeOK'
  BY <1>33, <1>0, NoneAssumption, BoundsAssumption DEF CancelContext, TypeOK
<1>34. ASSUME MarkClosing PROVE TypeOK'
  <2>1. retired' \in [Requests -> BOOLEAN]
    <3>1. \A e \in Requests : (retired[e] \/ e \in Pooled) \in BOOLEAN
      OBVIOUS
    <3>. QED BY <1>34, <3>1 DEF MarkClosing
  <2>2. shutdownTodo' \subseteq Requests
    BY <1>34, <1>0, NoneAssumption DEF MarkClosing, Pooled, TypeOK
  <2>. QED BY <1>34, <1>0, <2>1, <2>2 DEF MarkClosing, TypeOK
<1>35. ASSUME CloseAtShutdown PROVE TypeOK'
  BY <1>35, <1>0, NoneAssumption, BoundsAssumption DEF CloseAtShutdown, TypeOK
<1>36. ASSUME Stop PROVE TypeOK'
  BY <1>36, <1>0, NoneAssumption, BoundsAssumption DEF Stop, TypeOK
<1>37. ASSUME Stopped PROVE TypeOK'
  BY <1>37, <1>0, NoneAssumption, BoundsAssumption DEF Stopped, TypeOK
<1>. QED BY <1>1, <1>2, <1>3, <1>4, <1>5, <1>6, <1>7, <1>8, <1>9, <1>10, <1>11,
       <1>12, <1>13, <1>14, <1>15, <1>16, <1>17, <1>18, <1>19, <1>20, <1>21,
       <1>22, <1>23, <1>24, <1>25, <1>26, <1>27, <1>28, <1>29, <1>30, <1>31,
       <1>32, <1>33, <1>34, <1>35, <1>36, <1>37 DEF Next, Handle, EndOperation,
       Start, EndConnect, Shutdown

(* A step that leaves the leaseholders alone.                              *)
SameHolders ==
    /\ active' = active
    /\ \A q, e \in Requests : Leaseholder(q, e)' <=> Leaseholder(q, e)

(* Only Lease and Release change who holds a lease: no early return, no    *)
(* withdrawal and no closing loop does.                                    *)
LEMMA HoldersStep ==
    ASSUME IInv, Next
    PROVE  SameHolders \/ \E s \in Requests : Lease(s) \/ Release(s)
<1>0. /\ TypeOK /\ Placement /\ ClosingLoop
      /\ None \notin Requests
  BY NoneAssumption DEF IInv
<1>. USE DEF TypeOK, Placement, ClosingLoop, vars, daemonVars, entryVars, requestVars, storeVars
<1>1. ASSUME NEW r \in Requests, NEW k \in Keys, Call(r, k) PROVE SameHolders \/ \E s \in Requests : Lease(s) \/ Release(s)
  BY <1>1, <1>0 DEF Call, Accepted, Step, SameHolders, Leaseholder
<1>2. ASSUME NEW r \in Requests, Disconnect(r) PROVE SameHolders \/ \E s \in Requests : Lease(s) \/ Release(s)
  BY <1>2, <1>0 DEF Disconnect, SameHolders, Leaseholder
<1>3. ASSUME NEW r \in Requests, Reload(r) PROVE SameHolders \/ \E s \in Requests : Lease(s) \/ Release(s)
  BY <1>3, <1>0 DEF Reload, Accepted, Withdraw, AfterClosing, SameHolders, Leaseholder
<1>4. ASSUME NEW r \in Requests, Login(r) PROVE SameHolders \/ \E s \in Requests : Lease(s) \/ Release(s)
  BY <1>4, <1>0 DEF Login, Accepted, Step, FreshCredential, StoreCredential,
       SameHolders, Leaseholder
<1>5. ASSUME NEW r \in Requests, Logout(r) PROVE SameHolders \/ \E s \in Requests : Lease(s) \/ Release(s)
  BY <1>5, <1>0 DEF Logout, Accepted, Step, StoreCredential, SameHolders, Leaseholder
<1>6. ASSUME NEW r \in Requests, AcquireRefused(r) PROVE SameHolders \/ \E s \in Requests : Lease(s) \/ Release(s)
  BY <1>6, <1>0 DEF AcquireRefused, Step, SameHolders, Leaseholder
<1>7. ASSUME NEW r \in Requests, AcquireExisting(r) PROVE SameHolders \/ \E s \in Requests : Lease(s) \/ Release(s)
  BY <1>7, <1>0 DEF AcquireExisting, Step, SameHolders, Leaseholder
<1>8. ASSUME NEW r \in Requests, AcquireFresh(r) PROVE SameHolders \/ \E s \in Requests : Lease(s) \/ Release(s)
  BY <1>8, <1>0 DEF AcquireFresh, Step, SameHolders, Leaseholder
<1>9. ASSUME NEW r \in Requests, Lease(r) PROVE SameHolders \/ \E s \in Requests : Lease(s) \/ Release(s)
  BY <1>9
<1>10. ASSUME NEW r \in Requests, LeaseRefused(r) PROVE SameHolders \/ \E s \in Requests : Lease(s) \/ Release(s)
  BY <1>10, <1>0 DEF LeaseRefused, Step, SameHolders, Leaseholder
<1>11. ASSUME NEW r \in Requests, WaitCanceled(r) PROVE SameHolders \/ \E s \in Requests : Lease(s) \/ Release(s)
  BY <1>11, <1>0 DEF WaitCanceled, Step, SameHolders, Leaseholder
<1>12. ASSUME NEW r \in Requests, WaitAuthorizing(r) PROVE SameHolders \/ \E s \in Requests : Lease(s) \/ Release(s)
  BY <1>12, <1>0 DEF WaitAuthorizing, Step, SameHolders, Leaseholder
<1>13. ASSUME NEW r \in Requests, CheckCredential(r) PROVE SameHolders \/ \E s \in Requests : Lease(s) \/ Release(s)
  BY <1>13, <1>0 DEF CheckCredential, Step, SameHolders, Leaseholder
<1>14. ASSUME NEW r \in Requests, BeginOperation(r) PROVE SameHolders \/ \E s \in Requests : Lease(s) \/ Release(s)
  BY <1>14, <1>0 DEF BeginOperation, Step, SameHolders, Leaseholder
<1>15. ASSUME NEW r \in Requests, RefuseOperation(r) PROVE SameHolders \/ \E s \in Requests : Lease(s) \/ Release(s)
  BY <1>15, <1>0 DEF RefuseOperation, Step, SameHolders, Leaseholder
<1>16. ASSUME NEW r \in Requests, Release(r) PROVE SameHolders \/ \E s \in Requests : Lease(s) \/ Release(s)
  BY <1>16
<1>17. ASSUME NEW r \in Requests, ConfirmLogin(r) PROVE SameHolders \/ \E s \in Requests : Lease(s) \/ Release(s)
  BY <1>17, <1>0 DEF ConfirmLogin, Step, SameHolders, Leaseholder
<1>18. ASSUME NEW r \in Requests, RetireCredential(r) PROVE SameHolders \/ \E s \in Requests : Lease(s) \/ Release(s)
  BY <1>18, <1>0 DEF RetireCredential, Withdraw, AfterClosing, SameHolders, Leaseholder
<1>19. ASSUME NEW r \in Requests, CloseRetired(r) PROVE SameHolders \/ \E s \in Requests : Lease(s) \/ Release(s)
  BY <1>19, <1>0 DEF CloseRetired, Step, SameHolders, Leaseholder
<1>20. ASSUME NEW r \in Requests, Forget(r) PROVE SameHolders \/ \E s \in Requests : Lease(s) \/ Release(s)
  BY <1>20, <1>0 DEF Forget, Step, AfterClosing, SameHolders, Leaseholder
<1>21. ASSUME NEW r \in Requests, FinishOperation(r) PROVE SameHolders \/ \E s \in Requests : Lease(s) \/ Release(s)
  BY <1>21, <1>0 DEF FinishOperation, Step, SameHolders, Leaseholder
<1>22. ASSUME NEW r \in Requests, LoseSession(r) PROVE SameHolders \/ \E s \in Requests : Lease(s) \/ Release(s)
  BY <1>22, <1>0 DEF LoseSession, Step, SameHolders, Leaseholder
<1>23. ASSUME NEW r \in Requests, AbandonOperation(r) PROVE SameHolders \/ \E s \in Requests : Lease(s) \/ Release(s)
  BY <1>23, <1>0 DEF AbandonOperation, Step, SameHolders, Leaseholder
<1>24. ASSUME NEW r \in Requests, Reauthorize(r) PROVE SameHolders \/ \E s \in Requests : Lease(s) \/ Release(s)
  BY <1>24, <1>0 DEF Reauthorize, FreshCredential, StoreCredential, SameHolders,
       Leaseholder
<1>25. ASSUME NEW e \in Requests, LoadTarget(e) PROVE SameHolders \/ \E s \in Requests : Lease(s) \/ Release(s)
  BY <1>25, <1>0 DEF LoadTarget, EntryStep, SameHolders, Leaseholder
<1>26. ASSUME NEW e \in Requests, Publish(e) PROVE SameHolders \/ \E s \in Requests : Lease(s) \/ Release(s)
  BY <1>26, <1>0 DEF Publish, EntryStep, SameHolders, Leaseholder
<1>27. ASSUME NEW e \in Requests, Discard(e) PROVE SameHolders \/ \E s \in Requests : Lease(s) \/ Release(s)
  BY <1>27, <1>0 DEF Discard, EntryStep, PublishError, SameHolders, Leaseholder
<1>28. ASSUME NEW e \in Requests, Connect(e) PROVE SameHolders \/ \E s \in Requests : Lease(s) \/ Release(s)
  BY <1>28, <1>0 DEF Connect, EntryStep, SameHolders, Leaseholder
<1>29. ASSUME NEW e \in Requests, StartFailed(e) PROVE SameHolders \/ \E s \in Requests : Lease(s) \/ Release(s)
  BY <1>29, <1>0 DEF StartFailed, EntryStep, PublishError, SameHolders, Leaseholder
<1>30. ASSUME NEW e \in Requests, BeginAuthorization(e) PROVE SameHolders \/ \E s \in Requests : Lease(s) \/ Release(s)
  BY <1>30, <1>0 DEF BeginAuthorization, SameHolders, Leaseholder
<1>31. ASSUME NEW e \in Requests, SaveAuthorization(e) PROVE SameHolders \/ \E s \in Requests : Lease(s) \/ Release(s)
  BY <1>31, <1>0 DEF SaveAuthorization, FreshCredential, StoreCredential, SameHolders,
       Leaseholder
<1>32. ASSUME DirectAuth PROVE SameHolders \/ \E s \in Requests : Lease(s) \/ Release(s)
  BY <1>32, <1>0 DEF DirectAuth, FreshCredential, StoreCredential, SameHolders,
       Leaseholder
<1>33. ASSUME CancelContext PROVE SameHolders \/ \E s \in Requests : Lease(s) \/ Release(s)
  BY <1>33, <1>0 DEF CancelContext, SameHolders, Leaseholder
<1>34. ASSUME MarkClosing PROVE SameHolders \/ \E s \in Requests : Lease(s) \/ Release(s)
  BY <1>34, <1>0 DEF MarkClosing, SameHolders, Leaseholder
<1>35. ASSUME CloseAtShutdown PROVE SameHolders \/ \E s \in Requests : Lease(s) \/ Release(s)
  BY <1>35, <1>0 DEF CloseAtShutdown, SameHolders, Leaseholder
<1>36. ASSUME Stop PROVE SameHolders \/ \E s \in Requests : Lease(s) \/ Release(s)
  BY <1>36, <1>0 DEF Stop, SameHolders, Leaseholder
<1>37. ASSUME Stopped PROVE SameHolders \/ \E s \in Requests : Lease(s) \/ Release(s)
  BY <1>37, <1>0 DEF Stopped, SameHolders, Leaseholder
<1>. QED BY <1>1, <1>2, <1>3, <1>4, <1>5, <1>6, <1>7, <1>8, <1>9, <1>10, <1>11,
       <1>12, <1>13, <1>14, <1>15, <1>16, <1>17, <1>18, <1>19, <1>20, <1>21,
       <1>22, <1>23, <1>24, <1>25, <1>26, <1>27, <1>28, <1>29, <1>30, <1>31,
       <1>32, <1>33, <1>34, <1>35, <1>36, <1>37 DEF Next, Handle, EndOperation,
       Start, EndConnect, Shutdown

(* The lease count follows Lease and Release, and nothing else moves it.   *)
LEMMA LeaseCountStep ==
    ASSUME IInv, Next
    PROVE  LeaseCount'
<1>0. TypeOK /\ Placement /\ LeaseCount /\ None \notin Requests
  BY NoneAssumption DEF IInv
<1>1. \A e \in Requests : IsFiniteSet(Leaseholders(e))
  BY RequestsAssumption, FS_Subset DEF Leaseholders
<1>2. CASE SameHolders
  <2>1. \A e \in Requests : Leaseholders(e)' = Leaseholders(e)
    BY <1>2 DEF SameHolders, Leaseholders
  <2>. QED BY <1>0, <1>2, <2>1 DEF SameHolders, LeaseCount
<1>3. ASSUME NEW r \in Requests, Lease(r) PROVE LeaseCount'
  <2>1. PICK e \in Requests : e = at[r]
    BY <1>3, AtEntry DEF Lease, Step
  <2>2. r \notin Leaseholders(e) /\ Leaseholders(e)' = Leaseholders(e) \cup {r}
    BY <1>0, <1>3, <2>1 DEF Lease, Step, Leaseholders, Leaseholder, TypeOK
  <2>3. Cardinality(Leaseholders(e)') = Cardinality(Leaseholders(e)) + 1
    BY <1>1, <2>1, <2>2, FS_AddElement
  <2>4. \A f \in Requests \ {e} : Leaseholders(f)' = Leaseholders(f) /\ active'[f] = active[f]
    BY <1>0, <1>3, <2>1 DEF Lease, Step, Leaseholders, Leaseholder, TypeOK
  <2>5. active'[e] = active[e] + 1
    BY <1>0, <1>3, <2>1 DEF Lease, TypeOK
  <2>6. \A f \in Requests : active'[f] = Cardinality(Leaseholders(f)')
    BY <1>0, <2>3, <2>4, <2>5 DEF LeaseCount
  <2>. QED BY <2>6 DEF LeaseCount
<1>4. ASSUME NEW r \in Requests, Release(r) PROVE LeaseCount'
  <2>1. PICK e \in Requests : e = at[r]
    BY <1>4, AtEntry DEF Release, Step
  <2>2. r \in Leaseholders(e) /\ Leaseholders(e)' = Leaseholders(e) \ {r}
    BY <1>0, <1>4, <2>1 DEF Release, Step, Leaseholders, Leaseholder, TypeOK
  <2>3. Cardinality(Leaseholders(e)') = Cardinality(Leaseholders(e)) - 1
    BY <1>1, <2>1, <2>2, FS_RemoveElement
  <2>4. \A f \in Requests \ {e} : Leaseholders(f)' = Leaseholders(f) /\ active'[f] = active[f]
    BY <1>0, <1>4, <2>1 DEF Release, Step, Leaseholders, Leaseholder, TypeOK
  <2>5. active'[e] = active[e] - 1
    BY <1>0, <1>4, <2>1 DEF Release, TypeOK
  <2>6. \A f \in Requests : active'[f] = Cardinality(Leaseholders(f)')
    BY <1>0, <2>3, <2>4, <2>5 DEF LeaseCount
  <2>. QED BY <2>6 DEF LeaseCount
<1>. QED BY <1>2, <1>3, <1>4, HoldersStep

(* A handler keeps referring to an entry of its own key and generation.    *)
LEMMA PlacementStep ==
    ASSUME IInv, Next
    PROVE  Placement'
<1>0. TypeOK /\ Placement /\ PoolsCurrent
  BY DEF IInv
<1>. USE DEF TypeOK, Placement, PoolsCurrent, vars, daemonVars, entryVars, requestVars, storeVars
<1>1. ASSUME NEW r \in Requests, NEW k \in Keys, Call(r, k) PROVE Placement'
  BY <1>1, <1>0, NoneAssumption DEF Call, Accepted, Step, Serves
<1>2. ASSUME NEW r \in Requests, Disconnect(r) PROVE Placement'
  BY <1>2, <1>0, NoneAssumption DEF Disconnect, Serves
<1>3. ASSUME NEW r \in Requests, Reload(r) PROVE Placement'
  BY <1>3, <1>0, NoneAssumption DEF Reload, Accepted, Withdraw, AfterClosing, Serves
<1>4. ASSUME NEW r \in Requests, Login(r) PROVE Placement'
  BY <1>4, <1>0, NoneAssumption DEF Login, Accepted, Step, FreshCredential,
       StoreCredential, Serves
<1>5. ASSUME NEW r \in Requests, Logout(r) PROVE Placement'
  BY <1>5, <1>0, NoneAssumption DEF Logout, Accepted, Step, StoreCredential, Serves
<1>6. ASSUME NEW r \in Requests, AcquireRefused(r) PROVE Placement'
  BY <1>6, <1>0, NoneAssumption DEF AcquireRefused, Step, Serves
<1>7. ASSUME NEW r \in Requests, AcquireExisting(r) PROVE Placement'
  BY <1>7, <1>0, NoneAssumption DEF AcquireExisting, Step, Serves
<1>8. ASSUME NEW r \in Requests, AcquireFresh(r) PROVE Placement'
  BY <1>8, <1>0, NoneAssumption DEF AcquireFresh, Step, Serves
<1>9. ASSUME NEW r \in Requests, Lease(r) PROVE Placement'
  BY <1>9, <1>0, NoneAssumption DEF Lease, Step, Serves
<1>10. ASSUME NEW r \in Requests, LeaseRefused(r) PROVE Placement'
  BY <1>10, <1>0, NoneAssumption DEF LeaseRefused, Step, Serves
<1>11. ASSUME NEW r \in Requests, WaitCanceled(r) PROVE Placement'
  BY <1>11, <1>0, NoneAssumption DEF WaitCanceled, Step, Serves
<1>12. ASSUME NEW r \in Requests, WaitAuthorizing(r) PROVE Placement'
  BY <1>12, <1>0, NoneAssumption DEF WaitAuthorizing, Step, Serves
<1>13. ASSUME NEW r \in Requests, CheckCredential(r) PROVE Placement'
  BY <1>13, <1>0, NoneAssumption DEF CheckCredential, Step, Serves
<1>14. ASSUME NEW r \in Requests, BeginOperation(r) PROVE Placement'
  BY <1>14, <1>0, NoneAssumption DEF BeginOperation, Step, Serves
<1>15. ASSUME NEW r \in Requests, RefuseOperation(r) PROVE Placement'
  BY <1>15, <1>0, NoneAssumption DEF RefuseOperation, Step, Serves
<1>16. ASSUME NEW r \in Requests, Release(r) PROVE Placement'
  BY <1>16, <1>0, NoneAssumption DEF Release, Step, Serves
<1>17. ASSUME NEW r \in Requests, ConfirmLogin(r) PROVE Placement'
  BY <1>17, <1>0, NoneAssumption DEF ConfirmLogin, Step, Serves
<1>18. ASSUME NEW r \in Requests, RetireCredential(r) PROVE Placement'
  BY <1>18, <1>0, NoneAssumption DEF RetireCredential, Withdraw, AfterClosing, Serves
<1>19. ASSUME NEW r \in Requests, CloseRetired(r) PROVE Placement'
  BY <1>19, <1>0, NoneAssumption DEF CloseRetired, Step, Serves
<1>20. ASSUME NEW r \in Requests, Forget(r) PROVE Placement'
  BY <1>20, <1>0, NoneAssumption DEF Forget, Step, AfterClosing, Serves
<1>21. ASSUME NEW r \in Requests, FinishOperation(r) PROVE Placement'
  BY <1>21, <1>0, NoneAssumption DEF FinishOperation, Step, Serves
<1>22. ASSUME NEW r \in Requests, LoseSession(r) PROVE Placement'
  BY <1>22, <1>0, NoneAssumption DEF LoseSession, Step, Serves
<1>23. ASSUME NEW r \in Requests, AbandonOperation(r) PROVE Placement'
  BY <1>23, <1>0, NoneAssumption DEF AbandonOperation, Step, Serves
<1>24. ASSUME NEW r \in Requests, Reauthorize(r) PROVE Placement'
  BY <1>24, <1>0, NoneAssumption DEF Reauthorize, FreshCredential, StoreCredential, Serves
<1>25. ASSUME NEW e \in Requests, LoadTarget(e) PROVE Placement'
  BY <1>25, <1>0, NoneAssumption DEF LoadTarget, EntryStep, Serves
<1>26. ASSUME NEW e \in Requests, Publish(e) PROVE Placement'
  BY <1>26, <1>0, NoneAssumption DEF Publish, EntryStep, Serves
<1>27. ASSUME NEW e \in Requests, Discard(e) PROVE Placement'
  BY <1>27, <1>0, NoneAssumption DEF Discard, EntryStep, PublishError, Serves
<1>28. ASSUME NEW e \in Requests, Connect(e) PROVE Placement'
  BY <1>28, <1>0, NoneAssumption DEF Connect, EntryStep, Serves
<1>29. ASSUME NEW e \in Requests, StartFailed(e) PROVE Placement'
  BY <1>29, <1>0, NoneAssumption DEF StartFailed, EntryStep, PublishError, Serves
<1>30. ASSUME NEW e \in Requests, BeginAuthorization(e) PROVE Placement'
  BY <1>30, <1>0, NoneAssumption DEF BeginAuthorization, Serves
<1>31. ASSUME NEW e \in Requests, SaveAuthorization(e) PROVE Placement'
  BY <1>31, <1>0, NoneAssumption DEF SaveAuthorization, FreshCredential,
       StoreCredential, Serves
<1>32. ASSUME DirectAuth PROVE Placement'
  BY <1>32, <1>0, NoneAssumption DEF DirectAuth, FreshCredential, StoreCredential, Serves
<1>33. ASSUME CancelContext PROVE Placement'
  BY <1>33, <1>0, NoneAssumption DEF CancelContext, Serves
<1>34. ASSUME MarkClosing PROVE Placement'
  BY <1>34, <1>0, NoneAssumption DEF MarkClosing, Serves
<1>35. ASSUME CloseAtShutdown PROVE Placement'
  BY <1>35, <1>0, NoneAssumption DEF CloseAtShutdown, Serves
<1>36. ASSUME Stop PROVE Placement'
  BY <1>36, <1>0, NoneAssumption DEF Stop, Serves
<1>37. ASSUME Stopped PROVE Placement'
  BY <1>37, <1>0, NoneAssumption DEF Stopped, Serves
<1>. QED BY <1>1, <1>2, <1>3, <1>4, <1>5, <1>6, <1>7, <1>8, <1>9, <1>10, <1>11,
       <1>12, <1>13, <1>14, <1>15, <1>16, <1>17, <1>18, <1>19, <1>20, <1>21,
       <1>22, <1>23, <1>24, <1>25, <1>26, <1>27, <1>28, <1>29, <1>30, <1>31,
       <1>32, <1>33, <1>34, <1>35, <1>36, <1>37 DEF Next, Handle, EndOperation,
       Start, EndConnect, Shutdown

(* The closing loop forgets only what it closed, and ends.                 *)
LEMMA ClosingLoopStep ==
    ASSUME IInv, Next
    PROVE  ClosingLoop'
<1>0. TypeOK /\ ClosingLoop /\ Placement
  BY DEF IInv
<1>. USE DEF TypeOK, ClosingLoop, Placement, vars, daemonVars, entryVars, requestVars, storeVars
<1>1. ASSUME NEW r \in Requests, NEW k \in Keys, Call(r, k) PROVE ClosingLoop'
  BY <1>1, <1>0, NoneAssumption DEF Call, Accepted, Step
<1>2. ASSUME NEW r \in Requests, Disconnect(r) PROVE ClosingLoop'
  BY <1>2, <1>0, NoneAssumption DEF Disconnect
<1>3. ASSUME NEW r \in Requests, Reload(r) PROVE ClosingLoop'
  BY <1>3, <1>0, NoneAssumption DEF Reload, Accepted, Withdraw, AfterClosing
<1>4. ASSUME NEW r \in Requests, Login(r) PROVE ClosingLoop'
  BY <1>4, <1>0, NoneAssumption DEF Login, Accepted, Step, FreshCredential,
       StoreCredential
<1>5. ASSUME NEW r \in Requests, Logout(r) PROVE ClosingLoop'
  BY <1>5, <1>0, NoneAssumption DEF Logout, Accepted, Step, StoreCredential
<1>6. ASSUME NEW r \in Requests, AcquireRefused(r) PROVE ClosingLoop'
  BY <1>6, <1>0, NoneAssumption DEF AcquireRefused, Step
<1>7. ASSUME NEW r \in Requests, AcquireExisting(r) PROVE ClosingLoop'
  BY <1>7, <1>0, NoneAssumption DEF AcquireExisting, Step
<1>8. ASSUME NEW r \in Requests, AcquireFresh(r) PROVE ClosingLoop'
  BY <1>8, <1>0, NoneAssumption DEF AcquireFresh, Step
<1>9. ASSUME NEW r \in Requests, Lease(r) PROVE ClosingLoop'
  BY <1>9, <1>0, NoneAssumption DEF Lease, Step
<1>10. ASSUME NEW r \in Requests, LeaseRefused(r) PROVE ClosingLoop'
  BY <1>10, <1>0, NoneAssumption DEF LeaseRefused, Step
<1>11. ASSUME NEW r \in Requests, WaitCanceled(r) PROVE ClosingLoop'
  BY <1>11, <1>0, NoneAssumption DEF WaitCanceled, Step
<1>12. ASSUME NEW r \in Requests, WaitAuthorizing(r) PROVE ClosingLoop'
  BY <1>12, <1>0, NoneAssumption DEF WaitAuthorizing, Step
<1>13. ASSUME NEW r \in Requests, CheckCredential(r) PROVE ClosingLoop'
  BY <1>13, <1>0, NoneAssumption DEF CheckCredential, Step
<1>14. ASSUME NEW r \in Requests, BeginOperation(r) PROVE ClosingLoop'
  BY <1>14, <1>0, NoneAssumption DEF BeginOperation, Step
<1>15. ASSUME NEW r \in Requests, RefuseOperation(r) PROVE ClosingLoop'
  BY <1>15, <1>0, NoneAssumption DEF RefuseOperation, Step
<1>16. ASSUME NEW r \in Requests, Release(r) PROVE ClosingLoop'
  BY <1>16, <1>0, NoneAssumption DEF Release, Step
<1>17. ASSUME NEW r \in Requests, ConfirmLogin(r) PROVE ClosingLoop'
  BY <1>17, <1>0, NoneAssumption DEF ConfirmLogin, Step
<1>18. ASSUME NEW r \in Requests, RetireCredential(r) PROVE ClosingLoop'
  BY <1>18, <1>0, NoneAssumption DEF RetireCredential, Withdraw, AfterClosing
<1>19. ASSUME NEW r \in Requests, CloseRetired(r) PROVE ClosingLoop'
  BY <1>19, <1>0, NoneAssumption DEF CloseRetired, Step
<1>20. ASSUME NEW r \in Requests, Forget(r) PROVE ClosingLoop'
  BY <1>20, <1>0, NoneAssumption DEF Forget, Step, AfterClosing
<1>21. ASSUME NEW r \in Requests, FinishOperation(r) PROVE ClosingLoop'
  BY <1>21, <1>0, NoneAssumption DEF FinishOperation, Step
<1>22. ASSUME NEW r \in Requests, LoseSession(r) PROVE ClosingLoop'
  BY <1>22, <1>0, NoneAssumption DEF LoseSession, Step
<1>23. ASSUME NEW r \in Requests, AbandonOperation(r) PROVE ClosingLoop'
  BY <1>23, <1>0, NoneAssumption DEF AbandonOperation, Step
<1>24. ASSUME NEW r \in Requests, Reauthorize(r) PROVE ClosingLoop'
  BY <1>24, <1>0, NoneAssumption DEF Reauthorize, FreshCredential, StoreCredential
<1>25. ASSUME NEW e \in Requests, LoadTarget(e) PROVE ClosingLoop'
  BY <1>25, <1>0, NoneAssumption DEF LoadTarget, EntryStep
<1>26. ASSUME NEW e \in Requests, Publish(e) PROVE ClosingLoop'
  BY <1>26, <1>0, NoneAssumption DEF Publish, EntryStep
<1>27. ASSUME NEW e \in Requests, Discard(e) PROVE ClosingLoop'
  BY <1>27, <1>0, NoneAssumption DEF Discard, EntryStep, PublishError
<1>28. ASSUME NEW e \in Requests, Connect(e) PROVE ClosingLoop'
  BY <1>28, <1>0, NoneAssumption DEF Connect, EntryStep
<1>29. ASSUME NEW e \in Requests, StartFailed(e) PROVE ClosingLoop'
  BY <1>29, <1>0, NoneAssumption DEF StartFailed, EntryStep, PublishError
<1>30. ASSUME NEW e \in Requests, BeginAuthorization(e) PROVE ClosingLoop'
  BY <1>30, <1>0, NoneAssumption DEF BeginAuthorization
<1>31. ASSUME NEW e \in Requests, SaveAuthorization(e) PROVE ClosingLoop'
  BY <1>31, <1>0, NoneAssumption DEF SaveAuthorization, FreshCredential, StoreCredential
<1>32. ASSUME DirectAuth PROVE ClosingLoop'
  BY <1>32, <1>0, NoneAssumption DEF DirectAuth, FreshCredential, StoreCredential
<1>33. ASSUME CancelContext PROVE ClosingLoop'
  BY <1>33, <1>0, NoneAssumption DEF CancelContext
<1>34. ASSUME MarkClosing PROVE ClosingLoop'
  BY <1>34, <1>0, NoneAssumption DEF MarkClosing
<1>35. ASSUME CloseAtShutdown PROVE ClosingLoop'
  BY <1>35, <1>0, NoneAssumption DEF CloseAtShutdown
<1>36. ASSUME Stop PROVE ClosingLoop'
  BY <1>36, <1>0, NoneAssumption DEF Stop
<1>37. ASSUME Stopped PROVE ClosingLoop'
  BY <1>37, <1>0, NoneAssumption DEF Stopped
<1>. QED BY <1>1, <1>2, <1>3, <1>4, <1>5, <1>6, <1>7, <1>8, <1>9, <1>10, <1>11,
       <1>12, <1>13, <1>14, <1>15, <1>16, <1>17, <1>18, <1>19, <1>20, <1>21,
       <1>22, <1>23, <1>24, <1>25, <1>26, <1>27, <1>28, <1>29, <1>30, <1>31,
       <1>32, <1>33, <1>34, <1>35, <1>36, <1>37 DEF Next, Handle, EndOperation,
       Start, EndConnect, Shutdown

(* d.pools keeps to entries of the current generation.                     *)
LEMMA PoolsCurrentStep ==
    ASSUME IInv, Next
    PROVE  PoolsCurrent'
<1>0. TypeOK /\ PoolsCurrent /\ Placement /\ CloseDiscipline
  BY DEF IInv
<1>. USE DEF TypeOK, PoolsCurrent, Placement, CloseDiscipline, vars, daemonVars, entryVars, requestVars, storeVars
<1>1. ASSUME NEW r \in Requests, NEW k \in Keys, Call(r, k) PROVE PoolsCurrent'
  BY <1>1, <1>0, NoneAssumption DEF Call, Accepted, Step, Closing, Outdated, Pooled
<1>2. ASSUME NEW r \in Requests, Disconnect(r) PROVE PoolsCurrent'
  BY <1>2, <1>0, NoneAssumption DEF Disconnect, Closing, Outdated, Pooled
<1>3. ASSUME NEW r \in Requests, Reload(r) PROVE PoolsCurrent'
  BY <1>3, <1>0, NoneAssumption DEF Reload, Accepted, Withdraw, AfterClosing, Closing,
       Outdated, Pooled
<1>4. ASSUME NEW r \in Requests, Login(r) PROVE PoolsCurrent'
  BY <1>4, <1>0, NoneAssumption DEF Login, Accepted, Step, FreshCredential,
       StoreCredential, Closing, Outdated, Pooled
<1>5. ASSUME NEW r \in Requests, Logout(r) PROVE PoolsCurrent'
  BY <1>5, <1>0, NoneAssumption DEF Logout, Accepted, Step, StoreCredential, Closing,
       Outdated, Pooled
<1>6. ASSUME NEW r \in Requests, AcquireRefused(r) PROVE PoolsCurrent'
  BY <1>6, <1>0, NoneAssumption DEF AcquireRefused, Step, Closing, Outdated, Pooled
<1>7. ASSUME NEW r \in Requests, AcquireExisting(r) PROVE PoolsCurrent'
  BY <1>7, <1>0, NoneAssumption DEF AcquireExisting, Step, Closing, Outdated, Pooled
<1>8. ASSUME NEW r \in Requests, AcquireFresh(r) PROVE PoolsCurrent'
  BY <1>8, <1>0, NoneAssumption DEF AcquireFresh, Step, Closing, Outdated, Pooled
<1>9. ASSUME NEW r \in Requests, Lease(r) PROVE PoolsCurrent'
  BY <1>9, <1>0, NoneAssumption DEF Lease, Step, Closing, Outdated, Pooled
<1>10. ASSUME NEW r \in Requests, LeaseRefused(r) PROVE PoolsCurrent'
  BY <1>10, <1>0, NoneAssumption DEF LeaseRefused, Step, Closing, Outdated, Pooled
<1>11. ASSUME NEW r \in Requests, WaitCanceled(r) PROVE PoolsCurrent'
  BY <1>11, <1>0, NoneAssumption DEF WaitCanceled, Step, Closing, Outdated, Pooled
<1>12. ASSUME NEW r \in Requests, WaitAuthorizing(r) PROVE PoolsCurrent'
  BY <1>12, <1>0, NoneAssumption DEF WaitAuthorizing, Step, Closing, Outdated, Pooled
<1>13. ASSUME NEW r \in Requests, CheckCredential(r) PROVE PoolsCurrent'
  BY <1>13, <1>0, NoneAssumption DEF CheckCredential, Step, Closing, Outdated, Pooled
<1>14. ASSUME NEW r \in Requests, BeginOperation(r) PROVE PoolsCurrent'
  BY <1>14, <1>0, NoneAssumption DEF BeginOperation, Step, Closing, Outdated, Pooled
<1>15. ASSUME NEW r \in Requests, RefuseOperation(r) PROVE PoolsCurrent'
  BY <1>15, <1>0, NoneAssumption DEF RefuseOperation, Step, Closing, Outdated, Pooled
<1>16. ASSUME NEW r \in Requests, Release(r) PROVE PoolsCurrent'
  BY <1>16, <1>0, NoneAssumption DEF Release, Step, Closing, Outdated, Pooled
<1>17. ASSUME NEW r \in Requests, ConfirmLogin(r) PROVE PoolsCurrent'
  BY <1>17, <1>0, NoneAssumption DEF ConfirmLogin, Step, Closing, Outdated, Pooled
<1>18. ASSUME NEW r \in Requests, RetireCredential(r) PROVE PoolsCurrent'
  BY <1>18, <1>0, NoneAssumption DEF RetireCredential, Withdraw, AfterClosing, Closing,
       Outdated, Pooled
<1>19. ASSUME NEW r \in Requests, CloseRetired(r) PROVE PoolsCurrent'
  BY <1>19, <1>0, NoneAssumption DEF CloseRetired, Step, Closing, Outdated, Pooled
<1>20. ASSUME NEW r \in Requests, Forget(r) PROVE PoolsCurrent'
  BY <1>20, <1>0, NoneAssumption DEF Forget, Step, AfterClosing, Closing, Outdated, Pooled
<1>21. ASSUME NEW r \in Requests, FinishOperation(r) PROVE PoolsCurrent'
  BY <1>21, <1>0, NoneAssumption DEF FinishOperation, Step, Closing, Outdated, Pooled
<1>22. ASSUME NEW r \in Requests, LoseSession(r) PROVE PoolsCurrent'
  BY <1>22, <1>0, NoneAssumption DEF LoseSession, Step, Closing, Outdated, Pooled
<1>23. ASSUME NEW r \in Requests, AbandonOperation(r) PROVE PoolsCurrent'
  BY <1>23, <1>0, NoneAssumption DEF AbandonOperation, Step, Closing, Outdated, Pooled
<1>24. ASSUME NEW r \in Requests, Reauthorize(r) PROVE PoolsCurrent'
  BY <1>24, <1>0, NoneAssumption DEF Reauthorize, FreshCredential, StoreCredential,
       Closing, Outdated, Pooled
<1>25. ASSUME NEW e \in Requests, LoadTarget(e) PROVE PoolsCurrent'
  BY <1>25, <1>0, NoneAssumption DEF LoadTarget, EntryStep, Closing, Outdated, Pooled
<1>26. ASSUME NEW e \in Requests, Publish(e) PROVE PoolsCurrent'
  BY <1>26, <1>0, NoneAssumption DEF Publish, EntryStep, Closing, Outdated, Pooled
<1>27. ASSUME NEW e \in Requests, Discard(e) PROVE PoolsCurrent'
  BY <1>27, <1>0, NoneAssumption DEF Discard, EntryStep, PublishError, Closing,
       Outdated, Pooled
<1>28. ASSUME NEW e \in Requests, Connect(e) PROVE PoolsCurrent'
  BY <1>28, <1>0, NoneAssumption DEF Connect, EntryStep, Closing, Outdated, Pooled
<1>29. ASSUME NEW e \in Requests, StartFailed(e) PROVE PoolsCurrent'
  BY <1>29, <1>0, NoneAssumption DEF StartFailed, EntryStep, PublishError, Closing,
       Outdated, Pooled
<1>30. ASSUME NEW e \in Requests, BeginAuthorization(e) PROVE PoolsCurrent'
  BY <1>30, <1>0, NoneAssumption DEF BeginAuthorization, Closing, Outdated, Pooled
<1>31. ASSUME NEW e \in Requests, SaveAuthorization(e) PROVE PoolsCurrent'
  BY <1>31, <1>0, NoneAssumption DEF SaveAuthorization, FreshCredential,
       StoreCredential, Closing, Outdated, Pooled
<1>32. ASSUME DirectAuth PROVE PoolsCurrent'
  BY <1>32, <1>0, NoneAssumption DEF DirectAuth, FreshCredential, StoreCredential,
       Closing, Outdated, Pooled
<1>33. ASSUME CancelContext PROVE PoolsCurrent'
  BY <1>33, <1>0, NoneAssumption DEF CancelContext, Closing, Outdated, Pooled
<1>34. ASSUME MarkClosing PROVE PoolsCurrent'
  BY <1>34, <1>0, NoneAssumption DEF MarkClosing, Closing, Outdated, Pooled
<1>35. ASSUME CloseAtShutdown PROVE PoolsCurrent'
  BY <1>35, <1>0, NoneAssumption DEF CloseAtShutdown, Closing, Outdated, Pooled
<1>36. ASSUME Stop PROVE PoolsCurrent'
  BY <1>36, <1>0, NoneAssumption DEF Stop, Closing, Outdated, Pooled
<1>37. ASSUME Stopped PROVE PoolsCurrent'
  BY <1>37, <1>0, NoneAssumption DEF Stopped, Closing, Outdated, Pooled
<1>. QED BY <1>1, <1>2, <1>3, <1>4, <1>5, <1>6, <1>7, <1>8, <1>9, <1>10, <1>11,
       <1>12, <1>13, <1>14, <1>15, <1>16, <1>17, <1>18, <1>19, <1>20, <1>21,
       <1>22, <1>23, <1>24, <1>25, <1>26, <1>27, <1>28, <1>29, <1>30, <1>31,
       <1>32, <1>33, <1>34, <1>35, <1>36, <1>37 DEF Next, Handle, EndOperation,
       Start, EndConnect, Shutdown

(* No step offers a second session of a key.                               *)
LEMMA OneOfferedStep ==
    ASSUME IInv, Next
    PROVE  OneOfferedSession'
<1>0. TypeOK /\ OneOfferedSession /\ Placement /\ PoolsCurrent
  BY DEF IInv
<1>. USE DEF TypeOK, OneOfferedSession, Placement, PoolsCurrent, vars, daemonVars, entryVars, requestVars, storeVars
<1>1. ASSUME NEW r \in Requests, NEW k \in Keys, Call(r, k) PROVE OneOfferedSession'
  BY <1>1, <1>0, NoneAssumption DEF Call, Accepted, Step, Offered, Closing, Outdated,
       Pooled
<1>2. ASSUME NEW r \in Requests, Disconnect(r) PROVE OneOfferedSession'
  BY <1>2, <1>0, NoneAssumption DEF Disconnect, Offered, Closing, Outdated, Pooled
<1>3. ASSUME NEW r \in Requests, Reload(r) PROVE OneOfferedSession'
  <2>. DEFINE S == Pooled
  <2>1. /\ pools' = [k \in Keys |-> IF pools[k] \in S THEN None ELSE pools[k]]
        /\ \A e \in Requests : retired'[e] <=> (retired[e] \/ e \in S)
        /\ UNCHANGED <<phase, key, gen>>
    BY <1>3 DEF Reload, Withdraw
  <2>2. ASSUME NEW e \in Requests, Offered(e)' PROVE FALSE
    <3>1. Offered(e) /\ e \notin S
      BY <2>1, <2>2 DEF Offered
    <3>2. key[e] \in Keys /\ pools[key[e]] = e
      BY <1>0, <3>1 DEF Offered
    <3>. QED BY <3>1, <3>2, NoneAssumption DEF Pooled
  <2>. QED BY <2>2
<1>4. ASSUME NEW r \in Requests, Login(r) PROVE OneOfferedSession'
  BY <1>4, <1>0, NoneAssumption DEF Login, Accepted, Step, FreshCredential,
       StoreCredential, Offered, Closing, Outdated, Pooled
<1>5. ASSUME NEW r \in Requests, Logout(r) PROVE OneOfferedSession'
  BY <1>5, <1>0, NoneAssumption DEF Logout, Accepted, Step, StoreCredential, Offered,
       Closing, Outdated, Pooled
<1>6. ASSUME NEW r \in Requests, AcquireRefused(r) PROVE OneOfferedSession'
  BY <1>6, <1>0, NoneAssumption DEF AcquireRefused, Step, Offered, Closing, Outdated,
       Pooled
<1>7. ASSUME NEW r \in Requests, AcquireExisting(r) PROVE OneOfferedSession'
  BY <1>7, <1>0, NoneAssumption DEF AcquireExisting, Step, Offered, Closing, Outdated,
       Pooled
<1>8. ASSUME NEW r \in Requests, AcquireFresh(r) PROVE OneOfferedSession'
  BY <1>8, <1>0, NoneAssumption DEF AcquireFresh, Step, Offered, Closing, Outdated, Pooled
<1>9. ASSUME NEW r \in Requests, Lease(r) PROVE OneOfferedSession'
  BY <1>9, <1>0, NoneAssumption DEF Lease, Step, Offered, Closing, Outdated, Pooled
<1>10. ASSUME NEW r \in Requests, LeaseRefused(r) PROVE OneOfferedSession'
  BY <1>10, <1>0, NoneAssumption DEF LeaseRefused, Step, Offered, Closing, Outdated,
       Pooled
<1>11. ASSUME NEW r \in Requests, WaitCanceled(r) PROVE OneOfferedSession'
  BY <1>11, <1>0, NoneAssumption DEF WaitCanceled, Step, Offered, Closing, Outdated,
       Pooled
<1>12. ASSUME NEW r \in Requests, WaitAuthorizing(r) PROVE OneOfferedSession'
  BY <1>12, <1>0, NoneAssumption DEF WaitAuthorizing, Step, Offered, Closing, Outdated,
       Pooled
<1>13. ASSUME NEW r \in Requests, CheckCredential(r) PROVE OneOfferedSession'
  BY <1>13, <1>0, NoneAssumption DEF CheckCredential, Step, Offered, Closing, Outdated,
       Pooled
<1>14. ASSUME NEW r \in Requests, BeginOperation(r) PROVE OneOfferedSession'
  BY <1>14, <1>0, NoneAssumption DEF BeginOperation, Step, Offered, Closing, Outdated,
       Pooled
<1>15. ASSUME NEW r \in Requests, RefuseOperation(r) PROVE OneOfferedSession'
  BY <1>15, <1>0, NoneAssumption DEF RefuseOperation, Step, Offered, Closing, Outdated,
       Pooled
<1>16. ASSUME NEW r \in Requests, Release(r) PROVE OneOfferedSession'
  BY <1>16, <1>0, NoneAssumption DEF Release, Step, Offered, Closing, Outdated, Pooled
<1>17. ASSUME NEW r \in Requests, ConfirmLogin(r) PROVE OneOfferedSession'
  BY <1>17, <1>0, NoneAssumption DEF ConfirmLogin, Step, Offered, Closing, Outdated,
       Pooled
<1>18. ASSUME NEW r \in Requests, RetireCredential(r) PROVE OneOfferedSession'
  <2>. DEFINE S == {e \in Pooled : phase[e] = "live" /\ key[e] \in OAuthKeys}
  <2>1. /\ pools' = [k \in Keys |-> IF pools[k] \in S THEN None ELSE pools[k]]
        /\ \A e \in Requests : retired'[e] <=> (retired[e] \/ e \in S)
        /\ UNCHANGED <<phase, key, gen>>
    BY <1>18 DEF RetireCredential, Withdraw
  <2>2. ASSUME NEW e \in Requests, Offered(e)'
        PROVE  pools'[key'[e]] = e /\ gen'[e] = generation'
    <3>1. Offered(e) /\ e \notin S
      BY <2>1, <2>2 DEF Offered
    <3>2. key[e] \in Keys /\ pools[key[e]] = e /\ gen[e] = generation
      BY <1>0, <3>1 DEF Offered
    <3>. QED BY <1>18, <2>1, <3>1, <3>2 DEF RetireCredential
  <2>. QED BY <2>2
<1>19. ASSUME NEW r \in Requests, CloseRetired(r) PROVE OneOfferedSession'
  BY <1>19, <1>0, NoneAssumption DEF CloseRetired, Step, Offered, Closing, Outdated,
       Pooled
<1>20. ASSUME NEW r \in Requests, Forget(r) PROVE OneOfferedSession'
  BY <1>20, <1>0, NoneAssumption DEF Forget, Step, AfterClosing, Offered, Closing,
       Outdated, Pooled
<1>21. ASSUME NEW r \in Requests, FinishOperation(r) PROVE OneOfferedSession'
  BY <1>21, <1>0, NoneAssumption DEF FinishOperation, Step, Offered, Closing, Outdated,
       Pooled
<1>22. ASSUME NEW r \in Requests, LoseSession(r) PROVE OneOfferedSession'
  BY <1>22, <1>0, NoneAssumption DEF LoseSession, Step, Offered, Closing, Outdated, Pooled
<1>23. ASSUME NEW r \in Requests, AbandonOperation(r) PROVE OneOfferedSession'
  BY <1>23, <1>0, NoneAssumption DEF AbandonOperation, Step, Offered, Closing, Outdated,
       Pooled
<1>24. ASSUME NEW r \in Requests, Reauthorize(r) PROVE OneOfferedSession'
  BY <1>24, <1>0, NoneAssumption DEF Reauthorize, FreshCredential, StoreCredential,
       Offered, Closing, Outdated, Pooled
<1>25. ASSUME NEW e \in Requests, LoadTarget(e) PROVE OneOfferedSession'
  BY <1>25, <1>0, NoneAssumption DEF LoadTarget, EntryStep, Offered, Closing, Outdated,
       Pooled
<1>26. ASSUME NEW e \in Requests, Publish(e) PROVE OneOfferedSession'
  BY <1>26, <1>0, NoneAssumption DEF Publish, EntryStep, Offered, Closing, Outdated,
       Pooled
<1>27. ASSUME NEW e \in Requests, Discard(e) PROVE OneOfferedSession'
  BY <1>27, <1>0, NoneAssumption DEF Discard, EntryStep, PublishError, Offered, Closing,
       Outdated, Pooled
<1>28. ASSUME NEW e \in Requests, Connect(e) PROVE OneOfferedSession'
  BY <1>28, <1>0, NoneAssumption DEF Connect, EntryStep, Offered, Closing, Outdated,
       Pooled
<1>29. ASSUME NEW e \in Requests, StartFailed(e) PROVE OneOfferedSession'
  BY <1>29, <1>0, NoneAssumption DEF StartFailed, EntryStep, PublishError, Offered,
       Closing, Outdated, Pooled
<1>30. ASSUME NEW e \in Requests, BeginAuthorization(e) PROVE OneOfferedSession'
  BY <1>30, <1>0, NoneAssumption DEF BeginAuthorization, Offered, Closing, Outdated,
       Pooled
<1>31. ASSUME NEW e \in Requests, SaveAuthorization(e) PROVE OneOfferedSession'
  BY <1>31, <1>0, NoneAssumption DEF SaveAuthorization, FreshCredential,
       StoreCredential, Offered, Closing, Outdated, Pooled
<1>32. ASSUME DirectAuth PROVE OneOfferedSession'
  BY <1>32, <1>0, NoneAssumption DEF DirectAuth, FreshCredential, StoreCredential,
       Offered, Closing, Outdated, Pooled
<1>33. ASSUME CancelContext PROVE OneOfferedSession'
  BY <1>33, <1>0, NoneAssumption DEF CancelContext, Offered, Closing, Outdated, Pooled
<1>34. ASSUME MarkClosing PROVE OneOfferedSession'
  BY <1>34, <1>0, NoneAssumption DEF MarkClosing, Offered, Closing, Outdated, Pooled
<1>35. ASSUME CloseAtShutdown PROVE OneOfferedSession'
  BY <1>35, <1>0, NoneAssumption DEF CloseAtShutdown, Offered, Closing, Outdated, Pooled
<1>36. ASSUME Stop PROVE OneOfferedSession'
  BY <1>36, <1>0, NoneAssumption DEF Stop, Offered, Closing, Outdated, Pooled
<1>37. ASSUME Stopped PROVE OneOfferedSession'
  BY <1>37, <1>0, NoneAssumption DEF Stopped, Offered, Closing, Outdated, Pooled
<1>. QED BY <1>1, <1>2, <1>3, <1>4, <1>5, <1>6, <1>7, <1>8, <1>9, <1>10, <1>11,
       <1>12, <1>13, <1>14, <1>15, <1>16, <1>17, <1>18, <1>19, <1>20, <1>21,
       <1>22, <1>23, <1>24, <1>25, <1>26, <1>27, <1>28, <1>29, <1>30, <1>31,
       <1>32, <1>33, <1>34, <1>35, <1>36, <1>37 DEF Next, Handle, EndOperation,
       Start, EndConnect, Shutdown

(* Only withdrawn and, before shutdown, idle instances get closed.         *)
LEMMA CloseDisciplineStep ==
    ASSUME IInv, Next
    PROVE  CloseDiscipline'
<1>0. TypeOK /\ CloseDiscipline /\ Placement /\ ClosingLoop /\ PoolsCurrent
  BY DEF IInv
<1>. USE DEF TypeOK, CloseDiscipline, Placement, ClosingLoop, PoolsCurrent, vars, daemonVars, entryVars, requestVars, storeVars
<1>1. ASSUME NEW r \in Requests, NEW k \in Keys, Call(r, k) PROVE CloseDiscipline'
  BY <1>1, <1>0, NoneAssumption DEF Call, Accepted, Step, Serves, Closing, Outdated,
       Pooled
<1>2. ASSUME NEW r \in Requests, Disconnect(r) PROVE CloseDiscipline'
  BY <1>2, <1>0, NoneAssumption DEF Disconnect, Serves, Closing, Outdated, Pooled
<1>3. ASSUME NEW r \in Requests, Reload(r) PROVE CloseDiscipline'
  <2>. DEFINE S == Pooled
  <2>1. S \subseteq Requests
    BY <1>0, NoneAssumption DEF Pooled
  <2>2. /\ retiring' = retiring \cup {e \in S : phase[e] = "live"}
        /\ todo' = [todo EXCEPT ![r] = {e \in S : phase[e] = "live" /\ active[e] = 0}]
        /\ \A e \in Requests : retired'[e] <=> (retired[e] \/ e \in S)
        /\ UNCHANGED <<phase, active, closed, shutdown, shutdownTodo>>
    BY <1>3 DEF Reload, Withdraw
  <2>3. \A e \in S : phase[e] # "none"
    BY <1>0, NoneAssumption DEF S, Pooled
  <2>. HIDE DEF S
  <2>4. \A e \in Requests : retired'[e] => phase'[e] # "none"
    BY <1>0, <2>2, <2>3
  <2>5. \A e \in retiring' \cup shutdownTodo' : phase'[e] = "live" /\ retired'[e]
    BY <1>0, <2>1, <2>2
  <2>6. \A q \in Requests : \A e \in todo'[q] :
            phase'[e] = "live" /\ retired'[e] /\ active'[e] = 0
    BY <1>0, <2>1, <2>2
  <2>7. \A e \in Requests : closed'[e] =>
            /\ phase'[e] \in {"live", "failed"}
            /\ retired'[e] \/ phase'[e] = "failed"
            /\ active'[e] = 0 \/ Closing'
    BY <1>0, <2>2 DEF Closing
  <2>. QED BY <2>4, <2>5, <2>6, <2>7
<1>4. ASSUME NEW r \in Requests, Login(r) PROVE CloseDiscipline'
  BY <1>4, <1>0, NoneAssumption DEF Login, Accepted, Step, FreshCredential,
       StoreCredential, Serves, Closing, Outdated, Pooled
<1>5. ASSUME NEW r \in Requests, Logout(r) PROVE CloseDiscipline'
  BY <1>5, <1>0, NoneAssumption DEF Logout, Accepted, Step, StoreCredential, Serves,
       Closing, Outdated, Pooled
<1>6. ASSUME NEW r \in Requests, AcquireRefused(r) PROVE CloseDiscipline'
  BY <1>6, <1>0, NoneAssumption DEF AcquireRefused, Step, Serves, Closing, Outdated,
       Pooled
<1>7. ASSUME NEW r \in Requests, AcquireExisting(r) PROVE CloseDiscipline'
  BY <1>7, <1>0, NoneAssumption DEF AcquireExisting, Step, Serves, Closing, Outdated,
       Pooled
<1>8. ASSUME NEW r \in Requests, AcquireFresh(r) PROVE CloseDiscipline'
  BY <1>8, <1>0, NoneAssumption DEF AcquireFresh, Step, Serves, Closing, Outdated, Pooled
<1>9. ASSUME NEW r \in Requests, Lease(r) PROVE CloseDiscipline'
  BY <1>9, <1>0, NoneAssumption DEF Lease, Step, Serves, Closing, Outdated, Pooled
<1>10. ASSUME NEW r \in Requests, LeaseRefused(r) PROVE CloseDiscipline'
  BY <1>10, <1>0, NoneAssumption DEF LeaseRefused, Step, Serves, Closing, Outdated, Pooled
<1>11. ASSUME NEW r \in Requests, WaitCanceled(r) PROVE CloseDiscipline'
  BY <1>11, <1>0, NoneAssumption DEF WaitCanceled, Step, Serves, Closing, Outdated, Pooled
<1>12. ASSUME NEW r \in Requests, WaitAuthorizing(r) PROVE CloseDiscipline'
  BY <1>12, <1>0, NoneAssumption DEF WaitAuthorizing, Step, Serves, Closing, Outdated,
       Pooled
<1>13. ASSUME NEW r \in Requests, CheckCredential(r) PROVE CloseDiscipline'
  BY <1>13, <1>0, NoneAssumption DEF CheckCredential, Step, Serves, Closing, Outdated,
       Pooled
<1>14. ASSUME NEW r \in Requests, BeginOperation(r) PROVE CloseDiscipline'
  BY <1>14, <1>0, NoneAssumption DEF BeginOperation, Step, Serves, Closing, Outdated,
       Pooled
<1>15. ASSUME NEW r \in Requests, RefuseOperation(r) PROVE CloseDiscipline'
  BY <1>15, <1>0, NoneAssumption DEF RefuseOperation, Step, Serves, Closing, Outdated,
       Pooled
<1>16. ASSUME NEW r \in Requests, Release(r) PROVE CloseDiscipline'
  <2>1. PICK f \in Requests : f = at[r]
    BY <1>16, AtEntry DEF Release, Step
  <2>2. Leaseholder(r, f)
    BY <1>16, <2>1 DEF Release, Step, Leaseholder
  <2>3. active[f] \in Nat /\ active[f] > 0
    BY <2>2, HolderCounted
  <2>4. phase[f] = "live"
    BY <1>16, <1>0, <2>1, NoneAssumption DEF Release, Step
  <2>5. \A q \in Requests : f \notin todo[q]
    BY <1>0, <2>3
  <2>6. active' = [active EXCEPT ![f] = @ - 1]
    BY <1>16, <2>1 DEF Release
  <2>7. todo' = [todo EXCEPT ![r] = IF retired[f] /\ active[f] = 1 THEN {f} ELSE {}]
    BY <1>16, <2>1 DEF Release
  <2>8. closed[f] => Closing
    BY <1>0, <2>3
  <2>9. UNCHANGED <<phase, retired, closed, retiring, shutdown, shutdownTodo>>
    BY <1>16 DEF Release
  <2>10. \A q \in Requests : \A e \in todo'[q] :
            phase[e] = "live" /\ retired[e] /\ active'[e] = 0
    BY <1>0, <2>3, <2>4, <2>5, <2>6, <2>7
  <2>11. \A e \in Requests : closed[e] => active'[e] = 0 \/ Closing
    BY <1>0, <2>6, <2>8
  <2>. QED BY <1>0, <2>9, <2>10, <2>11 DEF Closing
<1>17. ASSUME NEW r \in Requests, ConfirmLogin(r) PROVE CloseDiscipline'
  BY <1>17, <1>0, NoneAssumption DEF ConfirmLogin, Step, Serves, Closing, Outdated, Pooled
<1>18. ASSUME NEW r \in Requests, RetireCredential(r) PROVE CloseDiscipline'
  <2>. DEFINE S == {e \in Pooled : phase[e] = "live" /\ key[e] \in OAuthKeys}
  <2>1. S \subseteq Requests
    BY <1>0, NoneAssumption DEF Pooled
  <2>2. /\ retiring' = retiring \cup {e \in S : phase[e] = "live"}
        /\ todo' = [todo EXCEPT ![r] = {e \in S : phase[e] = "live" /\ active[e] = 0}]
        /\ \A e \in Requests : retired'[e] <=> (retired[e] \/ e \in S)
        /\ UNCHANGED <<phase, active, closed, shutdown, shutdownTodo>>
    BY <1>18 DEF RetireCredential, Withdraw
  <2>3. \A e \in S : phase[e] # "none"
    BY <1>0, NoneAssumption DEF S, Pooled
  <2>. HIDE DEF S
  <2>4. \A e \in Requests : retired'[e] => phase'[e] # "none"
    BY <1>0, <2>2, <2>3
  <2>5. \A e \in retiring' \cup shutdownTodo' : phase'[e] = "live" /\ retired'[e]
    BY <1>0, <2>1, <2>2
  <2>6. \A q \in Requests : \A e \in todo'[q] :
            phase'[e] = "live" /\ retired'[e] /\ active'[e] = 0
    BY <1>0, <2>1, <2>2
  <2>7. \A e \in Requests : closed'[e] =>
            /\ phase'[e] \in {"live", "failed"}
            /\ retired'[e] \/ phase'[e] = "failed"
            /\ active'[e] = 0 \/ Closing'
    BY <1>0, <2>2 DEF Closing
  <2>. QED BY <2>4, <2>5, <2>6, <2>7
<1>19. ASSUME NEW r \in Requests, CloseRetired(r) PROVE CloseDiscipline'
  BY <1>19, <1>0, NoneAssumption DEF CloseRetired, Step, Serves, Closing, Outdated, Pooled
<1>20. ASSUME NEW r \in Requests, Forget(r) PROVE CloseDiscipline'
  BY <1>20, <1>0, NoneAssumption DEF Forget, Step, AfterClosing, Serves, Closing,
       Outdated, Pooled
<1>21. ASSUME NEW r \in Requests, FinishOperation(r) PROVE CloseDiscipline'
  BY <1>21, <1>0, NoneAssumption DEF FinishOperation, Step, Serves, Closing, Outdated,
       Pooled
<1>22. ASSUME NEW r \in Requests, LoseSession(r) PROVE CloseDiscipline'
  BY <1>22, <1>0, NoneAssumption DEF LoseSession, Step, Serves, Closing, Outdated, Pooled
<1>23. ASSUME NEW r \in Requests, AbandonOperation(r) PROVE CloseDiscipline'
  BY <1>23, <1>0, NoneAssumption DEF AbandonOperation, Step, Serves, Closing, Outdated,
       Pooled
<1>24. ASSUME NEW r \in Requests, Reauthorize(r) PROVE CloseDiscipline'
  BY <1>24, <1>0, NoneAssumption DEF Reauthorize, FreshCredential, StoreCredential,
       Serves, Closing, Outdated, Pooled
<1>25. ASSUME NEW e \in Requests, LoadTarget(e) PROVE CloseDiscipline'
  BY <1>25, <1>0, NoneAssumption DEF LoadTarget, EntryStep, Serves, Closing, Outdated,
       Pooled
<1>26. ASSUME NEW e \in Requests, Publish(e) PROVE CloseDiscipline'
  BY <1>26, <1>0, NoneAssumption DEF Publish, EntryStep, Serves, Closing, Outdated, Pooled
<1>27. ASSUME NEW e \in Requests, Discard(e) PROVE CloseDiscipline'
  <2>1. active[e] = 0
    BY <1>27, IdleUntilLive DEF Discard, EntryStep
  <2>2. phase[e] = "connected"
    BY <1>27 DEF Discard, EntryStep
  <2>3. \A f \in Requests : phase[f] = "live" => phase'[f] = "live"
    BY <1>27, <1>0, <2>2 DEF Discard, EntryStep
  <2>. QED BY <1>27, <1>0, <2>1, <2>2, <2>3 DEF Discard, EntryStep, Closing
<1>28. ASSUME NEW e \in Requests, Connect(e) PROVE CloseDiscipline'
  BY <1>28, <1>0, NoneAssumption DEF Connect, EntryStep, Serves, Closing, Outdated, Pooled
<1>29. ASSUME NEW e \in Requests, StartFailed(e) PROVE CloseDiscipline'
  BY <1>29, <1>0, NoneAssumption DEF StartFailed, EntryStep, PublishError, Serves,
       Closing, Outdated, Pooled
<1>30. ASSUME NEW e \in Requests, BeginAuthorization(e) PROVE CloseDiscipline'
  BY <1>30, <1>0, NoneAssumption DEF BeginAuthorization, Serves, Closing, Outdated, Pooled
<1>31. ASSUME NEW e \in Requests, SaveAuthorization(e) PROVE CloseDiscipline'
  BY <1>31, <1>0, NoneAssumption DEF SaveAuthorization, FreshCredential,
       StoreCredential, Serves, Closing, Outdated, Pooled
<1>32. ASSUME DirectAuth PROVE CloseDiscipline'
  BY <1>32, <1>0, NoneAssumption DEF DirectAuth, FreshCredential, StoreCredential,
       Serves, Closing, Outdated, Pooled
<1>33. ASSUME CancelContext PROVE CloseDiscipline'
  BY <1>33, <1>0, NoneAssumption DEF CancelContext, Serves, Closing, Outdated, Pooled
<1>34. ASSUME MarkClosing PROVE CloseDiscipline'
  <2>1. Pooled \subseteq Requests
    BY <1>0, NoneAssumption DEF Pooled
  <2>2. \A e \in Requests : retired'[e] <=> (retired[e] \/ e \in Pooled)
    BY <1>34 DEF MarkClosing
  <2>3. \A e \in Pooled : phase[e] # "none"
    BY <1>0 DEF Pooled
  <2>4. Closing'
    BY <1>34 DEF MarkClosing, Closing
  <2>. QED BY <1>34, <1>0, <2>1, <2>2, <2>3, <2>4 DEF MarkClosing
<1>35. ASSUME CloseAtShutdown PROVE CloseDiscipline'
  BY <1>35, <1>0, NoneAssumption DEF CloseAtShutdown, Serves, Closing, Outdated, Pooled
<1>36. ASSUME Stop PROVE CloseDiscipline'
  BY <1>36, <1>0, NoneAssumption DEF Stop, Serves, Closing, Outdated, Pooled
<1>37. ASSUME Stopped PROVE CloseDiscipline'
  BY <1>37, <1>0, NoneAssumption DEF Stopped, Serves, Closing, Outdated, Pooled
<1>. QED BY <1>1, <1>2, <1>3, <1>4, <1>5, <1>6, <1>7, <1>8, <1>9, <1>10, <1>11,
       <1>12, <1>13, <1>14, <1>15, <1>16, <1>17, <1>18, <1>19, <1>20, <1>21,
       <1>22, <1>23, <1>24, <1>25, <1>26, <1>27, <1>28, <1>29, <1>30, <1>31,
       <1>32, <1>33, <1>34, <1>35, <1>36, <1>37 DEF Next, Handle, EndOperation,
       Start, EndConnect, Shutdown

(* instance.mu admits one operation at a time.                             *)
LEMMA OneOperationStep ==
    ASSUME IInv, Next
    PROVE  OneOperation'
<1>0. TypeOK /\ OneOperation /\ Placement
  BY DEF IInv
<1>. USE DEF TypeOK, OneOperation, Placement, vars, daemonVars, entryVars, requestVars, storeVars
<1>1. ASSUME NEW r \in Requests, NEW k \in Keys, Call(r, k) PROVE OneOperation'
  BY <1>1, <1>0, NoneAssumption DEF Call, Accepted, Step, Busy
<1>2. ASSUME NEW r \in Requests, Disconnect(r) PROVE OneOperation'
  BY <1>2, <1>0, NoneAssumption DEF Disconnect, Busy
<1>3. ASSUME NEW r \in Requests, Reload(r) PROVE OneOperation'
  BY <1>3, <1>0, NoneAssumption DEF Reload, Accepted, Withdraw, AfterClosing, Busy
<1>4. ASSUME NEW r \in Requests, Login(r) PROVE OneOperation'
  BY <1>4, <1>0, NoneAssumption DEF Login, Accepted, Step, FreshCredential,
       StoreCredential, Busy
<1>5. ASSUME NEW r \in Requests, Logout(r) PROVE OneOperation'
  BY <1>5, <1>0, NoneAssumption DEF Logout, Accepted, Step, StoreCredential, Busy
<1>6. ASSUME NEW r \in Requests, AcquireRefused(r) PROVE OneOperation'
  BY <1>6, <1>0, NoneAssumption DEF AcquireRefused, Step, Busy
<1>7. ASSUME NEW r \in Requests, AcquireExisting(r) PROVE OneOperation'
  BY <1>7, <1>0, NoneAssumption DEF AcquireExisting, Step, Busy
<1>8. ASSUME NEW r \in Requests, AcquireFresh(r) PROVE OneOperation'
  BY <1>8, <1>0, NoneAssumption DEF AcquireFresh, Step, Busy
<1>9. ASSUME NEW r \in Requests, Lease(r) PROVE OneOperation'
  BY <1>9, <1>0, NoneAssumption DEF Lease, Step, Busy
<1>10. ASSUME NEW r \in Requests, LeaseRefused(r) PROVE OneOperation'
  BY <1>10, <1>0, NoneAssumption DEF LeaseRefused, Step, Busy
<1>11. ASSUME NEW r \in Requests, WaitCanceled(r) PROVE OneOperation'
  BY <1>11, <1>0, NoneAssumption DEF WaitCanceled, Step, Busy
<1>12. ASSUME NEW r \in Requests, WaitAuthorizing(r) PROVE OneOperation'
  BY <1>12, <1>0, NoneAssumption DEF WaitAuthorizing, Step, Busy
<1>13. ASSUME NEW r \in Requests, CheckCredential(r) PROVE OneOperation'
  BY <1>13, <1>0, NoneAssumption DEF CheckCredential, Step, Busy
<1>14. ASSUME NEW r \in Requests, BeginOperation(r) PROVE OneOperation'
  BY <1>14, <1>0, NoneAssumption DEF BeginOperation, Step, Busy
<1>15. ASSUME NEW r \in Requests, RefuseOperation(r) PROVE OneOperation'
  BY <1>15, <1>0, NoneAssumption DEF RefuseOperation, Step, Busy
<1>16. ASSUME NEW r \in Requests, Release(r) PROVE OneOperation'
  BY <1>16, <1>0, NoneAssumption DEF Release, Step, Busy
<1>17. ASSUME NEW r \in Requests, ConfirmLogin(r) PROVE OneOperation'
  BY <1>17, <1>0, NoneAssumption DEF ConfirmLogin, Step, Busy
<1>18. ASSUME NEW r \in Requests, RetireCredential(r) PROVE OneOperation'
  BY <1>18, <1>0, NoneAssumption DEF RetireCredential, Withdraw, AfterClosing, Busy
<1>19. ASSUME NEW r \in Requests, CloseRetired(r) PROVE OneOperation'
  BY <1>19, <1>0, NoneAssumption DEF CloseRetired, Step, Busy
<1>20. ASSUME NEW r \in Requests, Forget(r) PROVE OneOperation'
  BY <1>20, <1>0, NoneAssumption DEF Forget, Step, AfterClosing, Busy
<1>21. ASSUME NEW r \in Requests, FinishOperation(r) PROVE OneOperation'
  BY <1>21, <1>0, NoneAssumption DEF FinishOperation, Step, Busy
<1>22. ASSUME NEW r \in Requests, LoseSession(r) PROVE OneOperation'
  BY <1>22, <1>0, NoneAssumption DEF LoseSession, Step, Busy
<1>23. ASSUME NEW r \in Requests, AbandonOperation(r) PROVE OneOperation'
  BY <1>23, <1>0, NoneAssumption DEF AbandonOperation, Step, Busy
<1>24. ASSUME NEW r \in Requests, Reauthorize(r) PROVE OneOperation'
  BY <1>24, <1>0, NoneAssumption DEF Reauthorize, FreshCredential, StoreCredential, Busy
<1>25. ASSUME NEW e \in Requests, LoadTarget(e) PROVE OneOperation'
  BY <1>25, <1>0, NoneAssumption DEF LoadTarget, EntryStep, Busy
<1>26. ASSUME NEW e \in Requests, Publish(e) PROVE OneOperation'
  BY <1>26, <1>0, NoneAssumption DEF Publish, EntryStep, Busy
<1>27. ASSUME NEW e \in Requests, Discard(e) PROVE OneOperation'
  BY <1>27, <1>0, NoneAssumption DEF Discard, EntryStep, PublishError, Busy
<1>28. ASSUME NEW e \in Requests, Connect(e) PROVE OneOperation'
  BY <1>28, <1>0, NoneAssumption DEF Connect, EntryStep, Busy
<1>29. ASSUME NEW e \in Requests, StartFailed(e) PROVE OneOperation'
  BY <1>29, <1>0, NoneAssumption DEF StartFailed, EntryStep, PublishError, Busy
<1>30. ASSUME NEW e \in Requests, BeginAuthorization(e) PROVE OneOperation'
  BY <1>30, <1>0, NoneAssumption DEF BeginAuthorization, Busy
<1>31. ASSUME NEW e \in Requests, SaveAuthorization(e) PROVE OneOperation'
  BY <1>31, <1>0, NoneAssumption DEF SaveAuthorization, FreshCredential,
       StoreCredential, Busy
<1>32. ASSUME DirectAuth PROVE OneOperation'
  BY <1>32, <1>0, NoneAssumption DEF DirectAuth, FreshCredential, StoreCredential, Busy
<1>33. ASSUME CancelContext PROVE OneOperation'
  BY <1>33, <1>0, NoneAssumption DEF CancelContext, Busy
<1>34. ASSUME MarkClosing PROVE OneOperation'
  BY <1>34, <1>0, NoneAssumption DEF MarkClosing, Busy
<1>35. ASSUME CloseAtShutdown PROVE OneOperation'
  BY <1>35, <1>0, NoneAssumption DEF CloseAtShutdown, Busy
<1>36. ASSUME Stop PROVE OneOperation'
  BY <1>36, <1>0, NoneAssumption DEF Stop, Busy
<1>37. ASSUME Stopped PROVE OneOperation'
  BY <1>37, <1>0, NoneAssumption DEF Stopped, Busy
<1>. QED BY <1>1, <1>2, <1>3, <1>4, <1>5, <1>6, <1>7, <1>8, <1>9, <1>10, <1>11,
       <1>12, <1>13, <1>14, <1>15, <1>16, <1>17, <1>18, <1>19, <1>20, <1>21,
       <1>22, <1>23, <1>24, <1>25, <1>26, <1>27, <1>28, <1>29, <1>30, <1>31,
       <1>32, <1>33, <1>34, <1>35, <1>36, <1>37 DEF Next, Handle, EndOperation,
       Start, EndConnect, Shutdown

(* No step invalidates a session under an operation.                       *)
LEMMA ServesStep ==
    ASSUME IInv, Next
    PROVE  ServesOwnGeneration'
<1>0. TypeOK /\ ServesOwnGeneration /\ Placement /\ OneOperation /\ CloseDiscipline /\ ClosingLoop
  BY DEF IInv
<1>. USE DEF TypeOK, ServesOwnGeneration, Placement, OneOperation, CloseDiscipline, ClosingLoop, vars, daemonVars, entryVars, requestVars, storeVars
<1>1. ASSUME NEW r \in Requests, NEW k \in Keys, Call(r, k) PROVE ServesOwnGeneration'
  BY <1>1, <1>0, NoneAssumption DEF Call, Accepted, Step, Busy, Usable
<1>2. ASSUME NEW r \in Requests, Disconnect(r) PROVE ServesOwnGeneration'
  BY <1>2, <1>0, NoneAssumption DEF Disconnect, Busy, Usable
<1>3. ASSUME NEW r \in Requests, Reload(r) PROVE ServesOwnGeneration'
  BY <1>3, <1>0, NoneAssumption DEF Reload, Accepted, Withdraw, AfterClosing, Busy, Usable
<1>4. ASSUME NEW r \in Requests, Login(r) PROVE ServesOwnGeneration'
  BY <1>4, <1>0, NoneAssumption DEF Login, Accepted, Step, FreshCredential,
       StoreCredential, Busy, Usable
<1>5. ASSUME NEW r \in Requests, Logout(r) PROVE ServesOwnGeneration'
  BY <1>5, <1>0, NoneAssumption DEF Logout, Accepted, Step, StoreCredential, Busy, Usable
<1>6. ASSUME NEW r \in Requests, AcquireRefused(r) PROVE ServesOwnGeneration'
  BY <1>6, <1>0, NoneAssumption DEF AcquireRefused, Step, Busy, Usable
<1>7. ASSUME NEW r \in Requests, AcquireExisting(r) PROVE ServesOwnGeneration'
  BY <1>7, <1>0, NoneAssumption DEF AcquireExisting, Step, Busy, Usable
<1>8. ASSUME NEW r \in Requests, AcquireFresh(r) PROVE ServesOwnGeneration'
  BY <1>8, <1>0, NoneAssumption DEF AcquireFresh, Step, Busy, Usable
<1>9. ASSUME NEW r \in Requests, Lease(r) PROVE ServesOwnGeneration'
  BY <1>9, <1>0, NoneAssumption DEF Lease, Step, Busy, Usable
<1>10. ASSUME NEW r \in Requests, LeaseRefused(r) PROVE ServesOwnGeneration'
  BY <1>10, <1>0, NoneAssumption DEF LeaseRefused, Step, Busy, Usable
<1>11. ASSUME NEW r \in Requests, WaitCanceled(r) PROVE ServesOwnGeneration'
  BY <1>11, <1>0, NoneAssumption DEF WaitCanceled, Step, Busy, Usable
<1>12. ASSUME NEW r \in Requests, WaitAuthorizing(r) PROVE ServesOwnGeneration'
  BY <1>12, <1>0, NoneAssumption DEF WaitAuthorizing, Step, Busy, Usable
<1>13. ASSUME NEW r \in Requests, CheckCredential(r) PROVE ServesOwnGeneration'
  BY <1>13, <1>0, NoneAssumption DEF CheckCredential, Step, Busy, Usable
<1>14. ASSUME NEW r \in Requests, BeginOperation(r) PROVE ServesOwnGeneration'
  BY <1>14, <1>0, NoneAssumption DEF BeginOperation, Step, Busy, Usable
<1>15. ASSUME NEW r \in Requests, RefuseOperation(r) PROVE ServesOwnGeneration'
  BY <1>15, <1>0, NoneAssumption DEF RefuseOperation, Step, Busy, Usable
<1>16. ASSUME NEW r \in Requests, Release(r) PROVE ServesOwnGeneration'
  BY <1>16, <1>0, NoneAssumption DEF Release, Step, Busy, Usable
<1>17. ASSUME NEW r \in Requests, ConfirmLogin(r) PROVE ServesOwnGeneration'
  BY <1>17, <1>0, NoneAssumption DEF ConfirmLogin, Step, Busy, Usable
<1>18. ASSUME NEW r \in Requests, RetireCredential(r) PROVE ServesOwnGeneration'
  BY <1>18, <1>0, NoneAssumption DEF RetireCredential, Withdraw, AfterClosing, Busy,
       Usable
<1>19. ASSUME NEW r \in Requests, CloseRetired(r) PROVE ServesOwnGeneration'
  BY <1>19, <1>0, NoneAssumption DEF CloseRetired, Step, Busy, Usable
<1>20. ASSUME NEW r \in Requests, Forget(r) PROVE ServesOwnGeneration'
  BY <1>20, <1>0, NoneAssumption DEF Forget, Step, AfterClosing, Busy, Usable
<1>21. ASSUME NEW r \in Requests, FinishOperation(r) PROVE ServesOwnGeneration'
  BY <1>21, <1>0, NoneAssumption DEF FinishOperation, Step, Busy, Usable
<1>22. ASSUME NEW r \in Requests, LoseSession(r) PROVE ServesOwnGeneration'
  BY <1>22, <1>0, NoneAssumption DEF LoseSession, Step, Busy, Usable
<1>23. ASSUME NEW r \in Requests, AbandonOperation(r) PROVE ServesOwnGeneration'
  BY <1>23, <1>0, NoneAssumption DEF AbandonOperation, Step, Busy, Usable
<1>24. ASSUME NEW r \in Requests, Reauthorize(r) PROVE ServesOwnGeneration'
  BY <1>24, <1>0, NoneAssumption DEF Reauthorize, FreshCredential, StoreCredential,
       Busy, Usable
<1>25. ASSUME NEW e \in Requests, LoadTarget(e) PROVE ServesOwnGeneration'
  BY <1>25, <1>0, NoneAssumption DEF LoadTarget, EntryStep, Busy, Usable
<1>26. ASSUME NEW e \in Requests, Publish(e) PROVE ServesOwnGeneration'
  BY <1>26, <1>0, NoneAssumption DEF Publish, EntryStep, Busy, Usable
<1>27. ASSUME NEW e \in Requests, Discard(e) PROVE ServesOwnGeneration'
  BY <1>27, <1>0, NoneAssumption DEF Discard, EntryStep, PublishError, Busy, Usable
<1>28. ASSUME NEW e \in Requests, Connect(e) PROVE ServesOwnGeneration'
  BY <1>28, <1>0, NoneAssumption DEF Connect, EntryStep, Busy, Usable
<1>29. ASSUME NEW e \in Requests, StartFailed(e) PROVE ServesOwnGeneration'
  BY <1>29, <1>0, NoneAssumption DEF StartFailed, EntryStep, PublishError, Busy, Usable
<1>30. ASSUME NEW e \in Requests, BeginAuthorization(e) PROVE ServesOwnGeneration'
  BY <1>30, <1>0, NoneAssumption DEF BeginAuthorization, Busy, Usable
<1>31. ASSUME NEW e \in Requests, SaveAuthorization(e) PROVE ServesOwnGeneration'
  BY <1>31, <1>0, NoneAssumption DEF SaveAuthorization, FreshCredential,
       StoreCredential, Busy, Usable
<1>32. ASSUME DirectAuth PROVE ServesOwnGeneration'
  BY <1>32, <1>0, NoneAssumption DEF DirectAuth, FreshCredential, StoreCredential, Busy,
       Usable
<1>33. ASSUME CancelContext PROVE ServesOwnGeneration'
  BY <1>33, <1>0, NoneAssumption DEF CancelContext, Busy, Usable
<1>34. ASSUME MarkClosing PROVE ServesOwnGeneration'
  BY <1>34, <1>0, NoneAssumption DEF MarkClosing, Busy, Usable
<1>35. ASSUME CloseAtShutdown PROVE ServesOwnGeneration'
  BY <1>35, <1>0, NoneAssumption DEF CloseAtShutdown, Busy, Usable
<1>36. ASSUME Stop PROVE ServesOwnGeneration'
  BY <1>36, <1>0, NoneAssumption DEF Stop, Busy, Usable
<1>37. ASSUME Stopped PROVE ServesOwnGeneration'
  BY <1>37, <1>0, NoneAssumption DEF Stopped, Busy, Usable
<1>. QED BY <1>1, <1>2, <1>3, <1>4, <1>5, <1>6, <1>7, <1>8, <1>9, <1>10, <1>11,
       <1>12, <1>13, <1>14, <1>15, <1>16, <1>17, <1>18, <1>19, <1>20, <1>21,
       <1>22, <1>23, <1>24, <1>25, <1>26, <1>27, <1>28, <1>29, <1>30, <1>31,
       <1>32, <1>33, <1>34, <1>35, <1>36, <1>37 DEF Next, Handle, EndOperation,
       Start, EndConnect, Shutdown

(* Every change of the stored credential enters the histories.             *)
LEMMA StoredKnownStep ==
    ASSUME IInv, Next
    PROVE  StoredKnown'
<1>0. TypeOK /\ StoredKnown /\ Placement
  BY DEF IInv
<1>. USE DEF TypeOK, StoredKnown, Placement, vars, daemonVars, entryVars, requestVars, storeVars
<1>1. ASSUME NEW r \in Requests, NEW k \in Keys, Call(r, k) PROVE StoredKnown'
  BY <1>1, <1>0, NoneAssumption DEF Call, Accepted, Step
<1>2. ASSUME NEW r \in Requests, Disconnect(r) PROVE StoredKnown'
  BY <1>2, <1>0, NoneAssumption DEF Disconnect
<1>3. ASSUME NEW r \in Requests, Reload(r) PROVE StoredKnown'
  BY <1>3, <1>0, NoneAssumption DEF Reload, Accepted, Withdraw, AfterClosing
<1>4. ASSUME NEW r \in Requests, Login(r) PROVE StoredKnown'
  BY <1>4, <1>0, NoneAssumption DEF Login, Accepted, Step, FreshCredential,
       StoreCredential
<1>5. ASSUME NEW r \in Requests, Logout(r) PROVE StoredKnown'
  BY <1>5, <1>0, NoneAssumption DEF Logout, Accepted, Step, StoreCredential
<1>6. ASSUME NEW r \in Requests, AcquireRefused(r) PROVE StoredKnown'
  BY <1>6, <1>0, NoneAssumption DEF AcquireRefused, Step
<1>7. ASSUME NEW r \in Requests, AcquireExisting(r) PROVE StoredKnown'
  BY <1>7, <1>0, NoneAssumption DEF AcquireExisting, Step
<1>8. ASSUME NEW r \in Requests, AcquireFresh(r) PROVE StoredKnown'
  BY <1>8, <1>0, NoneAssumption DEF AcquireFresh, Step
<1>9. ASSUME NEW r \in Requests, Lease(r) PROVE StoredKnown'
  BY <1>9, <1>0, NoneAssumption DEF Lease, Step
<1>10. ASSUME NEW r \in Requests, LeaseRefused(r) PROVE StoredKnown'
  BY <1>10, <1>0, NoneAssumption DEF LeaseRefused, Step
<1>11. ASSUME NEW r \in Requests, WaitCanceled(r) PROVE StoredKnown'
  BY <1>11, <1>0, NoneAssumption DEF WaitCanceled, Step
<1>12. ASSUME NEW r \in Requests, WaitAuthorizing(r) PROVE StoredKnown'
  BY <1>12, <1>0, NoneAssumption DEF WaitAuthorizing, Step
<1>13. ASSUME NEW r \in Requests, CheckCredential(r) PROVE StoredKnown'
  BY <1>13, <1>0, NoneAssumption DEF CheckCredential, Step
<1>14. ASSUME NEW r \in Requests, BeginOperation(r) PROVE StoredKnown'
  BY <1>14, <1>0, NoneAssumption DEF BeginOperation, Step
<1>15. ASSUME NEW r \in Requests, RefuseOperation(r) PROVE StoredKnown'
  BY <1>15, <1>0, NoneAssumption DEF RefuseOperation, Step
<1>16. ASSUME NEW r \in Requests, Release(r) PROVE StoredKnown'
  BY <1>16, <1>0, NoneAssumption DEF Release, Step
<1>17. ASSUME NEW r \in Requests, ConfirmLogin(r) PROVE StoredKnown'
  BY <1>17, <1>0, NoneAssumption DEF ConfirmLogin, Step
<1>18. ASSUME NEW r \in Requests, RetireCredential(r) PROVE StoredKnown'
  BY <1>18, <1>0, NoneAssumption DEF RetireCredential, Withdraw, AfterClosing
<1>19. ASSUME NEW r \in Requests, CloseRetired(r) PROVE StoredKnown'
  BY <1>19, <1>0, NoneAssumption DEF CloseRetired, Step
<1>20. ASSUME NEW r \in Requests, Forget(r) PROVE StoredKnown'
  BY <1>20, <1>0, NoneAssumption DEF Forget, Step, AfterClosing
<1>21. ASSUME NEW r \in Requests, FinishOperation(r) PROVE StoredKnown'
  BY <1>21, <1>0, NoneAssumption DEF FinishOperation, Step
<1>22. ASSUME NEW r \in Requests, LoseSession(r) PROVE StoredKnown'
  BY <1>22, <1>0, NoneAssumption DEF LoseSession, Step
<1>23. ASSUME NEW r \in Requests, AbandonOperation(r) PROVE StoredKnown'
  BY <1>23, <1>0, NoneAssumption DEF AbandonOperation, Step
<1>24. ASSUME NEW r \in Requests, Reauthorize(r) PROVE StoredKnown'
  BY <1>24, <1>0, NoneAssumption DEF Reauthorize, FreshCredential, StoreCredential
<1>25. ASSUME NEW e \in Requests, LoadTarget(e) PROVE StoredKnown'
  BY <1>25, <1>0, NoneAssumption DEF LoadTarget, EntryStep
<1>26. ASSUME NEW e \in Requests, Publish(e) PROVE StoredKnown'
  BY <1>26, <1>0, NoneAssumption DEF Publish, EntryStep
<1>27. ASSUME NEW e \in Requests, Discard(e) PROVE StoredKnown'
  BY <1>27, <1>0, NoneAssumption DEF Discard, EntryStep, PublishError
<1>28. ASSUME NEW e \in Requests, Connect(e) PROVE StoredKnown'
  BY <1>28, <1>0, NoneAssumption DEF Connect, EntryStep
<1>29. ASSUME NEW e \in Requests, StartFailed(e) PROVE StoredKnown'
  BY <1>29, <1>0, NoneAssumption DEF StartFailed, EntryStep, PublishError
<1>30. ASSUME NEW e \in Requests, BeginAuthorization(e) PROVE StoredKnown'
  BY <1>30, <1>0, NoneAssumption DEF BeginAuthorization
<1>31. ASSUME NEW e \in Requests, SaveAuthorization(e) PROVE StoredKnown'
  BY <1>31, <1>0, NoneAssumption DEF SaveAuthorization, FreshCredential, StoreCredential
<1>32. ASSUME DirectAuth PROVE StoredKnown'
  BY <1>32, <1>0, NoneAssumption DEF DirectAuth, FreshCredential, StoreCredential
<1>33. ASSUME CancelContext PROVE StoredKnown'
  BY <1>33, <1>0, NoneAssumption DEF CancelContext
<1>34. ASSUME MarkClosing PROVE StoredKnown'
  BY <1>34, <1>0, NoneAssumption DEF MarkClosing
<1>35. ASSUME CloseAtShutdown PROVE StoredKnown'
  BY <1>35, <1>0, NoneAssumption DEF CloseAtShutdown
<1>36. ASSUME Stop PROVE StoredKnown'
  BY <1>36, <1>0, NoneAssumption DEF Stop
<1>37. ASSUME Stopped PROVE StoredKnown'
  BY <1>37, <1>0, NoneAssumption DEF Stopped
<1>. QED BY <1>1, <1>2, <1>3, <1>4, <1>5, <1>6, <1>7, <1>8, <1>9, <1>10, <1>11,
       <1>12, <1>13, <1>14, <1>15, <1>16, <1>17, <1>18, <1>19, <1>20, <1>21,
       <1>22, <1>23, <1>24, <1>25, <1>26, <1>27, <1>28, <1>29, <1>30, <1>31,
       <1>32, <1>33, <1>34, <1>35, <1>36, <1>37 DEF Next, Handle, EndOperation,
       Start, EndConnect, Shutdown

(* Only OAuth entries come to hold a credential.                           *)
LEMMA CredentialHeldStep ==
    ASSUME IInv, Next
    PROVE  CredentialHeld'
<1>0. TypeOK /\ CredentialHeld /\ Placement
  BY DEF IInv
<1>. USE DEF TypeOK, CredentialHeld, Placement, vars, daemonVars, entryVars, requestVars, storeVars
<1>1. ASSUME NEW r \in Requests, NEW k \in Keys, Call(r, k) PROVE CredentialHeld'
  BY <1>1, <1>0, NoneAssumption DEF Call, Accepted, Step
<1>2. ASSUME NEW r \in Requests, Disconnect(r) PROVE CredentialHeld'
  BY <1>2, <1>0, NoneAssumption DEF Disconnect
<1>3. ASSUME NEW r \in Requests, Reload(r) PROVE CredentialHeld'
  BY <1>3, <1>0, NoneAssumption DEF Reload, Accepted, Withdraw, AfterClosing
<1>4. ASSUME NEW r \in Requests, Login(r) PROVE CredentialHeld'
  BY <1>4, <1>0, NoneAssumption DEF Login, Accepted, Step, FreshCredential,
       StoreCredential
<1>5. ASSUME NEW r \in Requests, Logout(r) PROVE CredentialHeld'
  BY <1>5, <1>0, NoneAssumption DEF Logout, Accepted, Step, StoreCredential
<1>6. ASSUME NEW r \in Requests, AcquireRefused(r) PROVE CredentialHeld'
  BY <1>6, <1>0, NoneAssumption DEF AcquireRefused, Step
<1>7. ASSUME NEW r \in Requests, AcquireExisting(r) PROVE CredentialHeld'
  BY <1>7, <1>0, NoneAssumption DEF AcquireExisting, Step
<1>8. ASSUME NEW r \in Requests, AcquireFresh(r) PROVE CredentialHeld'
  BY <1>8, <1>0, NoneAssumption DEF AcquireFresh, Step
<1>9. ASSUME NEW r \in Requests, Lease(r) PROVE CredentialHeld'
  BY <1>9, <1>0, NoneAssumption DEF Lease, Step
<1>10. ASSUME NEW r \in Requests, LeaseRefused(r) PROVE CredentialHeld'
  BY <1>10, <1>0, NoneAssumption DEF LeaseRefused, Step
<1>11. ASSUME NEW r \in Requests, WaitCanceled(r) PROVE CredentialHeld'
  BY <1>11, <1>0, NoneAssumption DEF WaitCanceled, Step
<1>12. ASSUME NEW r \in Requests, WaitAuthorizing(r) PROVE CredentialHeld'
  BY <1>12, <1>0, NoneAssumption DEF WaitAuthorizing, Step
<1>13. ASSUME NEW r \in Requests, CheckCredential(r) PROVE CredentialHeld'
  BY <1>13, <1>0, NoneAssumption DEF CheckCredential, Step
<1>14. ASSUME NEW r \in Requests, BeginOperation(r) PROVE CredentialHeld'
  BY <1>14, <1>0, NoneAssumption DEF BeginOperation, Step
<1>15. ASSUME NEW r \in Requests, RefuseOperation(r) PROVE CredentialHeld'
  BY <1>15, <1>0, NoneAssumption DEF RefuseOperation, Step
<1>16. ASSUME NEW r \in Requests, Release(r) PROVE CredentialHeld'
  BY <1>16, <1>0, NoneAssumption DEF Release, Step
<1>17. ASSUME NEW r \in Requests, ConfirmLogin(r) PROVE CredentialHeld'
  BY <1>17, <1>0, NoneAssumption DEF ConfirmLogin, Step
<1>18. ASSUME NEW r \in Requests, RetireCredential(r) PROVE CredentialHeld'
  BY <1>18, <1>0, NoneAssumption DEF RetireCredential, Withdraw, AfterClosing
<1>19. ASSUME NEW r \in Requests, CloseRetired(r) PROVE CredentialHeld'
  BY <1>19, <1>0, NoneAssumption DEF CloseRetired, Step
<1>20. ASSUME NEW r \in Requests, Forget(r) PROVE CredentialHeld'
  BY <1>20, <1>0, NoneAssumption DEF Forget, Step, AfterClosing
<1>21. ASSUME NEW r \in Requests, FinishOperation(r) PROVE CredentialHeld'
  BY <1>21, <1>0, NoneAssumption DEF FinishOperation, Step
<1>22. ASSUME NEW r \in Requests, LoseSession(r) PROVE CredentialHeld'
  BY <1>22, <1>0, NoneAssumption DEF LoseSession, Step
<1>23. ASSUME NEW r \in Requests, AbandonOperation(r) PROVE CredentialHeld'
  BY <1>23, <1>0, NoneAssumption DEF AbandonOperation, Step
<1>24. ASSUME NEW r \in Requests, Reauthorize(r) PROVE CredentialHeld'
  <2>1. logins + 1 \in 0..MaxLogins
    BY <1>24, <1>0, BoundsAssumption DEF Reauthorize, FreshCredential
  <2>. QED BY <1>24, <1>0, <2>1, NoneAssumption DEF Reauthorize
<1>25. ASSUME NEW e \in Requests, LoadTarget(e) PROVE CredentialHeld'
  BY <1>25, <1>0, NoneAssumption DEF LoadTarget, EntryStep
<1>26. ASSUME NEW e \in Requests, Publish(e) PROVE CredentialHeld'
  BY <1>26, <1>0, NoneAssumption DEF Publish, EntryStep
<1>27. ASSUME NEW e \in Requests, Discard(e) PROVE CredentialHeld'
  BY <1>27, <1>0, NoneAssumption DEF Discard, EntryStep, PublishError
<1>28. ASSUME NEW e \in Requests, Connect(e) PROVE CredentialHeld'
  BY <1>28, <1>0, NoneAssumption DEF Connect, EntryStep
<1>29. ASSUME NEW e \in Requests, StartFailed(e) PROVE CredentialHeld'
  BY <1>29, <1>0, NoneAssumption DEF StartFailed, EntryStep, PublishError
<1>30. ASSUME NEW e \in Requests, BeginAuthorization(e) PROVE CredentialHeld'
  BY <1>30, <1>0, NoneAssumption DEF BeginAuthorization
<1>31. ASSUME NEW e \in Requests, SaveAuthorization(e) PROVE CredentialHeld'
  <2>1. logins + 1 \in 0..MaxLogins
    BY <1>31, <1>0, BoundsAssumption DEF SaveAuthorization, FreshCredential
  <2>. QED BY <1>31, <1>0, <2>1, NoneAssumption DEF SaveAuthorization
<1>32. ASSUME DirectAuth PROVE CredentialHeld'
  BY <1>32, <1>0, NoneAssumption DEF DirectAuth, FreshCredential, StoreCredential
<1>33. ASSUME CancelContext PROVE CredentialHeld'
  BY <1>33, <1>0, NoneAssumption DEF CancelContext
<1>34. ASSUME MarkClosing PROVE CredentialHeld'
  BY <1>34, <1>0, NoneAssumption DEF MarkClosing
<1>35. ASSUME CloseAtShutdown PROVE CredentialHeld'
  BY <1>35, <1>0, NoneAssumption DEF CloseAtShutdown
<1>36. ASSUME Stop PROVE CredentialHeld'
  BY <1>36, <1>0, NoneAssumption DEF Stop
<1>37. ASSUME Stopped PROVE CredentialHeld'
  BY <1>37, <1>0, NoneAssumption DEF Stopped
<1>. QED BY <1>1, <1>2, <1>3, <1>4, <1>5, <1>6, <1>7, <1>8, <1>9, <1>10, <1>11,
       <1>12, <1>13, <1>14, <1>15, <1>16, <1>17, <1>18, <1>19, <1>20, <1>21,
       <1>22, <1>23, <1>24, <1>25, <1>26, <1>27, <1>28, <1>29, <1>30, <1>31,
       <1>32, <1>33, <1>34, <1>35, <1>36, <1>37 DEF Next, Handle, EndOperation,
       Start, EndConnect, Shutdown

(* A request that passed CredentialsCurrent stays entitled to its session. *)
LEMMA CredentialFreshStep ==
    ASSUME IInv, Next
    PROVE  CredentialFresh'
<1>0. TypeOK /\ CredentialFresh /\ Placement /\ StoredKnown /\ CredentialHeld
  BY DEF IInv
<1>. USE DEF TypeOK, CredentialFresh, Placement, StoredKnown, CredentialHeld, vars, daemonVars, entryVars, requestVars, storeVars
<1>1. ASSUME NEW r \in Requests, NEW k \in Keys, Call(r, k) PROVE CredentialFresh'
  BY <1>1, <1>0, NoneAssumption DEF Call, Accepted, Step
<1>2. ASSUME NEW r \in Requests, Disconnect(r) PROVE CredentialFresh'
  BY <1>2, <1>0, NoneAssumption DEF Disconnect
<1>3. ASSUME NEW r \in Requests, Reload(r) PROVE CredentialFresh'
  BY <1>3, <1>0, NoneAssumption DEF Reload, Accepted, Withdraw, AfterClosing
<1>4. ASSUME NEW r \in Requests, Login(r) PROVE CredentialFresh'
  BY <1>4, <1>0, NoneAssumption DEF Login, Accepted, Step, FreshCredential,
       StoreCredential
<1>5. ASSUME NEW r \in Requests, Logout(r) PROVE CredentialFresh'
  BY <1>5, <1>0, NoneAssumption DEF Logout, Accepted, Step, StoreCredential
<1>6. ASSUME NEW r \in Requests, AcquireRefused(r) PROVE CredentialFresh'
  BY <1>6, <1>0, NoneAssumption DEF AcquireRefused, Step
<1>7. ASSUME NEW r \in Requests, AcquireExisting(r) PROVE CredentialFresh'
  BY <1>7, <1>0, NoneAssumption DEF AcquireExisting, Step
<1>8. ASSUME NEW r \in Requests, AcquireFresh(r) PROVE CredentialFresh'
  BY <1>8, <1>0, NoneAssumption DEF AcquireFresh, Step
<1>9. ASSUME NEW r \in Requests, Lease(r) PROVE CredentialFresh'
  BY <1>9, <1>0, NoneAssumption DEF Lease, Step
<1>10. ASSUME NEW r \in Requests, LeaseRefused(r) PROVE CredentialFresh'
  BY <1>10, <1>0, NoneAssumption DEF LeaseRefused, Step
<1>11. ASSUME NEW r \in Requests, WaitCanceled(r) PROVE CredentialFresh'
  BY <1>11, <1>0, NoneAssumption DEF WaitCanceled, Step
<1>12. ASSUME NEW r \in Requests, WaitAuthorizing(r) PROVE CredentialFresh'
  BY <1>12, <1>0, NoneAssumption DEF WaitAuthorizing, Step
<1>13. ASSUME NEW r \in Requests, CheckCredential(r) PROVE CredentialFresh'
  BY <1>13, <1>0, NoneAssumption DEF CheckCredential, Step
<1>14. ASSUME NEW r \in Requests, BeginOperation(r) PROVE CredentialFresh'
  BY <1>14, <1>0, NoneAssumption DEF BeginOperation, Step
<1>15. ASSUME NEW r \in Requests, RefuseOperation(r) PROVE CredentialFresh'
  BY <1>15, <1>0, NoneAssumption DEF RefuseOperation, Step
<1>16. ASSUME NEW r \in Requests, Release(r) PROVE CredentialFresh'
  BY <1>16, <1>0, NoneAssumption DEF Release, Step
<1>17. ASSUME NEW r \in Requests, ConfirmLogin(r) PROVE CredentialFresh'
  BY <1>17, <1>0, NoneAssumption DEF ConfirmLogin, Step
<1>18. ASSUME NEW r \in Requests, RetireCredential(r) PROVE CredentialFresh'
  BY <1>18, <1>0, NoneAssumption DEF RetireCredential, Withdraw, AfterClosing
<1>19. ASSUME NEW r \in Requests, CloseRetired(r) PROVE CredentialFresh'
  BY <1>19, <1>0, NoneAssumption DEF CloseRetired, Step
<1>20. ASSUME NEW r \in Requests, Forget(r) PROVE CredentialFresh'
  BY <1>20, <1>0, NoneAssumption DEF Forget, Step, AfterClosing
<1>21. ASSUME NEW r \in Requests, FinishOperation(r) PROVE CredentialFresh'
  BY <1>21, <1>0, NoneAssumption DEF FinishOperation, Step
<1>22. ASSUME NEW r \in Requests, LoseSession(r) PROVE CredentialFresh'
  BY <1>22, <1>0, NoneAssumption DEF LoseSession, Step
<1>23. ASSUME NEW r \in Requests, AbandonOperation(r) PROVE CredentialFresh'
  BY <1>23, <1>0, NoneAssumption DEF AbandonOperation, Step
<1>24. ASSUME NEW r \in Requests, Reauthorize(r) PROVE CredentialFresh'
  BY <1>24, <1>0, NoneAssumption DEF Reauthorize, FreshCredential, StoreCredential
<1>25. ASSUME NEW e \in Requests, LoadTarget(e) PROVE CredentialFresh'
  BY <1>25, <1>0, NoneAssumption DEF LoadTarget, EntryStep
<1>26. ASSUME NEW e \in Requests, Publish(e) PROVE CredentialFresh'
  BY <1>26, <1>0, NoneAssumption DEF Publish, EntryStep
<1>27. ASSUME NEW e \in Requests, Discard(e) PROVE CredentialFresh'
  BY <1>27, <1>0, NoneAssumption DEF Discard, EntryStep, PublishError
<1>28. ASSUME NEW e \in Requests, Connect(e) PROVE CredentialFresh'
  BY <1>28, <1>0, NoneAssumption DEF Connect, EntryStep
<1>29. ASSUME NEW e \in Requests, StartFailed(e) PROVE CredentialFresh'
  BY <1>29, <1>0, NoneAssumption DEF StartFailed, EntryStep, PublishError
<1>30. ASSUME NEW e \in Requests, BeginAuthorization(e) PROVE CredentialFresh'
  BY <1>30, <1>0, NoneAssumption DEF BeginAuthorization
<1>31. ASSUME NEW e \in Requests, SaveAuthorization(e) PROVE CredentialFresh'
  BY <1>31, <1>0, NoneAssumption DEF SaveAuthorization, FreshCredential, StoreCredential
<1>32. ASSUME DirectAuth PROVE CredentialFresh'
  BY <1>32, <1>0, NoneAssumption DEF DirectAuth, FreshCredential, StoreCredential
<1>33. ASSUME CancelContext PROVE CredentialFresh'
  BY <1>33, <1>0, NoneAssumption DEF CancelContext
<1>34. ASSUME MarkClosing PROVE CredentialFresh'
  BY <1>34, <1>0, NoneAssumption DEF MarkClosing
<1>35. ASSUME CloseAtShutdown PROVE CredentialFresh'
  BY <1>35, <1>0, NoneAssumption DEF CloseAtShutdown
<1>36. ASSUME Stop PROVE CredentialFresh'
  BY <1>36, <1>0, NoneAssumption DEF Stop
<1>37. ASSUME Stopped PROVE CredentialFresh'
  BY <1>37, <1>0, NoneAssumption DEF Stopped
<1>. QED BY <1>1, <1>2, <1>3, <1>4, <1>5, <1>6, <1>7, <1>8, <1>9, <1>10, <1>11,
       <1>12, <1>13, <1>14, <1>15, <1>16, <1>17, <1>18, <1>19, <1>20, <1>21,
       <1>22, <1>23, <1>24, <1>25, <1>26, <1>27, <1>28, <1>29, <1>30, <1>31,
       <1>32, <1>33, <1>34, <1>35, <1>36, <1>37 DEF Next, Handle, EndOperation,
       Start, EndConnect, Shutdown

(* No step drops the last reference to an open session.                    *)
LEMMA NoLostStep ==
    ASSUME IInv, Next
    PROVE  NoLostSession'
<1>0. TypeOK /\ NoLostSession /\ Placement /\ PoolsCurrent /\ OneOfferedSession /\ ClosingLoop /\ CloseDiscipline
  BY DEF IInv
<1>. USE DEF TypeOK, NoLostSession, Placement, PoolsCurrent, OneOfferedSession, ClosingLoop, CloseDiscipline, vars, daemonVars, entryVars, requestVars, storeVars
<1>1. ASSUME NEW r \in Requests, NEW k \in Keys, Call(r, k) PROVE NoLostSession'
  BY <1>1, <1>0, NoneAssumption DEF Call, Accepted, Step, Offered, Open, Closing,
       Outdated, Pooled
<1>2. ASSUME NEW r \in Requests, Disconnect(r) PROVE NoLostSession'
  BY <1>2, <1>0, NoneAssumption DEF Disconnect, Offered, Open, Closing, Outdated, Pooled
<1>3. ASSUME NEW r \in Requests, Reload(r) PROVE NoLostSession'
  BY <1>3, <1>0, NoneAssumption DEF Reload, Accepted, Withdraw, AfterClosing, Offered,
       Open, Closing, Outdated, Pooled
<1>4. ASSUME NEW r \in Requests, Login(r) PROVE NoLostSession'
  BY <1>4, <1>0, NoneAssumption DEF Login, Accepted, Step, FreshCredential,
       StoreCredential, Offered, Open, Closing, Outdated, Pooled
<1>5. ASSUME NEW r \in Requests, Logout(r) PROVE NoLostSession'
  BY <1>5, <1>0, NoneAssumption DEF Logout, Accepted, Step, StoreCredential, Offered,
       Open, Closing, Outdated, Pooled
<1>6. ASSUME NEW r \in Requests, AcquireRefused(r) PROVE NoLostSession'
  BY <1>6, <1>0, NoneAssumption DEF AcquireRefused, Step, Offered, Open, Closing,
       Outdated, Pooled
<1>7. ASSUME NEW r \in Requests, AcquireExisting(r) PROVE NoLostSession'
  BY <1>7, <1>0, NoneAssumption DEF AcquireExisting, Step, Offered, Open, Closing,
       Outdated, Pooled
<1>8. ASSUME NEW r \in Requests, AcquireFresh(r) PROVE NoLostSession'
  BY <1>8, <1>0, NoneAssumption DEF AcquireFresh, Step, Offered, Open, Closing,
       Outdated, Pooled
<1>9. ASSUME NEW r \in Requests, Lease(r) PROVE NoLostSession'
  BY <1>9, <1>0, NoneAssumption DEF Lease, Step, Offered, Open, Closing, Outdated, Pooled
<1>10. ASSUME NEW r \in Requests, LeaseRefused(r) PROVE NoLostSession'
  BY <1>10, <1>0, NoneAssumption DEF LeaseRefused, Step, Offered, Open, Closing,
       Outdated, Pooled
<1>11. ASSUME NEW r \in Requests, WaitCanceled(r) PROVE NoLostSession'
  BY <1>11, <1>0, NoneAssumption DEF WaitCanceled, Step, Offered, Open, Closing,
       Outdated, Pooled
<1>12. ASSUME NEW r \in Requests, WaitAuthorizing(r) PROVE NoLostSession'
  BY <1>12, <1>0, NoneAssumption DEF WaitAuthorizing, Step, Offered, Open, Closing,
       Outdated, Pooled
<1>13. ASSUME NEW r \in Requests, CheckCredential(r) PROVE NoLostSession'
  BY <1>13, <1>0, NoneAssumption DEF CheckCredential, Step, Offered, Open, Closing,
       Outdated, Pooled
<1>14. ASSUME NEW r \in Requests, BeginOperation(r) PROVE NoLostSession'
  BY <1>14, <1>0, NoneAssumption DEF BeginOperation, Step, Offered, Open, Closing,
       Outdated, Pooled
<1>15. ASSUME NEW r \in Requests, RefuseOperation(r) PROVE NoLostSession'
  BY <1>15, <1>0, NoneAssumption DEF RefuseOperation, Step, Offered, Open, Closing,
       Outdated, Pooled
<1>16. ASSUME NEW r \in Requests, Release(r) PROVE NoLostSession'
  BY <1>16, <1>0, NoneAssumption DEF Release, Step, Offered, Open, Closing, Outdated,
       Pooled
<1>17. ASSUME NEW r \in Requests, ConfirmLogin(r) PROVE NoLostSession'
  BY <1>17, <1>0, NoneAssumption DEF ConfirmLogin, Step, Offered, Open, Closing,
       Outdated, Pooled
<1>18. ASSUME NEW r \in Requests, RetireCredential(r) PROVE NoLostSession'
  BY <1>18, <1>0, NoneAssumption DEF RetireCredential, Withdraw, AfterClosing, Offered,
       Open, Closing, Outdated, Pooled
<1>19. ASSUME NEW r \in Requests, CloseRetired(r) PROVE NoLostSession'
  BY <1>19, <1>0, NoneAssumption DEF CloseRetired, Step, Offered, Open, Closing,
       Outdated, Pooled
<1>20. ASSUME NEW r \in Requests, Forget(r) PROVE NoLostSession'
  BY <1>20, <1>0, NoneAssumption DEF Forget, Step, AfterClosing, Offered, Open, Closing,
       Outdated, Pooled
<1>21. ASSUME NEW r \in Requests, FinishOperation(r) PROVE NoLostSession'
  BY <1>21, <1>0, NoneAssumption DEF FinishOperation, Step, Offered, Open, Closing,
       Outdated, Pooled
<1>22. ASSUME NEW r \in Requests, LoseSession(r) PROVE NoLostSession'
  BY <1>22, <1>0, NoneAssumption DEF LoseSession, Step, Offered, Open, Closing,
       Outdated, Pooled
<1>23. ASSUME NEW r \in Requests, AbandonOperation(r) PROVE NoLostSession'
  BY <1>23, <1>0, NoneAssumption DEF AbandonOperation, Step, Offered, Open, Closing,
       Outdated, Pooled
<1>24. ASSUME NEW r \in Requests, Reauthorize(r) PROVE NoLostSession'
  BY <1>24, <1>0, NoneAssumption DEF Reauthorize, FreshCredential, StoreCredential,
       Offered, Open, Closing, Outdated, Pooled
<1>25. ASSUME NEW e \in Requests, LoadTarget(e) PROVE NoLostSession'
  BY <1>25, <1>0, NoneAssumption DEF LoadTarget, EntryStep, Offered, Open, Closing,
       Outdated, Pooled
<1>26. ASSUME NEW e \in Requests, Publish(e) PROVE NoLostSession'
  BY <1>26, <1>0, NoneAssumption DEF Publish, EntryStep, Offered, Open, Closing,
       Outdated, Pooled
<1>27. ASSUME NEW e \in Requests, Discard(e) PROVE NoLostSession'
  BY <1>27, <1>0, NoneAssumption DEF Discard, EntryStep, PublishError, Offered, Open,
       Closing, Outdated, Pooled
<1>28. ASSUME NEW e \in Requests, Connect(e) PROVE NoLostSession'
  BY <1>28, <1>0, NoneAssumption DEF Connect, EntryStep, Offered, Open, Closing,
       Outdated, Pooled
<1>29. ASSUME NEW e \in Requests, StartFailed(e) PROVE NoLostSession'
  BY <1>29, <1>0, NoneAssumption DEF StartFailed, EntryStep, PublishError, Offered,
       Open, Closing, Outdated, Pooled
<1>30. ASSUME NEW e \in Requests, BeginAuthorization(e) PROVE NoLostSession'
  BY <1>30, <1>0, NoneAssumption DEF BeginAuthorization, Offered, Open, Closing,
       Outdated, Pooled
<1>31. ASSUME NEW e \in Requests, SaveAuthorization(e) PROVE NoLostSession'
  BY <1>31, <1>0, NoneAssumption DEF SaveAuthorization, FreshCredential,
       StoreCredential, Offered, Open, Closing, Outdated, Pooled
<1>32. ASSUME DirectAuth PROVE NoLostSession'
  BY <1>32, <1>0, NoneAssumption DEF DirectAuth, FreshCredential, StoreCredential,
       Offered, Open, Closing, Outdated, Pooled
<1>33. ASSUME CancelContext PROVE NoLostSession'
  BY <1>33, <1>0, NoneAssumption DEF CancelContext, Offered, Open, Closing, Outdated,
       Pooled
<1>34. ASSUME MarkClosing PROVE NoLostSession'
  BY <1>34, <1>0, NoneAssumption DEF MarkClosing, Offered, Open, Closing, Outdated, Pooled
<1>35. ASSUME CloseAtShutdown PROVE NoLostSession'
  BY <1>35, <1>0, NoneAssumption DEF CloseAtShutdown, Offered, Open, Closing, Outdated,
       Pooled
<1>36. ASSUME Stop PROVE NoLostSession'
  BY <1>36, <1>0, NoneAssumption DEF Stop, Offered, Open, Closing, Outdated, Pooled
<1>37. ASSUME Stopped PROVE NoLostSession'
  BY <1>37, <1>0, NoneAssumption DEF Stopped, Offered, Open, Closing, Outdated, Pooled
<1>. QED BY <1>1, <1>2, <1>3, <1>4, <1>5, <1>6, <1>7, <1>8, <1>9, <1>10, <1>11,
       <1>12, <1>13, <1>14, <1>15, <1>16, <1>17, <1>18, <1>19, <1>20, <1>21,
       <1>22, <1>23, <1>24, <1>25, <1>26, <1>27, <1>28, <1>29, <1>30, <1>31,
       <1>32, <1>33, <1>34, <1>35, <1>36, <1>37 DEF Next, Handle, EndOperation,
       Start, EndConnect, Shutdown

(* Once wg.Wait returned nothing starts or is left to close.               *)
LEMMA DownStep ==
    ASSUME IInv, Next
    PROVE  DownIsFinal'
<1>0. TypeOK /\ DownIsFinal /\ Placement
  BY DEF IInv
<1>. USE DEF TypeOK, DownIsFinal, Placement, vars, daemonVars, entryVars, requestVars, storeVars
<1>1. ASSUME NEW r \in Requests, NEW k \in Keys, Call(r, k) PROVE DownIsFinal'
  BY <1>1, <1>0, NoneAssumption DEF Call, Accepted, Step, Starting, Closing, Outdated
<1>2. ASSUME NEW r \in Requests, Disconnect(r) PROVE DownIsFinal'
  BY <1>2, <1>0, NoneAssumption DEF Disconnect, Starting, Closing, Outdated
<1>3. ASSUME NEW r \in Requests, Reload(r) PROVE DownIsFinal'
  BY <1>3, <1>0, NoneAssumption DEF Reload, Accepted, Withdraw, AfterClosing, Starting,
       Closing, Outdated
<1>4. ASSUME NEW r \in Requests, Login(r) PROVE DownIsFinal'
  BY <1>4, <1>0, NoneAssumption DEF Login, Accepted, Step, FreshCredential,
       StoreCredential, Starting, Closing, Outdated
<1>5. ASSUME NEW r \in Requests, Logout(r) PROVE DownIsFinal'
  BY <1>5, <1>0, NoneAssumption DEF Logout, Accepted, Step, StoreCredential, Starting,
       Closing, Outdated
<1>6. ASSUME NEW r \in Requests, AcquireRefused(r) PROVE DownIsFinal'
  BY <1>6, <1>0, NoneAssumption DEF AcquireRefused, Step, Starting, Closing, Outdated
<1>7. ASSUME NEW r \in Requests, AcquireExisting(r) PROVE DownIsFinal'
  BY <1>7, <1>0, NoneAssumption DEF AcquireExisting, Step, Starting, Closing, Outdated
<1>8. ASSUME NEW r \in Requests, AcquireFresh(r) PROVE DownIsFinal'
  BY <1>8, <1>0, NoneAssumption DEF AcquireFresh, Step, Starting, Closing, Outdated
<1>9. ASSUME NEW r \in Requests, Lease(r) PROVE DownIsFinal'
  BY <1>9, <1>0, NoneAssumption DEF Lease, Step, Starting, Closing, Outdated
<1>10. ASSUME NEW r \in Requests, LeaseRefused(r) PROVE DownIsFinal'
  BY <1>10, <1>0, NoneAssumption DEF LeaseRefused, Step, Starting, Closing, Outdated
<1>11. ASSUME NEW r \in Requests, WaitCanceled(r) PROVE DownIsFinal'
  BY <1>11, <1>0, NoneAssumption DEF WaitCanceled, Step, Starting, Closing, Outdated
<1>12. ASSUME NEW r \in Requests, WaitAuthorizing(r) PROVE DownIsFinal'
  BY <1>12, <1>0, NoneAssumption DEF WaitAuthorizing, Step, Starting, Closing, Outdated
<1>13. ASSUME NEW r \in Requests, CheckCredential(r) PROVE DownIsFinal'
  BY <1>13, <1>0, NoneAssumption DEF CheckCredential, Step, Starting, Closing, Outdated
<1>14. ASSUME NEW r \in Requests, BeginOperation(r) PROVE DownIsFinal'
  BY <1>14, <1>0, NoneAssumption DEF BeginOperation, Step, Starting, Closing, Outdated
<1>15. ASSUME NEW r \in Requests, RefuseOperation(r) PROVE DownIsFinal'
  BY <1>15, <1>0, NoneAssumption DEF RefuseOperation, Step, Starting, Closing, Outdated
<1>16. ASSUME NEW r \in Requests, Release(r) PROVE DownIsFinal'
  BY <1>16, <1>0, NoneAssumption DEF Release, Step, Starting, Closing, Outdated
<1>17. ASSUME NEW r \in Requests, ConfirmLogin(r) PROVE DownIsFinal'
  BY <1>17, <1>0, NoneAssumption DEF ConfirmLogin, Step, Starting, Closing, Outdated
<1>18. ASSUME NEW r \in Requests, RetireCredential(r) PROVE DownIsFinal'
  BY <1>18, <1>0, NoneAssumption DEF RetireCredential, Withdraw, AfterClosing, Starting,
       Closing, Outdated
<1>19. ASSUME NEW r \in Requests, CloseRetired(r) PROVE DownIsFinal'
  BY <1>19, <1>0, NoneAssumption DEF CloseRetired, Step, Starting, Closing, Outdated
<1>20. ASSUME NEW r \in Requests, Forget(r) PROVE DownIsFinal'
  BY <1>20, <1>0, NoneAssumption DEF Forget, Step, AfterClosing, Starting, Closing,
       Outdated
<1>21. ASSUME NEW r \in Requests, FinishOperation(r) PROVE DownIsFinal'
  BY <1>21, <1>0, NoneAssumption DEF FinishOperation, Step, Starting, Closing, Outdated
<1>22. ASSUME NEW r \in Requests, LoseSession(r) PROVE DownIsFinal'
  BY <1>22, <1>0, NoneAssumption DEF LoseSession, Step, Starting, Closing, Outdated
<1>23. ASSUME NEW r \in Requests, AbandonOperation(r) PROVE DownIsFinal'
  BY <1>23, <1>0, NoneAssumption DEF AbandonOperation, Step, Starting, Closing, Outdated
<1>24. ASSUME NEW r \in Requests, Reauthorize(r) PROVE DownIsFinal'
  BY <1>24, <1>0, NoneAssumption DEF Reauthorize, FreshCredential, StoreCredential,
       Starting, Closing, Outdated
<1>25. ASSUME NEW e \in Requests, LoadTarget(e) PROVE DownIsFinal'
  BY <1>25, <1>0, NoneAssumption DEF LoadTarget, EntryStep, Starting, Closing, Outdated
<1>26. ASSUME NEW e \in Requests, Publish(e) PROVE DownIsFinal'
  BY <1>26, <1>0, NoneAssumption DEF Publish, EntryStep, Starting, Closing, Outdated
<1>27. ASSUME NEW e \in Requests, Discard(e) PROVE DownIsFinal'
  BY <1>27, <1>0, NoneAssumption DEF Discard, EntryStep, PublishError, Starting,
       Closing, Outdated
<1>28. ASSUME NEW e \in Requests, Connect(e) PROVE DownIsFinal'
  BY <1>28, <1>0, NoneAssumption DEF Connect, EntryStep, Starting, Closing, Outdated
<1>29. ASSUME NEW e \in Requests, StartFailed(e) PROVE DownIsFinal'
  BY <1>29, <1>0, NoneAssumption DEF StartFailed, EntryStep, PublishError, Starting,
       Closing, Outdated
<1>30. ASSUME NEW e \in Requests, BeginAuthorization(e) PROVE DownIsFinal'
  BY <1>30, <1>0, NoneAssumption DEF BeginAuthorization, Starting, Closing, Outdated
<1>31. ASSUME NEW e \in Requests, SaveAuthorization(e) PROVE DownIsFinal'
  BY <1>31, <1>0, NoneAssumption DEF SaveAuthorization, FreshCredential,
       StoreCredential, Starting, Closing, Outdated
<1>32. ASSUME DirectAuth PROVE DownIsFinal'
  BY <1>32, <1>0, NoneAssumption DEF DirectAuth, FreshCredential, StoreCredential,
       Starting, Closing, Outdated
<1>33. ASSUME CancelContext PROVE DownIsFinal'
  BY <1>33, <1>0, NoneAssumption DEF CancelContext, Starting, Closing, Outdated
<1>34. ASSUME MarkClosing PROVE DownIsFinal'
  BY <1>34, <1>0, NoneAssumption DEF MarkClosing, Starting, Closing, Outdated
<1>35. ASSUME CloseAtShutdown PROVE DownIsFinal'
  BY <1>35, <1>0, NoneAssumption DEF CloseAtShutdown, Starting, Closing, Outdated
<1>36. ASSUME Stop PROVE DownIsFinal'
  BY <1>36, <1>0, NoneAssumption DEF Stop, Starting, Closing, Outdated
<1>37. ASSUME Stopped PROVE DownIsFinal'
  BY <1>37, <1>0, NoneAssumption DEF Stopped, Starting, Closing, Outdated
<1>. QED BY <1>1, <1>2, <1>3, <1>4, <1>5, <1>6, <1>7, <1>8, <1>9, <1>10, <1>11,
       <1>12, <1>13, <1>14, <1>15, <1>16, <1>17, <1>18, <1>19, <1>20, <1>21,
       <1>22, <1>23, <1>24, <1>25, <1>26, <1>27, <1>28, <1>29, <1>30, <1>31,
       <1>32, <1>33, <1>34, <1>35, <1>36, <1>37 DEF Next, Handle, EndOperation,
       Start, EndConnect, Shutdown

(* An idle retiring instance has a handler that closes it.                 *)
LEMMA RetiringStep ==
    ASSUME IInv, Next
    PROVE  RetiringAccounted'
<1>0. TypeOK /\ RetiringAccounted /\ Placement /\ ClosingLoop /\ CloseDiscipline
  BY DEF IInv
<1>. USE DEF TypeOK, RetiringAccounted, Placement, ClosingLoop, CloseDiscipline, vars, daemonVars, entryVars, requestVars, storeVars
<1>1. ASSUME NEW r \in Requests, NEW k \in Keys, Call(r, k) PROVE RetiringAccounted'
  BY <1>1, <1>0, NoneAssumption DEF Call, Accepted, Step, Serves, Pooled, Closing,
       Outdated
<1>2. ASSUME NEW r \in Requests, Disconnect(r) PROVE RetiringAccounted'
  BY <1>2, <1>0, NoneAssumption DEF Disconnect, Serves, Pooled, Closing, Outdated
<1>3. ASSUME NEW r \in Requests, Reload(r) PROVE RetiringAccounted'
  BY <1>3, <1>0, NoneAssumption DEF Reload, Accepted, Withdraw, AfterClosing, Serves,
       Pooled, Closing, Outdated
<1>4. ASSUME NEW r \in Requests, Login(r) PROVE RetiringAccounted'
  BY <1>4, <1>0, NoneAssumption DEF Login, Accepted, Step, FreshCredential,
       StoreCredential, Serves, Pooled, Closing, Outdated
<1>5. ASSUME NEW r \in Requests, Logout(r) PROVE RetiringAccounted'
  BY <1>5, <1>0, NoneAssumption DEF Logout, Accepted, Step, StoreCredential, Serves,
       Pooled, Closing, Outdated
<1>6. ASSUME NEW r \in Requests, AcquireRefused(r) PROVE RetiringAccounted'
  BY <1>6, <1>0, NoneAssumption DEF AcquireRefused, Step, Serves, Pooled, Closing,
       Outdated
<1>7. ASSUME NEW r \in Requests, AcquireExisting(r) PROVE RetiringAccounted'
  BY <1>7, <1>0, NoneAssumption DEF AcquireExisting, Step, Serves, Pooled, Closing,
       Outdated
<1>8. ASSUME NEW r \in Requests, AcquireFresh(r) PROVE RetiringAccounted'
  BY <1>8, <1>0, NoneAssumption DEF AcquireFresh, Step, Serves, Pooled, Closing, Outdated
<1>9. ASSUME NEW r \in Requests, Lease(r) PROVE RetiringAccounted'
  BY <1>9, <1>0, NoneAssumption DEF Lease, Step, Serves, Pooled, Closing, Outdated
<1>10. ASSUME NEW r \in Requests, LeaseRefused(r) PROVE RetiringAccounted'
  BY <1>10, <1>0, NoneAssumption DEF LeaseRefused, Step, Serves, Pooled, Closing, Outdated
<1>11. ASSUME NEW r \in Requests, WaitCanceled(r) PROVE RetiringAccounted'
  BY <1>11, <1>0, NoneAssumption DEF WaitCanceled, Step, Serves, Pooled, Closing, Outdated
<1>12. ASSUME NEW r \in Requests, WaitAuthorizing(r) PROVE RetiringAccounted'
  BY <1>12, <1>0, NoneAssumption DEF WaitAuthorizing, Step, Serves, Pooled, Closing,
       Outdated
<1>13. ASSUME NEW r \in Requests, CheckCredential(r) PROVE RetiringAccounted'
  BY <1>13, <1>0, NoneAssumption DEF CheckCredential, Step, Serves, Pooled, Closing,
       Outdated
<1>14. ASSUME NEW r \in Requests, BeginOperation(r) PROVE RetiringAccounted'
  BY <1>14, <1>0, NoneAssumption DEF BeginOperation, Step, Serves, Pooled, Closing,
       Outdated
<1>15. ASSUME NEW r \in Requests, RefuseOperation(r) PROVE RetiringAccounted'
  BY <1>15, <1>0, NoneAssumption DEF RefuseOperation, Step, Serves, Pooled, Closing,
       Outdated
<1>16. ASSUME NEW r \in Requests, Release(r) PROVE RetiringAccounted'
  BY <1>16, <1>0, NoneAssumption DEF Release, Step, Serves, Pooled, Closing, Outdated
<1>17. ASSUME NEW r \in Requests, ConfirmLogin(r) PROVE RetiringAccounted'
  BY <1>17, <1>0, NoneAssumption DEF ConfirmLogin, Step, Serves, Pooled, Closing, Outdated
<1>18. ASSUME NEW r \in Requests, RetireCredential(r) PROVE RetiringAccounted'
  BY <1>18, <1>0, NoneAssumption DEF RetireCredential, Withdraw, AfterClosing, Serves,
       Pooled, Closing, Outdated
<1>19. ASSUME NEW r \in Requests, CloseRetired(r) PROVE RetiringAccounted'
  BY <1>19, <1>0, NoneAssumption DEF CloseRetired, Step, Serves, Pooled, Closing, Outdated
<1>20. ASSUME NEW r \in Requests, Forget(r) PROVE RetiringAccounted'
  BY <1>20, <1>0, NoneAssumption DEF Forget, Step, AfterClosing, Serves, Pooled,
       Closing, Outdated
<1>21. ASSUME NEW r \in Requests, FinishOperation(r) PROVE RetiringAccounted'
  BY <1>21, <1>0, NoneAssumption DEF FinishOperation, Step, Serves, Pooled, Closing,
       Outdated
<1>22. ASSUME NEW r \in Requests, LoseSession(r) PROVE RetiringAccounted'
  BY <1>22, <1>0, NoneAssumption DEF LoseSession, Step, Serves, Pooled, Closing, Outdated
<1>23. ASSUME NEW r \in Requests, AbandonOperation(r) PROVE RetiringAccounted'
  BY <1>23, <1>0, NoneAssumption DEF AbandonOperation, Step, Serves, Pooled, Closing,
       Outdated
<1>24. ASSUME NEW r \in Requests, Reauthorize(r) PROVE RetiringAccounted'
  BY <1>24, <1>0, NoneAssumption DEF Reauthorize, FreshCredential, StoreCredential,
       Serves, Pooled, Closing, Outdated
<1>25. ASSUME NEW e \in Requests, LoadTarget(e) PROVE RetiringAccounted'
  BY <1>25, <1>0, NoneAssumption DEF LoadTarget, EntryStep, Serves, Pooled, Closing,
       Outdated
<1>26. ASSUME NEW e \in Requests, Publish(e) PROVE RetiringAccounted'
  BY <1>26, <1>0, NoneAssumption DEF Publish, EntryStep, Serves, Pooled, Closing, Outdated
<1>27. ASSUME NEW e \in Requests, Discard(e) PROVE RetiringAccounted'
  BY <1>27, <1>0, NoneAssumption DEF Discard, EntryStep, PublishError, Serves, Pooled,
       Closing, Outdated
<1>28. ASSUME NEW e \in Requests, Connect(e) PROVE RetiringAccounted'
  BY <1>28, <1>0, NoneAssumption DEF Connect, EntryStep, Serves, Pooled, Closing, Outdated
<1>29. ASSUME NEW e \in Requests, StartFailed(e) PROVE RetiringAccounted'
  BY <1>29, <1>0, NoneAssumption DEF StartFailed, EntryStep, PublishError, Serves,
       Pooled, Closing, Outdated
<1>30. ASSUME NEW e \in Requests, BeginAuthorization(e) PROVE RetiringAccounted'
  BY <1>30, <1>0, NoneAssumption DEF BeginAuthorization, Serves, Pooled, Closing, Outdated
<1>31. ASSUME NEW e \in Requests, SaveAuthorization(e) PROVE RetiringAccounted'
  BY <1>31, <1>0, NoneAssumption DEF SaveAuthorization, FreshCredential,
       StoreCredential, Serves, Pooled, Closing, Outdated
<1>32. ASSUME DirectAuth PROVE RetiringAccounted'
  BY <1>32, <1>0, NoneAssumption DEF DirectAuth, FreshCredential, StoreCredential,
       Serves, Pooled, Closing, Outdated
<1>33. ASSUME CancelContext PROVE RetiringAccounted'
  BY <1>33, <1>0, NoneAssumption DEF CancelContext, Serves, Pooled, Closing, Outdated
<1>34. ASSUME MarkClosing PROVE RetiringAccounted'
  BY <1>34, <1>0, NoneAssumption DEF MarkClosing, Serves, Pooled, Closing, Outdated
<1>35. ASSUME CloseAtShutdown PROVE RetiringAccounted'
  BY <1>35, <1>0, NoneAssumption DEF CloseAtShutdown, Serves, Pooled, Closing, Outdated
<1>36. ASSUME Stop PROVE RetiringAccounted'
  BY <1>36, <1>0, NoneAssumption DEF Stop, Serves, Pooled, Closing, Outdated
<1>37. ASSUME Stopped PROVE RetiringAccounted'
  BY <1>37, <1>0, NoneAssumption DEF Stopped, Serves, Pooled, Closing, Outdated
<1>. QED BY <1>1, <1>2, <1>3, <1>4, <1>5, <1>6, <1>7, <1>8, <1>9, <1>10, <1>11,
       <1>12, <1>13, <1>14, <1>15, <1>16, <1>17, <1>18, <1>19, <1>20, <1>21,
       <1>22, <1>23, <1>24, <1>25, <1>26, <1>27, <1>28, <1>29, <1>30, <1>31,
       <1>32, <1>33, <1>34, <1>35, <1>36, <1>37 DEF Next, Handle, EndOperation,
       Start, EndConnect, Shutdown

(* The initial state satisfies the invariant.                              *)
LEMMA InitIInv == Init => IInv
<1>. SUFFICES ASSUME Init PROVE IInv
  OBVIOUS
<1>1. TypeOK
  BY NoneAssumption, BoundsAssumption DEF Init, TypeOK
<1>2. LeaseCount
  <2>1. \A e \in Requests : Leaseholders(e) = {}
    BY NoneAssumption DEF Init, Leaseholders, Leaseholder
  <2>. QED BY <2>1, FS_EmptySet DEF Init, LeaseCount
<1>3. Placement /\ ClosingLoop /\ PoolsCurrent
  BY DEF Init, Placement, ClosingLoop, PoolsCurrent
<1>4. OneOfferedSession /\ CloseDiscipline /\ OneOperation
  BY DEF Init, OneOfferedSession, Offered, CloseDiscipline, OneOperation
<1>5. ServesOwnGeneration /\ StoredKnown /\ CredentialHeld /\ CredentialFresh
  BY DEF Init, ServesOwnGeneration, StoredKnown, CredentialHeld, CredentialFresh
<1>6. NoLostSession /\ DownIsFinal /\ RetiringAccounted
  BY DEF Init, NoLostSession, Open, DownIsFinal, RetiringAccounted
<1>. QED BY <1>1, <1>2, <1>3, <1>4, <1>5, <1>6 DEF IInv

(* Every step preserves it.                                                *)
LEMMA NextIInv == IInv /\ [Next]_vars => IInv'
<1>1. ASSUME IInv, Next PROVE IInv'
  BY <1>1, TypeStep, PlacementStep, LeaseCountStep, ClosingLoopStep,
     PoolsCurrentStep, OneOfferedStep, CloseDisciplineStep, OneOperationStep,
     ServesStep, StoredKnownStep, CredentialHeldStep, CredentialFreshStep, NoLostStep, DownStep, RetiringStep
     DEF IInv
<1>2. ASSUME IInv, UNCHANGED vars PROVE IInv'
  <2>. USE <1>2 DEF vars, daemonVars, entryVars, requestVars, storeVars
  <2>1. TypeOK' /\ Placement' /\ ClosingLoop'
    BY DEF IInv, TypeOK, Placement, ClosingLoop
  <2>2. \A e \in Requests : Leaseholders(e)' = Leaseholders(e)
    BY DEF Leaseholders, Leaseholder
  <2>3. LeaseCount'
    BY <2>2 DEF IInv, LeaseCount
  <2>4. PoolsCurrent' /\ OneOfferedSession' /\ CloseDiscipline' /\ OneOperation'
    BY DEF IInv, PoolsCurrent, OneOfferedSession, Offered, CloseDiscipline, OneOperation,
           Closing
  <2>5. ServesOwnGeneration' /\ StoredKnown' /\ CredentialHeld' /\ CredentialFresh'
    BY DEF IInv, ServesOwnGeneration, StoredKnown, CredentialHeld, CredentialFresh
  <2>6. NoLostSession' /\ DownIsFinal' /\ RetiringAccounted'
    BY DEF IInv, NoLostSession, Open, Closing, Pooled, DownIsFinal, Starting,
           RetiringAccounted
  <2>. QED BY <2>1, <2>3, <2>4, <2>5, <2>6 DEF IInv
<1>. QED BY <1>1, <1>2

(* The inductive invariant holds in every reachable state.                 *)
THEOREM Invariance == Spec => []IInv
BY InitIInv, NextIInv, PTL DEF Spec

-----------------------------------------------------------------------------
(* The properties of DaemonPool, for any number of requests and keys.      *)

(* Every variable of the daemon keeps its type; in particular no release   *)
(* takes a lease count below zero.                                         *)
THEOREM TypeCorrect == Spec => []TypeOK
<1>1. IInv => TypeOK
  BY DEF IInv
<1>. QED BY <1>1, Invariance, PTL

(* instance.active is exactly the number of requests holding a lease.      *)
THEOREM LeasesCounted == Spec => []LeaseCount
<1>1. IInv => LeaseCount
  BY DEF IInv
<1>. QED BY <1>1, Invariance, PTL

(* No request loses the session it leased to a reload, a logout, a changed *)
(* credential or another request's release.                                *)
THEOREM LeasesSafe == Spec => []LeaseSafety
<1>1. IInv => LeaseSafety
  <2>1. SUFFICES ASSUME IInv, NEW r \in Requests, NEW e \in Requests,
                        Leaseholder(r, e), closed[e]
                 PROVE  Closing
    BY DEF LeaseSafety
  <2>2. active[e] > 0 /\ active[e] \in Nat
    BY <2>1, HolderCounted
  <2>. QED BY <2>1, <2>2 DEF IInv, CloseDiscipline
<1>. QED BY <1>1, Invariance, PTL

(* An operation runs on an open session of its own key and generation.     *)
THEOREM OwnGenerationServed == Spec => []ServesOwnGeneration
<1>1. IInv => ServesOwnGeneration
  BY DEF IInv
<1>. QED BY <1>1, Invariance, PTL

(* One session per key is offered, of the current generation.              *)
THEOREM OneSessionOffered == Spec => []OneOfferedSession
<1>1. IInv => OneOfferedSession
  BY DEF IInv
<1>. QED BY <1>1, Invariance, PTL

(* No request runs on a credential that was replaced before it was made.   *)
THEOREM CredentialsFresh == Spec => []CredentialFresh
<1>1. IInv => CredentialFresh
  BY DEF IInv
<1>. QED BY <1>1, Invariance, PTL

(* No open session is dropped from the daemon's books.                     *)
THEOREM NoSessionLost == Spec => []NoLostSession
<1>1. IInv => NoLostSession
  BY DEF IInv
<1>. QED BY <1>1, Invariance, PTL

(* The retiring set holds no instance nobody will close.                   *)
THEOREM RetiringIsAccounted == Spec => []RetiringAccounted
<1>1. IInv => RetiringAccounted
  BY DEF IInv
<1>. QED BY <1>1, Invariance, PTL

(* A daemon that exited left no session open.                              *)
THEOREM NoOrphans == Spec => []NoOrphanAtExit
<1>1. IInv => NoOrphanAtExit
  BY DEF IInv, NoOrphanAtExit, DownIsFinal, NoLostSession, Closing, Open, Starting
<1>. QED BY <1>1, Invariance, PTL

-----------------------------------------------------------------------------
(* The pool implements the session lease.                                  *)

LEMMA LeaseStep ==
    ASSUME IInv, Next
    PROVE  Promise!Next \/ UNCHANGED Promise!vars
<1>0. /\ TypeOK /\ Placement /\ LeaseCount /\ OneOfferedSession /\ CloseDiscipline
      /\ ClosingLoop
  BY DEF IInv
<1>. USE DEF vars, daemonVars, entryVars, requestVars, storeVars
<1>1. ASSUME NEW r \in Requests, NEW k \in Keys, Call(r, k) PROVE Promise!Next \/ UNCHANGED Promise!vars
  <2>1. LeaseView' = LeaseView /\ Closing' = Closing
    BY <1>1, <1>0 DEF Call, Accepted, Step, LeaseView, Closing, TypeOK
  <2>2. HolderView' = HolderView
    BY <1>1, <1>0, NoneAssumption DEF Call, Accepted, Step, HolderView, Leaseholders,
       Leaseholder, TypeOK, Placement, ClosingLoop
  <2>. QED BY <2>1, <2>2 DEF Promise!vars
<1>2. ASSUME NEW r \in Requests, Disconnect(r) PROVE Promise!Next \/ UNCHANGED Promise!vars
  <2>1. LeaseView' = LeaseView /\ Closing' = Closing
    BY <1>2, <1>0 DEF Disconnect, LeaseView, Closing, TypeOK
  <2>2. HolderView' = HolderView
    BY <1>2, <1>0, NoneAssumption DEF Disconnect, HolderView, Leaseholders,
       Leaseholder, TypeOK, Placement, ClosingLoop
  <2>. QED BY <2>1, <2>2 DEF Promise!vars
<1>3. ASSUME NEW r \in Requests, Reload(r) PROVE Promise!Next \/ UNCHANGED Promise!vars
  <2>. DEFINE S == Pooled
  <2>1. S \in SUBSET Requests
    BY <1>0, NoneAssumption DEF Pooled, TypeOK
  <2>2. /\ \A e \in Requests : retired'[e] <=> (retired[e] \/ e \in S)
        /\ UNCHANGED <<phase, closed, active, shutdown>>
    BY <1>3 DEF Reload, Withdraw
  <2>3. HolderView' = HolderView
    BY <1>3, <1>0, NoneAssumption
    DEF Reload, Accepted, Withdraw, AfterClosing, HolderView, Leaseholders, Leaseholder, TypeOK,
        Placement
  <2>. HIDE DEF S
  <2>4. LeaseView' = Promise!Withdrawn(S) /\ Closing' = Closing
    BY <2>2 DEF LeaseView, Promise!Withdrawn, Closing
  <2>5. Promise!Withdraw(S)
    BY <2>3, <2>4 DEF Promise!Withdraw
  <2>. QED BY <2>1, <2>5 DEF Promise!Next
<1>4. ASSUME NEW r \in Requests, Login(r) PROVE Promise!Next \/ UNCHANGED Promise!vars
  <2>1. LeaseView' = LeaseView /\ Closing' = Closing
    BY <1>4, <1>0 DEF Login, Accepted, Step, FreshCredential, StoreCredential,
         LeaseView, Closing, TypeOK
  <2>2. HolderView' = HolderView
    BY <1>4, <1>0, NoneAssumption DEF Login, Accepted, Step, FreshCredential, StoreCredential, HolderView, Leaseholders,
       Leaseholder, TypeOK, Placement, ClosingLoop
  <2>. QED BY <2>1, <2>2 DEF Promise!vars
<1>5. ASSUME NEW r \in Requests, Logout(r) PROVE Promise!Next \/ UNCHANGED Promise!vars
  <2>1. LeaseView' = LeaseView /\ Closing' = Closing
    BY <1>5, <1>0 DEF Logout, Accepted, Step, StoreCredential, LeaseView,
         Closing, TypeOK
  <2>2. HolderView' = HolderView
    BY <1>5, <1>0, NoneAssumption DEF Logout, Accepted, Step, StoreCredential, HolderView, Leaseholders,
       Leaseholder, TypeOK, Placement, ClosingLoop
  <2>. QED BY <2>1, <2>2 DEF Promise!vars
<1>6. ASSUME NEW r \in Requests, AcquireRefused(r) PROVE Promise!Next \/ UNCHANGED Promise!vars
  <2>1. LeaseView' = LeaseView /\ Closing' = Closing
    BY <1>6, <1>0 DEF AcquireRefused, Step, LeaseView, Closing, TypeOK
  <2>2. HolderView' = HolderView
    BY <1>6, <1>0, NoneAssumption DEF AcquireRefused, Step, HolderView, Leaseholders,
       Leaseholder, TypeOK, Placement, ClosingLoop
  <2>. QED BY <2>1, <2>2 DEF Promise!vars
<1>7. ASSUME NEW r \in Requests, AcquireExisting(r) PROVE Promise!Next \/ UNCHANGED Promise!vars
  <2>1. LeaseView' = LeaseView /\ Closing' = Closing
    BY <1>7, <1>0 DEF AcquireExisting, Step, LeaseView, Closing, TypeOK
  <2>2. HolderView' = HolderView
    BY <1>7, <1>0, NoneAssumption DEF AcquireExisting, Step, HolderView, Leaseholders,
       Leaseholder, TypeOK, Placement, ClosingLoop
  <2>. QED BY <2>1, <2>2 DEF Promise!vars
<1>8. ASSUME NEW r \in Requests, AcquireFresh(r) PROVE Promise!Next \/ UNCHANGED Promise!vars
  <2>1. LeaseView' = LeaseView /\ Closing' = Closing
    BY <1>8, <1>0 DEF AcquireFresh, Step, LeaseView, Closing, TypeOK, Placement
  <2>2. HolderView' = HolderView
    BY <1>8, <1>0, NoneAssumption DEF AcquireFresh, Step, HolderView, Leaseholders,
       Leaseholder, TypeOK, Placement, ClosingLoop
  <2>. QED BY <2>1, <2>2 DEF Promise!vars
<1>9. ASSUME NEW r \in Requests, Lease(r) PROVE Promise!Next \/ UNCHANGED Promise!vars
  <2>1. PICK f \in Requests : f = at[r]
    BY <1>9, AtEntry DEF Lease, Step
  <2>2. f # None /\ pc[r] = "wait" /\ pc'[r] # "wait" /\ at' = at
    BY <1>9, <1>0, <2>1, NoneAssumption DEF Lease, Step, TypeOK
  <2>3. \A e \in Requests : ~Leaseholder(r, e)
    BY <2>2 DEF Leaseholder
  <2>4. HolderView' = [HolderView EXCEPT ![f] = @ \cup {r}]
    <3>1. \A e \in Requests : Leaseholders(e)' =
            IF e = f THEN Leaseholders(e) \cup {r} ELSE Leaseholders(e)
      BY <1>9, <1>0, <2>1, <2>2 DEF Leaseholders, Leaseholder, Lease, Step, TypeOK
    <3>. QED BY <2>1, <3>1 DEF HolderView
  <2>5. LeaseView' = LeaseView /\ Closing' = Closing
    BY <1>9 DEF Lease, LeaseView, Closing
  <2>6. LeaseView[f] = "offered" /\ ~Closing
    BY <1>9, <1>0, <2>1 DEF Lease, Serves, Outdated, LeaseView, CloseDiscipline
  <2>7. r \notin UNION {HolderView[t] : t \in Requests}
    BY <2>3 DEF HolderView, Leaseholders
  <2>8. Promise!Lend(f, r)
    BY <2>4, <2>5, <2>6, <2>7 DEF Promise!Lend
  <2>. QED BY <2>8 DEF Promise!Next
<1>10. ASSUME NEW r \in Requests, LeaseRefused(r) PROVE Promise!Next \/ UNCHANGED Promise!vars
  <2>1. LeaseView' = LeaseView /\ Closing' = Closing
    BY <1>10, <1>0 DEF LeaseRefused, Step, LeaseView, Closing, TypeOK
  <2>2. HolderView' = HolderView
    BY <1>10, <1>0, NoneAssumption DEF LeaseRefused, Step, HolderView, Leaseholders,
       Leaseholder, TypeOK, Placement, ClosingLoop
  <2>. QED BY <2>1, <2>2 DEF Promise!vars
<1>11. ASSUME NEW r \in Requests, WaitCanceled(r) PROVE Promise!Next \/ UNCHANGED Promise!vars
  <2>1. LeaseView' = LeaseView /\ Closing' = Closing
    BY <1>11, <1>0 DEF WaitCanceled, Step, LeaseView, Closing, TypeOK
  <2>2. HolderView' = HolderView
    BY <1>11, <1>0, NoneAssumption DEF WaitCanceled, Step, HolderView, Leaseholders,
       Leaseholder, TypeOK, Placement, ClosingLoop
  <2>. QED BY <2>1, <2>2 DEF Promise!vars
<1>12. ASSUME NEW r \in Requests, WaitAuthorizing(r) PROVE Promise!Next \/ UNCHANGED Promise!vars
  <2>1. LeaseView' = LeaseView /\ Closing' = Closing
    BY <1>12, <1>0 DEF WaitAuthorizing, Step, LeaseView, Closing, TypeOK
  <2>2. HolderView' = HolderView
    BY <1>12, <1>0, NoneAssumption DEF WaitAuthorizing, Step, HolderView, Leaseholders,
       Leaseholder, TypeOK, Placement, ClosingLoop
  <2>. QED BY <2>1, <2>2 DEF Promise!vars
<1>13. ASSUME NEW r \in Requests, CheckCredential(r) PROVE Promise!Next \/ UNCHANGED Promise!vars
  <2>1. LeaseView' = LeaseView /\ Closing' = Closing
    BY <1>13, <1>0 DEF CheckCredential, Step, LeaseView, Closing, TypeOK
  <2>2. HolderView' = HolderView
    BY <1>13, <1>0, NoneAssumption DEF CheckCredential, Step, HolderView, Leaseholders,
       Leaseholder, TypeOK, Placement, ClosingLoop
  <2>. QED BY <2>1, <2>2 DEF Promise!vars
<1>14. ASSUME NEW r \in Requests, BeginOperation(r) PROVE Promise!Next \/ UNCHANGED Promise!vars
  <2>1. LeaseView' = LeaseView /\ Closing' = Closing
    BY <1>14, <1>0 DEF BeginOperation, Step, LeaseView, Closing, TypeOK
  <2>2. HolderView' = HolderView
    BY <1>14, <1>0, NoneAssumption DEF BeginOperation, Step, HolderView, Leaseholders,
       Leaseholder, TypeOK, Placement, ClosingLoop
  <2>. QED BY <2>1, <2>2 DEF Promise!vars
<1>15. ASSUME NEW r \in Requests, RefuseOperation(r) PROVE Promise!Next \/ UNCHANGED Promise!vars
  <2>1. LeaseView' = LeaseView /\ Closing' = Closing
    BY <1>15, <1>0 DEF RefuseOperation, Step, LeaseView, Closing, TypeOK
  <2>2. HolderView' = HolderView
    BY <1>15, <1>0, NoneAssumption DEF RefuseOperation, Step, HolderView, Leaseholders,
       Leaseholder, TypeOK, Placement, ClosingLoop
  <2>. QED BY <2>1, <2>2 DEF Promise!vars
<1>16. ASSUME NEW r \in Requests, Release(r) PROVE Promise!Next \/ UNCHANGED Promise!vars
  <2>1. PICK f \in Requests : f = at[r]
    BY <1>16, AtEntry DEF Release, Step
  <2>2. f # None /\ pc[r] = "release" /\ at' = [at EXCEPT ![r] = None]
    BY <1>16, <1>0, <2>1, NoneAssumption DEF Release, Step, TypeOK
  <2>3. r \in HolderView[f]
    BY <2>1, <2>2 DEF HolderView, Leaseholders, Leaseholder
  <2>4. HolderView' = [HolderView EXCEPT ![f] = @ \ {r}]
    <3>1. \A e \in Requests : Leaseholders(e)' =
            IF e = f THEN Leaseholders(e) \ {r} ELSE Leaseholders(e)
      BY <1>16, <1>0, <2>1, <2>2, NoneAssumption
      DEF Leaseholders, Leaseholder, Release, Step, TypeOK
    <3>. QED BY <2>1, <3>1 DEF HolderView
  <2>5. LeaseView' = LeaseView /\ Closing' = Closing
    BY <1>16 DEF Release, LeaseView, Closing
  <2>6. Promise!GiveBack(f, r)
    BY <2>3, <2>4, <2>5 DEF Promise!GiveBack
  <2>. QED BY <2>6 DEF Promise!Next
<1>17. ASSUME NEW r \in Requests, ConfirmLogin(r) PROVE Promise!Next \/ UNCHANGED Promise!vars
  <2>1. LeaseView' = LeaseView /\ Closing' = Closing
    BY <1>17, <1>0 DEF ConfirmLogin, Step, LeaseView, Closing, TypeOK
  <2>2. HolderView' = HolderView
    BY <1>17, <1>0, NoneAssumption DEF ConfirmLogin, Step, HolderView, Leaseholders,
       Leaseholder, TypeOK, Placement, ClosingLoop
  <2>. QED BY <2>1, <2>2 DEF Promise!vars
<1>18. ASSUME NEW r \in Requests, RetireCredential(r) PROVE Promise!Next \/ UNCHANGED Promise!vars
  <2>. DEFINE S == {e \in Pooled : phase[e] = "live" /\ key[e] \in OAuthKeys}
  <2>1. S \in SUBSET Requests
    BY <1>0, NoneAssumption DEF Pooled, TypeOK
  <2>2. /\ \A e \in Requests : retired'[e] <=> (retired[e] \/ e \in S)
        /\ UNCHANGED <<phase, closed, active, shutdown>>
    BY <1>18 DEF RetireCredential, Withdraw
  <2>3. HolderView' = HolderView
    BY <1>18, <1>0, NoneAssumption
    DEF RetireCredential, Accepted, Withdraw, AfterClosing, HolderView, Leaseholders, Leaseholder, TypeOK,
        Placement
  <2>. HIDE DEF S
  <2>4. LeaseView' = Promise!Withdrawn(S) /\ Closing' = Closing
    BY <2>2 DEF LeaseView, Promise!Withdrawn, Closing
  <2>5. Promise!Withdraw(S)
    BY <2>3, <2>4 DEF Promise!Withdraw
  <2>. QED BY <2>1, <2>5 DEF Promise!Next
<1>19. ASSUME NEW r \in Requests, CloseRetired(r) PROVE Promise!Next \/ UNCHANGED Promise!vars
  <2>1. PICK f \in todo[r] : closed' = [closed EXCEPT ![f] = TRUE]
    BY <1>19 DEF CloseRetired
  <2>2. f \in Requests /\ phase[f] = "live" /\ retired[f]
    BY <1>0, <2>1 DEF CloseDiscipline, TypeOK
  <2>3. HolderView' = HolderView /\ Closing' = Closing
    BY <1>19, <1>0 DEF CloseRetired, Step, HolderView, Leaseholders, Leaseholder,
         Closing, TypeOK
  <2>4. HolderView[f] = {}
    <3>1. IsFiniteSet(Leaseholders(f)) /\ active[f] = 0
      BY <1>0, <2>1, <2>2, RequestsAssumption, FS_Subset DEF Leaseholders, CloseDiscipline
    <3>2. Leaseholders(f) = {}
      BY <1>0, <2>2, <3>1, FS_EmptySet DEF LeaseCount
    <3>. QED BY <2>2, <3>2 DEF HolderView
  <2>5. CASE closed[f]
    <3>1. LeaseView' = LeaseView
      BY <1>19, <1>0, <2>1, <2>2, <2>5 DEF CloseRetired, LeaseView, TypeOK
    <3>. QED BY <2>3, <3>1 DEF Promise!vars
  <2>6. CASE ~closed[f]
    <3>1. LeaseView[f] = "withdrawn"
      BY <2>2, <2>6 DEF LeaseView
    <3>2. LeaseView' = [LeaseView EXCEPT ![f] = "closed"]
      BY <1>19, <1>0, <2>1, <2>2, <2>6 DEF CloseRetired, LeaseView, TypeOK
    <3>3. Promise!Close(f)
      BY <2>2, <2>3, <2>4, <3>1, <3>2 DEF Promise!Close
    <3>. QED BY <2>2, <3>3 DEF Promise!Next
  <2>. QED BY <2>5, <2>6
<1>20. ASSUME NEW r \in Requests, Forget(r) PROVE Promise!Next \/ UNCHANGED Promise!vars
  <2>1. LeaseView' = LeaseView /\ Closing' = Closing
    BY <1>20, <1>0 DEF Forget, Step, AfterClosing, LeaseView, Closing, TypeOK
  <2>2. HolderView' = HolderView
    BY <1>20, <1>0, NoneAssumption DEF Forget, Step, AfterClosing, HolderView, Leaseholders,
       Leaseholder, TypeOK, Placement, ClosingLoop
  <2>. QED BY <2>1, <2>2 DEF Promise!vars
<1>21. ASSUME NEW r \in Requests, FinishOperation(r) PROVE Promise!Next \/ UNCHANGED Promise!vars
  <2>1. LeaseView' = LeaseView /\ Closing' = Closing
    BY <1>21, <1>0 DEF FinishOperation, Step, LeaseView, Closing, TypeOK
  <2>2. HolderView' = HolderView
    BY <1>21, <1>0, NoneAssumption DEF FinishOperation, Step, HolderView, Leaseholders,
       Leaseholder, TypeOK, Placement, ClosingLoop
  <2>. QED BY <2>1, <2>2 DEF Promise!vars
<1>22. ASSUME NEW r \in Requests, LoseSession(r) PROVE Promise!Next \/ UNCHANGED Promise!vars
  <2>1. LeaseView' = LeaseView /\ Closing' = Closing
    BY <1>22, <1>0 DEF LoseSession, Step, LeaseView, Closing, TypeOK
  <2>2. HolderView' = HolderView
    BY <1>22, <1>0, NoneAssumption DEF LoseSession, Step, HolderView, Leaseholders,
       Leaseholder, TypeOK, Placement, ClosingLoop
  <2>. QED BY <2>1, <2>2 DEF Promise!vars
<1>23. ASSUME NEW r \in Requests, AbandonOperation(r) PROVE Promise!Next \/ UNCHANGED Promise!vars
  <2>1. LeaseView' = LeaseView /\ Closing' = Closing
    BY <1>23, <1>0 DEF AbandonOperation, Step, LeaseView, Closing, TypeOK
  <2>2. HolderView' = HolderView
    BY <1>23, <1>0, NoneAssumption DEF AbandonOperation, Step, HolderView, Leaseholders,
       Leaseholder, TypeOK, Placement, ClosingLoop
  <2>. QED BY <2>1, <2>2 DEF Promise!vars
<1>24. ASSUME NEW r \in Requests, Reauthorize(r) PROVE Promise!Next \/ UNCHANGED Promise!vars
  <2>1. LeaseView' = LeaseView /\ Closing' = Closing
    BY <1>24, <1>0 DEF Reauthorize, FreshCredential, StoreCredential, LeaseView,
         Closing, TypeOK
  <2>2. HolderView' = HolderView
    BY <1>24, <1>0, NoneAssumption DEF Reauthorize, FreshCredential, StoreCredential, HolderView, Leaseholders,
       Leaseholder, TypeOK, Placement, ClosingLoop
  <2>. QED BY <2>1, <2>2 DEF Promise!vars
<1>25. ASSUME NEW e \in Requests, LoadTarget(e) PROVE Promise!Next \/ UNCHANGED Promise!vars
  <2>1. LeaseView' = LeaseView /\ Closing' = Closing
    BY <1>25, <1>0 DEF LoadTarget, EntryStep, LeaseView, Closing, TypeOK
  <2>2. HolderView' = HolderView
    BY <1>25, <1>0, NoneAssumption DEF LoadTarget, EntryStep, HolderView, Leaseholders,
       Leaseholder, TypeOK, Placement, ClosingLoop
  <2>. QED BY <2>1, <2>2 DEF Promise!vars
<1>26. ASSUME NEW e \in Requests, Publish(e) PROVE Promise!Next \/ UNCHANGED Promise!vars
  <2>1. phase[e] = "connected" /\ phase' = [phase EXCEPT ![e] = "live"]
    BY <1>26 DEF Publish, EntryStep
  <2>2. ~retired[e] /\ ~Closing /\ ~closed[e]
    BY <1>26, <1>0, <2>1 DEF Publish, Outdated, CloseDiscipline
  <2>3. HolderView' = HolderView /\ Closing' = Closing
    BY <1>26 DEF Publish, HolderView, Leaseholders, Leaseholder, Closing
  <2>4. LeaseView[e] = "absent" /\ LeaseView' = [LeaseView EXCEPT ![e] = "offered"]
    BY <1>26, <1>0, <2>1, <2>2 DEF Publish, LeaseView, TypeOK
  <2>5. Promise!Offer(e)
    BY <2>2, <2>3, <2>4 DEF Promise!Offer
  <2>. QED BY <2>5 DEF Promise!Next
<1>27. ASSUME NEW e \in Requests, Discard(e) PROVE Promise!Next \/ UNCHANGED Promise!vars
  <2>1. LeaseView' = LeaseView /\ Closing' = Closing
    BY <1>27, <1>0 DEF Discard, EntryStep, PublishError, LeaseView, Closing, TypeOK
  <2>2. HolderView' = HolderView
    BY <1>27, <1>0, NoneAssumption DEF Discard, EntryStep, PublishError, HolderView, Leaseholders,
       Leaseholder, TypeOK, Placement, ClosingLoop
  <2>. QED BY <2>1, <2>2 DEF Promise!vars
<1>28. ASSUME NEW e \in Requests, Connect(e) PROVE Promise!Next \/ UNCHANGED Promise!vars
  <2>1. LeaseView' = LeaseView /\ Closing' = Closing
    BY <1>28, <1>0 DEF Connect, EntryStep, LeaseView, Closing, TypeOK
  <2>2. HolderView' = HolderView
    BY <1>28, <1>0, NoneAssumption DEF Connect, EntryStep, HolderView, Leaseholders,
       Leaseholder, TypeOK, Placement, ClosingLoop
  <2>. QED BY <2>1, <2>2 DEF Promise!vars
<1>29. ASSUME NEW e \in Requests, StartFailed(e) PROVE Promise!Next \/ UNCHANGED Promise!vars
  <2>1. LeaseView' = LeaseView /\ Closing' = Closing
    BY <1>29, <1>0 DEF StartFailed, EntryStep, PublishError, LeaseView, Closing,
         TypeOK
  <2>2. HolderView' = HolderView
    BY <1>29, <1>0, NoneAssumption DEF StartFailed, EntryStep, PublishError, HolderView, Leaseholders,
       Leaseholder, TypeOK, Placement, ClosingLoop
  <2>. QED BY <2>1, <2>2 DEF Promise!vars
<1>30. ASSUME NEW e \in Requests, BeginAuthorization(e) PROVE Promise!Next \/ UNCHANGED Promise!vars
  <2>1. LeaseView' = LeaseView /\ Closing' = Closing
    BY <1>30, <1>0 DEF BeginAuthorization, LeaseView, Closing, TypeOK
  <2>2. HolderView' = HolderView
    BY <1>30, <1>0, NoneAssumption DEF BeginAuthorization, HolderView, Leaseholders,
       Leaseholder, TypeOK, Placement, ClosingLoop
  <2>. QED BY <2>1, <2>2 DEF Promise!vars
<1>31. ASSUME NEW e \in Requests, SaveAuthorization(e) PROVE Promise!Next \/ UNCHANGED Promise!vars
  <2>1. LeaseView' = LeaseView /\ Closing' = Closing
    BY <1>31, <1>0 DEF SaveAuthorization, FreshCredential, StoreCredential,
         LeaseView, Closing, TypeOK
  <2>2. HolderView' = HolderView
    BY <1>31, <1>0, NoneAssumption DEF SaveAuthorization, FreshCredential, StoreCredential, HolderView, Leaseholders,
       Leaseholder, TypeOK, Placement, ClosingLoop
  <2>. QED BY <2>1, <2>2 DEF Promise!vars
<1>32. ASSUME DirectAuth PROVE Promise!Next \/ UNCHANGED Promise!vars
  <2>1. LeaseView' = LeaseView /\ Closing' = Closing
    BY <1>32, <1>0 DEF DirectAuth, FreshCredential, StoreCredential, LeaseView,
         Closing, TypeOK
  <2>2. HolderView' = HolderView
    BY <1>32, <1>0, NoneAssumption DEF DirectAuth, FreshCredential, StoreCredential, HolderView, Leaseholders,
       Leaseholder, TypeOK, Placement, ClosingLoop
  <2>. QED BY <2>1, <2>2 DEF Promise!vars
<1>33. ASSUME CancelContext PROVE Promise!Next \/ UNCHANGED Promise!vars
  <2>1. LeaseView' = LeaseView /\ Closing' = Closing
    BY <1>33, <1>0 DEF CancelContext, LeaseView, Closing, TypeOK
  <2>2. HolderView' = HolderView
    BY <1>33, <1>0, NoneAssumption DEF CancelContext, HolderView, Leaseholders,
       Leaseholder, TypeOK, Placement, ClosingLoop
  <2>. QED BY <2>1, <2>2 DEF Promise!vars
<1>34. ASSUME MarkClosing PROVE Promise!Next \/ UNCHANGED Promise!vars
  <2>1. ~Closing /\ Closing'
    BY <1>34 DEF MarkClosing, Closing
  <2>2. HolderView' = HolderView
    BY <1>34 DEF MarkClosing, HolderView, Leaseholders, Leaseholder
  <2>3. \A e \in Requests : phase[e] = "live" /\ ~retired[e] => e \in Pooled
    BY <1>0, NoneAssumption DEF OneOfferedSession, Offered, Pooled, Placement
  <2>4. \A e \in Requests : retired'[e] <=> (retired[e] \/ e \in Pooled)
    BY <1>34 DEF MarkClosing
  <2>5. LeaseView' = Promise!Withdrawn(Requests)
    BY <1>34, <2>3, <2>4 DEF MarkClosing, LeaseView, Promise!Withdrawn
  <2>6. Promise!Stop
    BY <2>1, <2>2, <2>5 DEF Promise!Stop
  <2>. QED BY <2>6 DEF Promise!Next
<1>35. ASSUME CloseAtShutdown PROVE Promise!Next \/ UNCHANGED Promise!vars
  <2>1. PICK f \in shutdownTodo : closed' = [closed EXCEPT ![f] = TRUE]
    BY <1>35 DEF CloseAtShutdown
  <2>2. f \in Requests /\ phase[f] = "live" /\ retired[f]
    BY <1>0, <2>1 DEF CloseDiscipline, TypeOK
  <2>3. HolderView' = HolderView /\ Closing' = Closing
    BY <1>35, <1>0 DEF CloseAtShutdown, Step, HolderView, Leaseholders, Leaseholder,
         Closing, TypeOK
  <2>4. Closing
    BY <1>35 DEF CloseAtShutdown, Closing
  <2>5. CASE closed[f]
    <3>1. LeaseView' = LeaseView
      BY <1>35, <1>0, <2>1, <2>2, <2>5 DEF CloseAtShutdown, LeaseView, TypeOK
    <3>. QED BY <2>3, <3>1 DEF Promise!vars
  <2>6. CASE ~closed[f]
    <3>1. LeaseView[f] = "withdrawn"
      BY <2>2, <2>6 DEF LeaseView
    <3>2. LeaseView' = [LeaseView EXCEPT ![f] = "closed"]
      BY <1>35, <1>0, <2>1, <2>2, <2>6 DEF CloseAtShutdown, LeaseView, TypeOK
    <3>3. Promise!Close(f)
      BY <2>2, <2>3, <2>4, <3>1, <3>2 DEF Promise!Close
    <3>. QED BY <2>2, <3>3 DEF Promise!Next
  <2>. QED BY <2>5, <2>6
<1>36. ASSUME Stop PROVE Promise!Next \/ UNCHANGED Promise!vars
  <2>1. LeaseView' = LeaseView /\ Closing' = Closing
    BY <1>36, <1>0 DEF Stop, LeaseView, Closing, TypeOK
  <2>2. HolderView' = HolderView
    BY <1>36, <1>0, NoneAssumption DEF Stop, HolderView, Leaseholders,
       Leaseholder, TypeOK, Placement, ClosingLoop
  <2>. QED BY <2>1, <2>2 DEF Promise!vars
<1>37. ASSUME Stopped PROVE Promise!Next \/ UNCHANGED Promise!vars
  <2>1. LeaseView' = LeaseView /\ Closing' = Closing
    BY <1>37, <1>0 DEF Stopped, LeaseView, Closing, TypeOK
  <2>2. HolderView' = HolderView
    BY <1>37, <1>0, NoneAssumption DEF Stopped, HolderView, Leaseholders,
       Leaseholder, TypeOK, Placement, ClosingLoop
  <2>. QED BY <2>1, <2>2 DEF Promise!vars
<1>. QED BY <1>1, <1>2, <1>3, <1>4, <1>5, <1>6, <1>7, <1>8, <1>9, <1>10, <1>11,
       <1>12, <1>13, <1>14, <1>15, <1>16, <1>17, <1>18, <1>19, <1>20, <1>21,
       <1>22, <1>23, <1>24, <1>25, <1>26, <1>27, <1>28, <1>29, <1>30, <1>31,
       <1>32, <1>33, <1>34, <1>35, <1>36, <1>37 DEF Next, Handle, EndOperation,
       Start, EndConnect, Shutdown

LEMMA LeaseInit == Init => Promise!Init
<1>. SUFFICES ASSUME Init PROVE Promise!Init
  OBVIOUS
<1>1. HolderView = [e \in Requests |-> {}]
  BY NoneAssumption DEF Init, HolderView, Leaseholders, Leaseholder
<1>2. LeaseView = [e \in Requests |-> "absent"] /\ Closing = FALSE
  BY DEF Init, LeaseView, Closing
<1>. QED BY <1>1, <1>2 DEF Promise!Init

(* The daemon's pool implements SessionLease: whatever a request can       *)
(* observe of reloads, credential changes and shutdown is what a lease     *)
(* allows.                                                                 *)
THEOREM PoolImplementsSessionLease == Spec => ImplementsLease
<1>1. UNCHANGED vars => UNCHANGED Promise!vars
  BY DEF vars, daemonVars, entryVars, requestVars, storeVars, Promise!vars, LeaseView,
         HolderView, Leaseholders, Leaseholder, Closing
<1>2. IInv /\ [Next]_vars => [Promise!Next]_(Promise!vars)
  BY <1>1, LeaseStep
<1>. QED BY LeaseInit, <1>2, Invariance, PTL DEF Spec, ImplementsLease, Promise!Spec
=============================================================================
