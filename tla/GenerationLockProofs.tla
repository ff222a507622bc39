------------------------ MODULE GenerationLockProofs ------------------------
(***************************************************************************)
(* Permit accounting of the generation lock, and its refinement of         *)
(* AdmissionControl, for any set of callers and any number of permits. The *)
(* lemmas about single steps are used again in ParseServerProofs.          *)
(***************************************************************************)
EXTENDS GenerationLock, FiniteSetTheorems, TLAPS

USE MaxConcurrentAssumption

(* The inductive invariant. That Held is finite needs no assumption on      *)
(* Reqs: leases are handed out one at a time.                               *)
PermitInv == /\ LockTypeOK
             /\ IsFiniteSet(Held)
             /\ PermitsAccounted

Busy == {r \in Reqs : lease[r] = "busy"}

(* The abstract module counts with the same cardinality.                   *)
LEMMA SameCardinality == \A S : Admission!Cardinality(S) = Cardinality(S)
BY DEF Admission!Cardinality, Cardinality

(* A permit in the semaphore moves into a lease.                            *)
LEMMA TakePermit ==
    ASSUME PermitInv, NEW r \in Reqs, lease[r] # "held", permits > 0,
           permits' = permits - 1, lease' = [lease EXCEPT ![r] = "held"]
    PROVE  /\ PermitInv'
           /\ r \notin Held
           /\ Cardinality(Held) < MaxConcurrent
           /\ Held' = Held \union {r}
           /\ Busy' = Busy \ {r}
<1> USE DEF PermitInv, LockTypeOK
<1>1. lease' \in [Reqs -> LeaseStates] /\ permits' \in 0..MaxConcurrent
    BY DEF LeaseStates
<1>2. Held' = Held \union {r} /\ r \notin Held
    BY DEF Held, LeaseStates
<1>3. Busy' = Busy \ {r}
    BY DEF Busy
<1>4. IsFiniteSet(Held') /\ Cardinality(Held') = Cardinality(Held) + 1
    BY <1>2, FS_AddElement
<1>5. Cardinality(Held) \in Nat
    BY FS_CardinalityType
<1>6. PermitsAccounted' /\ Cardinality(Held) < MaxConcurrent
    BY <1>4, <1>5 DEF PermitsAccounted
<1> QED
    BY <1>1, <1>2, <1>3, <1>4, <1>6

(* A live lease gives its permit back.                                      *)
LEMMA ReturnPermit ==
    ASSUME PermitInv, NEW r \in Reqs, lease[r] = "held",
           permits' = permits + 1, lease' = [lease EXCEPT ![r] = "released"]
    PROVE  /\ PermitInv'
           /\ r \in Held
           /\ Held' = Held \ {r}
           /\ Busy' = Busy
<1> USE DEF PermitInv, LockTypeOK
<1>1. lease' \in [Reqs -> LeaseStates]
    BY DEF LeaseStates
<1>2. Held' = Held \ {r} /\ r \in Held
    BY DEF Held
<1>3. Busy' = Busy
    BY DEF Busy
<1>4. IsFiniteSet(Held') /\ Cardinality(Held') = Cardinality(Held) - 1
    BY <1>2, FS_RemoveElement
<1>5. Cardinality(Held) \in Nat /\ Cardinality(Held') \in Nat
    BY <1>4, FS_CardinalityType
<1>6. PermitsAccounted' /\ permits' \in 0..MaxConcurrent
    BY <1>4, <1>5 DEF PermitsAccounted
<1> QED
    BY <1>1, <1>2, <1>3, <1>4, <1>6

(* A lease changes hands with nothing: a refusal, or the start of a wait.   *)
LEMMA KeepPermits ==
    ASSUME PermitInv, NEW r \in Reqs, lease[r] # "held",
           NEW s \in LeaseStates \ {"held"},
           permits' = permits, lease' = [lease EXCEPT ![r] = s]
    PROVE  PermitInv' /\ Held' = Held
<1> USE DEF PermitInv, LockTypeOK
<1>1. lease' \in [Reqs -> LeaseStates]
    OBVIOUS
<1>2. Held' = Held
    BY DEF Held
<1> QED
    BY <1>1, <1>2 DEF PermitsAccounted

(* Without a permit in the semaphore all places are taken.                  *)
LEMMA NoPermitAllHeld ==
    ASSUME PermitInv, permits = 0
    PROVE  Cardinality(Held) = MaxConcurrent
BY FS_CardinalityType DEF PermitInv, PermitsAccounted

-----------------------------------------------------------------------------
LEMMA LockInitInv == LockInit => PermitInv
<1> SUFFICES ASSUME LockInit PROVE PermitInv
    OBVIOUS
<1>1. Held = {}
    BY DEF LockInit, Held
<1>2. LockTypeOK
    BY DEF LockInit, LockTypeOK, LeaseStates
<1> QED
    BY <1>1, <1>2, FS_EmptySet DEF PermitInv, PermitsAccounted, LockInit

LEMMA TryAcquireInv ==
    ASSUME PermitInv, NEW r \in Reqs, TryAcquire(r)
    PROVE  PermitInv' /\ Admission!Next
<1> USE DEF TryAcquire, MayAcquire
<1>1. CASE permits > 0
    <2>1. /\ PermitInv'
          /\ r \notin Held
          /\ Cardinality(Held) < MaxConcurrent
          /\ Held' = Held \union {r}
          /\ Busy' = Busy \ {r}
        BY <1>1, TakePermit
    <2>2. Admission!Admit(r)
        BY <2>1, SameCardinality DEF Admission!Admit, Busy
    <2> QED
        BY <2>1, <2>2 DEF Admission!Next
<1>2. CASE ~(permits > 0)
    <2>1. permits = 0
        BY <1>2 DEF PermitInv, LockTypeOK
    <2>2. PermitInv' /\ Held' = Held
        BY <1>2, KeepPermits DEF LeaseStates
    <2>3. Busy' = Busy \union {r} /\ r \notin Held
        BY <1>2 DEF Busy, Held, PermitInv, LockTypeOK
    <2>4. Admission!Refuse(r)
        BY <2>1, <2>2, <2>3, NoPermitAllHeld, SameCardinality DEF Admission!Refuse, Busy
    <2> QED
        BY <2>2, <2>4 DEF Admission!Next
<1> QED
    BY <1>1, <1>2

LEMMA ReleaseInv ==
    ASSUME PermitInv, NEW r \in Reqs, Release(r)
    PROVE  /\ PermitInv'
           /\ Admission!Next \/ UNCHANGED lockVars
<1>1. CASE lease[r] = "held"
    <2>1. PermitInv' /\ r \in Held /\ Held' = Held \ {r} /\ Busy' = Busy
        BY <1>1, ReturnPermit DEF Release
    <2>2. Admission!Leave(r)
        BY <2>1 DEF Admission!Leave, Busy
    <2> QED
        BY <2>1, <2>2 DEF Admission!Next
<1>2. CASE lease[r] # "held"
    BY <1>2 DEF Release, lockVars, PermitInv, LockTypeOK, PermitsAccounted, Held
<1> QED
    BY <1>1, <1>2

LEMMA BlockingAcquireInv ==
    ASSUME PermitInv, NEW r \in Reqs, BlockingAcquire(r)
    PROVE  /\ PermitInv'
           /\ Admission!Next \/ UNCHANGED <<Held, Busy>>
<1>1. PICK w \in {"waiting", "waiting_timed"} : lease' = [lease EXCEPT ![r] = w]
    BY DEF BlockingAcquire
<1>2. PermitInv' /\ Held' = Held
    BY <1>1, KeepPermits DEF BlockingAcquire, MayAcquire, LeaseStates
<1>3. Busy' = Busy \ {r}
    BY <1>1 DEF Busy, PermitInv, LockTypeOK
<1>4. CASE r \in Busy
    <2>1. Admission!Retry(r)
        BY <1>2, <1>3, <1>4 DEF Admission!Retry, Busy
    <2> QED
        BY <1>2, <2>1 DEF Admission!Next
<1>5. CASE r \notin Busy
    BY <1>2, <1>3, <1>5
<1> QED
    BY <1>4, <1>5

LEMMA GrantInv ==
    ASSUME PermitInv, NEW r \in Reqs, Grant(r)
    PROVE  PermitInv' /\ Admission!Next
<1>1. /\ PermitInv'
      /\ r \notin Held
      /\ Cardinality(Held) < MaxConcurrent
      /\ Held' = Held \union {r}
      /\ Busy' = Busy \ {r}
    BY TakePermit DEF Grant
<1>2. Admission!Admit(r)
    BY <1>1, SameCardinality DEF Admission!Admit, Busy
<1> QED
    BY <1>1, <1>2 DEF Admission!Next

LEMMA GiveUpInv ==
    ASSUME PermitInv, NEW r \in Reqs, GiveUp(r)
    PROVE  PermitInv' /\ Admission!Next
<1>1. PermitInv' /\ Held' = Held
    BY KeepPermits DEF GiveUp, LeaseStates
<1>2. Busy' = Busy \union {r} /\ r \notin Held
    BY DEF GiveUp, Busy, Held, PermitInv, LockTypeOK
<1>3. Admission!Refuse(r)
    BY <1>1, <1>2, NoPermitAllHeld, SameCardinality DEF GiveUp, Admission!Refuse, Busy
<1> QED
    BY <1>1, <1>3 DEF Admission!Next

LEMMA LockStepInv ==
    ASSUME PermitInv, [LockNext]_lockVars
    PROVE  PermitInv' /\ [Admission!Next]_<<Held, Busy>>
<1>1. CASE UNCHANGED lockVars
    BY <1>1 DEF lockVars, PermitInv, LockTypeOK, PermitsAccounted, Held, Busy
<1>2. ASSUME NEW r \in Reqs, TryAcquire(r)
      PROVE  PermitInv' /\ [Admission!Next]_<<Held, Busy>>
    BY <1>2, TryAcquireInv
<1>3. ASSUME NEW r \in Reqs, BlockingAcquire(r)
      PROVE  PermitInv' /\ [Admission!Next]_<<Held, Busy>>
    BY <1>3, BlockingAcquireInv
<1>4. ASSUME NEW r \in Reqs, Grant(r)
      PROVE  PermitInv' /\ [Admission!Next]_<<Held, Busy>>
    BY <1>4, GrantInv
<1>5. ASSUME NEW r \in Reqs, GiveUp(r)
      PROVE  PermitInv' /\ [Admission!Next]_<<Held, Busy>>
    BY <1>5, GiveUpInv
<1>6. ASSUME NEW r \in Reqs, Release(r)
      PROVE  PermitInv' /\ [Admission!Next]_<<Held, Busy>>
    <2>1. CASE Admission!Next
        BY <1>6, <2>1, ReleaseInv
    <2>2. CASE UNCHANGED lockVars
        BY <2>2, <1>1
    <2> QED
        BY <1>6, <2>1, <2>2, ReleaseInv
<1> QED
    BY <1>1, <1>2, <1>3, <1>4, <1>5, <1>6 DEF LockNext

-----------------------------------------------------------------------------
(* Permits are never lost and never made up, whatever order leases are      *)
(* taken, refused, timed out and released (generation_lock.py 13-17, 33-45).*)
THEOREM LockAccounts == LockSpec => [](LockTypeOK /\ PermitsAccounted)
<1>1. PermitInv /\ [LockNext]_lockVars => PermitInv'
    BY LockStepInv
<1>2. PermitInv => LockTypeOK /\ PermitsAccounted
    BY DEF PermitInv
<1> QED
    BY <1>1, <1>2, LockInitInv, PTL DEF LockSpec

(* The generation lock implements admission control with a limit: no caller *)
(* is refused while a place is free (generation_lock.py 37-45).             *)
THEOREM LockImplementsAdmission == LockSpec => AdmissionSpec
<1>1. LockInit => Admission!Init
    BY DEF LockInit, Admission!Init, Held
<1>2. PermitInv /\ [LockNext]_lockVars => PermitInv' /\ [Admission!Next]_(Admission!vars)
    BY LockStepInv DEF Admission!vars, Busy
<1> QED
    BY <1>1, <1>2, LockInitInv, PTL DEF LockSpec, AdmissionSpec, Admission!Spec
=============================================================================
