--------------------------- MODULE GenerationLock ---------------------------
(***************************************************************************)
(* app/model/generation_lock.py: a bounded semaphore that hands out leases.*)
(* An actor holds at most one lease object at a time; lease[r] is the      *)
(* state of the last one it asked for.                                     *)
(*                                                                         *)
(*   "none"                    no lease was requested yet                  *)
(*   "waiting", "waiting_timed" inside a blocking acquire, without or with *)
(*                             a timeout                                   *)
(*   "held"                    acquired = True                             *)
(*   "busy"                    acquired = False, error_code PARSER_BUSY    *)
(*   "released"                acquired was reset by release()             *)
(*                                                                         *)
(* BoundedSemaphore is a library class: an acquire takes a permit when one *)
(* is left, and otherwise fails at once (blocking=False), waits, or gives  *)
(* up when its timeout elapses with no permit left.                        *)
(***************************************************************************)
EXTENDS Naturals, FiniteSets

CONSTANTS Reqs,             \* the callers of acquire()
          MaxConcurrent     \* max_concurrent_generations

ASSUME MaxConcurrentAssumption == MaxConcurrent \in Nat \ {0}

VARIABLES permits,          \* the semaphore's counter
          lease

lockVars == <<permits, lease>>

LeaseStates == {"none", "waiting", "waiting_timed", "held", "busy", "released"}

LockTypeOK == /\ permits \in 0..MaxConcurrent
              /\ lease \in [Reqs -> LeaseStates]

LockInit == /\ permits = MaxConcurrent
            /\ lease = [r \in Reqs |-> "none"]

Held == {r \in Reqs : lease[r] = "held"}

-----------------------------------------------------------------------------
\* A caller that is not inside acquire() and has no live lease may call it.
MayAcquire(r) == lease[r] \in {"none", "busy", "released"}

\* Mutated TryAcquire: hands out a lease whether or not a permit is left.
TryAcquireUnbounded(r) ==
    /\ MayAcquire(r)
    /\ permits' = IF permits > 0 THEN permits - 1 ELSE 0
    /\ lease' = [lease EXCEPT ![r] = "held"]

\* acquire(blocking=False)
TryAcquire(r) ==
    /\ MayAcquire(r)
    /\ IF permits > 0
         THEN /\ permits' = permits - 1
              /\ lease' = [lease EXCEPT ![r] = "held"]
         ELSE /\ lease' = [lease EXCEPT ![r] = "busy"]
              /\ UNCHANGED permits

\* acquire(blocking=True, timeout=None | t): the caller enters the semaphore.
BlockingAcquire(r) ==
    /\ MayAcquire(r)
    /\ \E w \in {"waiting", "waiting_timed"} : lease' = [lease EXCEPT ![r] = w]
    /\ UNCHANGED permits

\* The semaphore has a permit for a blocked caller.
Grant(r) ==
    /\ lease[r] \in {"waiting", "waiting_timed"}
    /\ permits > 0
    /\ permits' = permits - 1
    /\ lease' = [lease EXCEPT ![r] = "held"]

\* Mutated GiveUp: the timeout wins although a permit was given back in time.
GiveUpEarly(r) ==
    /\ lease[r] = "waiting_timed"
    /\ lease' = [lease EXCEPT ![r] = "busy"]
    /\ UNCHANGED permits

\* The timeout of a blocked caller elapses while no permit is left.
GiveUp(r) ==
    /\ lease[r] = "waiting_timed"
    /\ permits = 0
    /\ lease' = [lease EXCEPT ![r] = "busy"]
    /\ UNCHANGED permits

\* Mutated Release: acquired is not looked at, so a second release counts.
ReleaseUnchecked(r) ==
    /\ lease[r] \in {"held", "busy", "released"}
    /\ permits' = permits + 1
    /\ lease' = [lease EXCEPT ![r] = "released"]

\* lease.release(): gives the permit back once; a lease that was never
\* acquired, or was released before, is left alone.
Release(r) ==
    /\ lease[r] \in {"held", "busy", "released"}
    /\ IF lease[r] = "held"
         THEN /\ permits' = permits + 1
              /\ lease' = [lease EXCEPT ![r] = "released"]
         ELSE UNCHANGED lockVars

LockNext == \E r \in Reqs : \/ TryAcquire(r)
                            \/ BlockingAcquire(r)
                            \/ Grant(r)
                            \/ GiveUp(r)
                            \/ Release(r)

LockSpec == LockInit /\ [][LockNext]_lockVars

-----------------------------------------------------------------------------
(* Every permit is either in the semaphore or in exactly one live lease, in *)
(* whatever order leases are taken, refused, timed out and released, twice  *)
(* or after a refusal (generation_lock.py 13-17, 33-45).                    *)
PermitsAccounted == permits + Cardinality(Held) = MaxConcurrent

(* The lock keeps the promise of AdmissionControl: never more live leases   *)
(* than max_concurrent_generations, and no PARSER_BUSY while a place is     *)
(* free (generation_lock.py 37-45).                                         *)
Admission == INSTANCE AdmissionControl
                 WITH Clients <- Reqs,
                      Limit   <- MaxConcurrent,
                      active  <- Held,
                      refused <- {r \in Reqs : lease[r] = "busy"}

AdmissionSpec == Admission!Spec
=============================================================================
