---------------------------- MODULE Gemma4Loader ----------------------------
(***************************************************************************)
(* app/model/gemma4_loader.py: the holder of the model and processor       *)
(* references. Any number of threads may call load() and unload().         *)
(*                                                                         *)
(* A copy of the model is named after the actor whose call built it, so    *)
(* model and processor range over Actors \union {None}; no actor has two   *)
(* calls in progress. pc[t] is the statement actor t executes next and     *)
(* exc[t] the exception its current call raised, if any.                   *)
(*                                                                         *)
(*   load -> load_lock -> build -> bind_processor -> load_returned         *)
(*                          \-> load_raised                                *)
(*   unload -> unbind_processor -> release_tensors -> unload_returned      *)
(*                                       \-> unload_raised                 *)
(*                                                                         *)
(* Statements are atomic. The property loaded reads two attributes; it is  *)
(* one step here because both are bound in one order (model first) and     *)
(* unbound in the same order, so a pair of reads always returns the answer *)
(* of one instant between them. Taking a lock is merged with the statement *)
(* after it and dropping one with the statement before it.                 *)
(***************************************************************************)
EXTENDS Naturals, FiniteSets

CONSTANTS Actors,          \* the threads that call the loader
          None,            \* Python's None; also "nobody" as the owner of a lock
          Faults,          \* what building a model may raise
          CleanupMayFail   \* whether gc.collect or empty_cache may raise

ASSUME LoaderAssumption ==
    /\ None \notin Actors
    /\ Faults \subseteq {"timeout", "oom", "other"}
    /\ CleanupMayFail \in BOOLEAN

VARIABLES model, processor,  \* Gemma4Loader.model, .processor
          loaderLock,        \* who holds Gemma4Loader._load_lock
          pc, exc

loaderVars == <<model, processor, loaderLock>>

Exceptions == {"none", "timeout", "oom", "other"}

LoaderLabels == {"load", "load_lock", "build", "bind_processor",
                 "load_returned", "load_raised", "unload", "unbind_processor",
                 "release_tensors", "unload_returned", "unload_raised"}

\* The statements executed inside "with self._load_lock".
LoaderHolding == {"build", "bind_processor", "unbind_processor"}

LoaderTypeOK == /\ model \in Actors \union {None}
                /\ processor \in Actors \union {None}
                /\ loaderLock \in Actors \union {None}

Loaded == model # None /\ processor # None

Goto(t, label) == pc' = [pc EXCEPT ![t] = label]

-----------------------------------------------------------------------------
\* load(): return at once when the model is loaded.
Load(t) ==
    /\ pc[t] = "load"
    /\ Goto(t, IF Loaded THEN "load_returned" ELSE "load_lock")
    /\ UNCHANGED <<loaderVars, exc>>

\* Mutated LoadLock: loaded is not read again under the lock.
LoadLockUnchecked(t) ==
    /\ pc[t] = "load_lock"
    /\ loaderLock = None
    /\ Goto(t, "build") /\ loaderLock' = t
    /\ UNCHANGED <<model, processor, exc>>

\* load(): take the lock and look again.
LoadLock(t) ==
    /\ pc[t] = "load_lock"
    /\ loaderLock = None
    /\ IF Loaded
         THEN Goto(t, "load_returned") /\ UNCHANGED loaderLock
         ELSE Goto(t, "build") /\ loaderLock' = t
    /\ UNCHANGED <<model, processor, exc>>

\* _load_transformers_model returned: the first target of the assignment.
BindModel(t) ==
    /\ pc[t] = "build"
    /\ model' = t
    /\ Goto(t, "bind_processor")
    /\ UNCHANGED <<processor, loaderLock, exc>>

\* Mutated BuildFails: acquire() and release() without try, so the lock leaks.
BuildFailsLeaking(t) ==
    /\ pc[t] = "build"
    /\ \E f \in Faults : exc' = [exc EXCEPT ![t] = f]
    /\ Goto(t, "load_raised")
    /\ UNCHANGED loaderVars

\* _load_transformers_model raised: nothing is bound, the lock is dropped.
BuildFails(t) ==
    /\ pc[t] = "build"
    /\ \E f \in Faults : exc' = [exc EXCEPT ![t] = f]
    /\ loaderLock' = None
    /\ Goto(t, "load_raised")
    /\ UNCHANGED <<model, processor>>

\* The second target of the assignment, and the end of the with block.
BindProcessor(t) ==
    /\ pc[t] = "bind_processor"
    /\ processor' = t
    /\ loaderLock' = None
    /\ Goto(t, "load_returned")
    /\ UNCHANGED <<model, exc>>

\* Mutated UnbindModel: the lock is not waited for.
UnbindModelUnlocked(t) ==
    /\ pc[t] = "unload"
    /\ loaderLock' = t
    /\ model' = None
    /\ Goto(t, "unbind_processor")
    /\ UNCHANGED <<processor, exc>>

\* Mutated UnbindModel: the reference to the model is kept.
UnbindModelKept(t) ==
    /\ pc[t] = "unload"
    /\ loaderLock = None
    /\ loaderLock' = t
    /\ Goto(t, "unbind_processor")
    /\ UNCHANGED <<model, processor, exc>>

\* unload(): take the lock; self.model = None.
UnbindModel(t) ==
    /\ pc[t] = "unload"
    /\ loaderLock = None
    /\ loaderLock' = t
    /\ model' = None
    /\ Goto(t, "unbind_processor")
    /\ UNCHANGED <<processor, exc>>

\* Mutated UnbindProcessor: the processor is forgotten.
UnbindProcessorKept(t) ==
    /\ pc[t] = "unbind_processor"
    /\ loaderLock' = None
    /\ Goto(t, "release_tensors")
    /\ UNCHANGED <<model, processor, exc>>

\* self.processor = None, and the end of the with block.
UnbindProcessor(t) ==
    /\ pc[t] = "unbind_processor"
    /\ processor' = None
    /\ loaderLock' = None
    /\ Goto(t, "release_tensors")
    /\ UNCHANGED <<model, exc>>

\* _release_cached_tensors(), outside the lock: gc.collect and empty_cache.
ReleaseTensors(t) ==
    /\ pc[t] = "release_tensors"
    /\ \E failed \in {FALSE, CleanupMayFail} :
          Goto(t, IF failed THEN "unload_raised" ELSE "unload_returned")
    /\ UNCHANGED <<loaderVars, exc>>

LoaderStep(t) == \/ Load(t)
                 \/ LoadLock(t)
                 \/ BindModel(t)
                 \/ BuildFails(t)
                 \/ BindProcessor(t)
                 \/ UnbindModel(t)
                 \/ UnbindProcessor(t)
                 \/ ReleaseTensors(t)

-----------------------------------------------------------------------------
\* The loader alone: threads that call load() and unload() in any order.
LoaderInit == /\ model = None
              /\ processor = None
              /\ loaderLock = None
              /\ pc = [t \in Actors |-> "idle"]
              /\ exc = [t \in Actors |-> "none"]

CallLoader(t) ==
    /\ pc[t] = "idle"
    /\ \E entry \in {"load", "unload"} : Goto(t, entry)
    /\ UNCHANGED <<loaderVars, exc>>

LoaderCallEnds(t) ==
    /\ pc[t] \in {"load_returned", "load_raised", "unload_returned", "unload_raised"}
    /\ Goto(t, "idle")
    /\ exc' = [exc EXCEPT ![t] = "none"]
    /\ UNCHANGED loaderVars

LoaderNext == \E t \in Actors : LoaderStep(t) \/ CallLoader(t) \/ LoaderCallEnds(t)

LoaderSpec == LoaderInit /\ [][LoaderNext]_<<loaderVars, pc, exc>>

-----------------------------------------------------------------------------
(* The lock's owner is the one actor inside a with block: two loads, two   *)
(* unloads, or a load and an unload never run their bodies together        *)
(* (gemma4_loader.py 43-46, 50-52).                                        *)
LoaderMutex == \A t \in Actors : loaderLock = t <=> pc[t] \in LoaderHolding

(* A build starts, and runs to its end, only while no copy is bound: the   *)
(* second look at loaded under the lock, and unload's use of the same lock,*)
(* prevent a second resident copy (gemma4_loader.py 41-46).                *)
BuildsOnEmpty == \A t \in Actors : pc[t] = "build" => model = None /\ processor = None

(* Whenever no with block is running, the model and the processor come     *)
(* from the same build, or both are None (gemma4_loader.py 46, 51-52).     *)
BindingWhole == loaderLock = None => model = processor

\* What the readers of loaded see, and whose build is running.
Bound == IF Loaded THEN model ELSE None

Builder == IF loaderLock \in Actors /\ pc[loaderLock] \in {"build", "bind_processor"}
             THEN loaderLock
             ELSE None

(* The loader keeps the promise of ModelHolder: behind the two attributes,  *)
(* the two looks at loaded and the unlocked readers there is a holder of    *)
(* one copy that is built in an empty place, shown and dropped as a whole   *)
(* (gemma4_loader.py 35-55).                                                *)
Holder == INSTANCE ModelHolder
              WITH Builders <- Actors,
                   Nothing  <- None,
                   bound    <- Bound,
                   builder  <- Builder

HolderSpec == Holder!Spec
=============================================================================
