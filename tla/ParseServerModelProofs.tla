----------------------- MODULE ParseServerModelProofs -----------------------
(***************************************************************************)
(* What becomes of the bound model while the service runs.                 *)
(*                                                                         *)
(* In resident mode, while nobody patches the mode, it is kept: before the *)
(* first PATCH the mode cannot change, in resident mode no request reaches *)
(* unload, and READY is stored only when a model is loaded.                *)
(*                                                                         *)
(* With max_concurrent_generations = 1, the shipped value, a request       *)
(* generates on the copy its own ensure_loaded left behind. The argument:  *)
(* an admitted request is the only one in the runtime, for the lease       *)
(* admits one, the lifespan loads and unloads only while no request is in  *)
(* progress, and a PATCH never reaches the loader. For the same reason the *)
(* status, written without a lock, does not contradict loaded.             *)
(*                                                                         *)
(* At a higher limit requests overlap, and it is the debts that keep the   *)
(* status true: before the first PATCH either no request unloads, or every *)
(* request that may have written READY will still write NOT_LOADED.        *)
(***************************************************************************)
EXTENDS ParseServerProofs

\* Resident mode before the first PATCH, from startup to the end of draining.
Steady == /\ Unpatched
          /\ mode = "resident"
          /\ pc[Lifespan] \notin AfterLabels \union {"stopped"}

NoUnload == \A t \in Actors : pc[t] \notin AfterLabels \ {"after", "after_ok"}

\* Statements that were reached because the model is loaded.
OnLoaded == {"ensure_mark", "ensure_remark", "load_returned"}

ServiceSteady == /\ NoUnload
                 /\ \A t \in Actors : pc[t] \in OnLoaded => Loaded
                 /\ status = "ready" => Loaded

-----------------------------------------------------------------------------
(* A step before the first PATCH changes neither the mode nor the flag of   *)
(* the cleanup nor the snapshot.                                            *)
LEMMA UnpatchedBack ==
    ASSUME IInv, [Next]_vars, Unpatched'
    PROVE  Unpatched /\ UNCHANGED <<mode, unloadAfter, snapshot>>
<1> USE DEF Goto
<1>1. pc \in [Actors -> ServerLabels]
    BY DEF IInv, ServiceTypeOK
<1>2. ASSUME NEW r \in Reqs, Arrive(r) \/ RequestStep(r) \/ Collect(r)
      PROVE  Unpatched /\ UNCHANGED <<mode, unloadAfter, snapshot>>
    <2>1. \A p \in Patches : pc'[p] = pc[p]
        BY <1>1, <1>2, RoleDistinct DEF Arrive, RequestStep, Collect, Analyze, Acquire,
           LoadFailed, ReadModel, ReadProcessor, GenerateReturns, GenerateRaises,
           Finish, Reply
    <2>2. UNCHANGED <<mode, unloadAfter, snapshot>>
        BY <1>2 DEF Arrive, RequestStep, Collect, Analyze, Acquire, LoadFailed,
           ReadModel, ReadProcessor, GenerateReturns, GenerateRaises, Finish, Reply,
           runtimeVars, flagVars, controllerVars
    <2> QED
        BY <2>1, <2>2 DEF Unpatched
<1>3. ASSUME NEW p \in Patches, SendPatch(p)
      PROVE  FALSE
    BY <1>1, <1>3, RoleDistinct DEF SendPatch, Unpatched
<1>4. ASSUME NEW t \in Actors, ServiceStep(t)
      PROVE  Unpatched /\ UNCHANGED <<mode, unloadAfter, snapshot>>
    <2>1. ControllerStep(t)
        BY <1>4 DEF ServiceStep
    <2>2. PICK l \in EnsureLabels \union AfterLabels \union UpdateLabels :
              /\ pc' = [pc EXCEPT ![t] = l]
              /\ \/ pc[t] \in EnsureLabels /\ l \in EnsureLabels
                 \/ pc[t] \in AfterLabels /\ l \in AfterLabels
                 \/ pc[t] \in UpdateLabels /\ l \in UpdateLabels
        BY <2>1, ServiceMoves DEF IInv
    <2>3. l # "idle"
        BY DEF EnsureLabels, AfterLabels, UpdateLabels
    <2>4. t \notin Patches
        BY <1>1, <2>2, <2>3, RoleDistinct DEF Unpatched
    <2>5. pc[t] \notin {"update", "configure", "configure_rest"}
        BY <2>4, RoleDistinct DEF IInv, RolesOK, RequestLabels, LifespanLabels,
           EnsureLabels, AfterLabels
    <2>6. UNCHANGED <<mode, unloadAfter, snapshot>>
        BY <2>1, <2>5 DEF ControllerStep, RuntimeStep, LoaderStep, Ensure, EnsureMark,
           EnsureWait, EnsureRemark, EnsureLoading, EnsureLoaded, EnsureFails, AfterMode,
           AfterFlag, UnloadMark, ConfigureMode, ConfigureRest, UpdateEnter, UpdateReturn,
           runtimeVars, flagVars, controllerVars
    <2>7. \A p \in Patches : pc'[p] = pc[p]
        BY <1>1, <2>2, <2>4, RoleDistinct
    <2> QED
        BY <2>6, <2>7 DEF Unpatched
<1>5. CASE LifespanStep \/ BeginShutdown
    <2>1. \A p \in Patches : pc'[p] = pc[p]
        BY <1>1, <1>5, RoleDistinct DEF LifespanStep, Startup, StartupDone,
           StartupFailed, Drained, Stopped, BeginShutdown
    <2>2. UNCHANGED <<mode, unloadAfter, snapshot>>
        BY <1>5 DEF LifespanStep, Startup, StartupDone, StartupFailed, Drained, Stopped,
           BeginShutdown, runtimeVars, flagVars, controllerVars
    <2> QED
        BY <2>1, <2>2 DEF Unpatched
<1>6. CASE Terminated \/ UNCHANGED vars
    BY <1>6 DEF Terminated, vars, Unpatched, runtimeVars, flagVars, controllerVars
<1> QED
    BY <1>2, <1>3, <1>4, <1>5, <1>6 DEF Next

(* ... and the lifespan does not come back from the shutdown.               *)
LEMMA SteadyBack ==
    ASSUME IInv, [Next]_vars, Steady'
    PROVE  Steady /\ UNCHANGED <<mode, snapshot>>
<1> USE DEF Goto
<1>1. Unpatched /\ UNCHANGED <<mode, snapshot>>
    BY UnpatchedBack DEF Steady
<1>2. pc \in [Actors -> ServerLabels] /\ Lifespan \in Actors
    BY RoleDistinct DEF IInv, ServiceTypeOK
<1>3. pc[Lifespan] \notin AfterLabels \union {"stopped"}
    <2>1. CASE \E r \in Reqs : Arrive(r) \/ RequestStep(r) \/ Collect(r)
        <3>1. pc'[Lifespan] = pc[Lifespan]
            BY <1>2, <2>1, RoleDistinct DEF Arrive, RequestStep, Collect, Analyze,
               Acquire, LoadFailed, ReadModel, ReadProcessor, GenerateReturns,
               GenerateRaises, Finish, Reply
        <3> QED
            BY <3>1 DEF Steady
    <2>2. CASE \E p \in Patches : SendPatch(p)
        BY <1>2, <2>2, RoleDistinct DEF SendPatch, Steady
    <2>3. ASSUME NEW t \in Actors, ServiceStep(t), pc[Lifespan] \in AfterLabels \union {"stopped"}
          PROVE  FALSE
        <3>1. PICK l \in EnsureLabels \union AfterLabels \union UpdateLabels :
                  /\ pc' = [pc EXCEPT ![t] = l]
                  /\ \/ pc[t] \in EnsureLabels /\ l \in EnsureLabels
                     \/ pc[t] \in AfterLabels /\ l \in AfterLabels
                     \/ pc[t] \in UpdateLabels /\ l \in UpdateLabels
            BY <2>3, ServiceMoves DEF ServiceStep, IInv
        <3>2. CASE t = Lifespan
            BY <1>2, <2>3, <3>1, <3>2 DEF Steady, EnsureLabels, AfterLabels, UpdateLabels
        <3>3. CASE t # Lifespan
            BY <1>2, <2>3, <3>1, <3>3 DEF Steady
        <3> QED
            BY <3>2, <3>3
    <2>4. CASE LifespanStep \/ BeginShutdown
        BY <1>2, <2>4 DEF LifespanStep, Startup, StartupDone, StartupFailed, Drained,
           Stopped, BeginShutdown, Serving, Steady, AfterLabels
    <2>5. CASE Terminated \/ UNCHANGED vars
        BY <2>5 DEF Terminated, vars, Steady
    <2> QED
        BY <2>1, <2>2, <2>3, <2>4, <2>5 DEF Next
<1> QED
    BY <1>1, <1>3 DEF Steady

(* Where nobody unloads, a loaded model stays loaded.                       *)
LEMMA LoadedStays ==
    ASSUME IInv, [Next]_vars, NoUnload, Loaded
    PROVE  Loaded'
<1>1. ASSUME NEW t \in Actors, ServiceStep(t)
      PROVE  Loaded'
    <2>1. ControllerStep(t)
        BY <1>1 DEF ServiceStep
    <2>2. ~BindModel(t)
        BY DEF BindModel, IInv, BindingOK, BuildsOnEmpty, Loaded
    <2>3. ~UnbindModel(t) /\ ~UnbindProcessor(t)
        BY DEF UnbindModel, UnbindProcessor, NoUnload, AfterLabels
    <2>4. CASE BindProcessor(t)
        BY <2>4, LoaderAssumption DEF BindProcessor, Loaded
    <2>5. CASE ~BindProcessor(t)
        <3>1. UNCHANGED <<model, processor>>
            BY <2>1, <2>2, <2>3, <2>5 DEF ControllerStep, RuntimeStep, LoaderStep, Load,
               LoadLock, BuildFails, ReleaseTensors, Ensure, EnsureMark, EnsureWait,
               EnsureRemark, EnsureLoading, EnsureLoaded, EnsureFails, AfterMode,
               AfterFlag, UnloadMark, ConfigureMode, ConfigureRest, UpdateEnter,
               UpdateReturn, loaderVars
        <3> QED
            BY <3>1 DEF Loaded
    <2> QED
        BY <2>4, <2>5
<1>2. CASE ~(\E t \in Actors : ServiceStep(t))
    <2>1. UNCHANGED loaderVars
        BY <1>2 DEF Next, Arrive, RequestStep, Collect, Analyze, Acquire, LoadFailed,
           ReadModel, ReadProcessor, GenerateReturns, GenerateRaises, Finish, Reply,
           SendPatch, LifespanStep, Startup, StartupDone, StartupFailed, Drained,
           Stopped, BeginShutdown, Terminated, vars
    <2> QED
        BY <2>1 DEF loaderVars, Loaded
<1> QED
    BY <1>1, <1>2

-----------------------------------------------------------------------------
(* What the statements of the service do to the rest of ServiceSteady.      *)
LEMMA ServiceStepSteady ==
    ASSUME IInv, ServiceSteady, mode = "resident", NEW t \in Actors, ServiceStep(t),
           Loaded => Loaded'
    PROVE  ServiceSteady'
<1> USE DEF Goto
<1>1. pc \in [Actors -> ServerLabels] /\ ControllerStep(t)
    BY DEF IInv, ServiceTypeOK, ServiceStep
<1>2. PICK l \in EnsureLabels \union AfterLabels \union UpdateLabels :
          pc' = [pc EXCEPT ![t] = l]
    BY <1>1, ServiceMoves DEF IInv
<1>3. pc[t] \notin AfterLabels \ {"after", "after_ok"}
    BY DEF ServiceSteady, NoUnload
<1>4. l \notin AfterLabels \ {"after", "after_ok"}
    <2>1. CASE AfterMode(t)
        BY <1>1, <1>2, <2>1 DEF AfterMode, AfterLabels
    <2>2. CASE ~AfterMode(t)
        BY <1>1, <1>2, <1>3, <2>2 DEF ControllerStep, RuntimeStep, LoaderStep, Load,
           LoadLock, BindModel, BuildFails, BindProcessor, UnbindModel, UnbindProcessor,
           ReleaseTensors, Ensure, EnsureMark, EnsureWait, EnsureRemark, EnsureLoading,
           EnsureLoaded, EnsureFails, AfterFlag, UnloadMark, ConfigureMode,
           ConfigureRest, UpdateEnter, UpdateReturn, AfterLabels
    <2> QED
        BY <2>1, <2>2
<1>5. l \in OnLoaded => Loaded'
    <2> USE DEF OnLoaded
    <2>0. pc'[t] = l
        BY <1>1, <1>2
    <2>1. CASE Ensure(t) \/ EnsureWait(t) \/ Load(t) \/ LoadLock(t)
        BY <2>0, <1>1, <2>1 DEF Ensure, EnsureWait, Load, LoadLock
    <2>2. CASE BindProcessor(t)
        BY <2>2, LoaderAssumption DEF BindProcessor, IInv, BindingOK, Loaded
    <2>3. CASE ~(\/ Ensure(t) \/ EnsureWait(t) \/ Load(t) \/ LoadLock(t)
                 \/ BindProcessor(t))
        BY <2>0, <1>1, <2>3 DEF ControllerStep, RuntimeStep, LoaderStep, BindModel,
           BuildFails, UnbindModel, UnbindProcessor, ReleaseTensors, EnsureMark,
           EnsureRemark, EnsureLoading, EnsureLoaded, EnsureFails, AfterMode, AfterFlag,
           UnloadMark, ConfigureMode, ConfigureRest, UpdateEnter, UpdateReturn
    <2> QED
        BY <2>1, <2>2, <2>3
<1>6. status' = "ready" => Loaded'
    <2>1. CASE pc[t] \in OnLoaded
        BY <2>1 DEF ServiceSteady
    <2>2. CASE pc[t] \notin OnLoaded
        <3>1. status' \in {status, "loading", "error", "not_loaded"}
            BY <1>1, <2>2 DEF OnLoaded, ControllerStep, RuntimeStep, LoaderStep, Ensure,
               EnsureMark, EnsureWait, EnsureRemark, EnsureLoading, EnsureLoaded,
               EnsureFails, AfterMode, AfterFlag, UnloadMark, ConfigureMode,
               ConfigureRest, UpdateEnter, UpdateReturn, runtimeVars
        <3> QED
            BY <3>1 DEF ServiceSteady
    <2> QED
        BY <2>1, <2>2
<1>7. ASSUME NEW u \in Actors
      PROVE  pc'[u] = (IF u = t THEN l ELSE pc[u])
    BY <1>1, <1>2
<1> QED
    BY <1>4, <1>5, <1>6, <1>7 DEF ServiceSteady, NoUnload

(* A step outside the runtime that enters none of its labels except ensure  *)
(* and after keeps ServiceSteady.                                           *)
LEMMA HopSteady ==
    ASSUME IInv, ServiceSteady, NEW t \in Actors, NEW l, pc' = [pc EXCEPT ![t] = l],
           l \notin (AfterLabels \ {"after", "after_ok"}) \union OnLoaded,
           UNCHANGED <<loaderVars, runtimeVars>>
    PROVE  ServiceSteady'
<1>1. ASSUME NEW u \in Actors
      PROVE  pc'[u] = (IF u = t THEN l ELSE pc[u])
    BY DEF IInv, ServiceTypeOK
<1> QED
    BY <1>1 DEF ServiceSteady, NoUnload, Loaded, loaderVars, runtimeVars

LEMMA SteadyNext ==
    ASSUME IInv, [Next]_vars, Steady', Steady, ServiceSteady
    PROVE  ServiceSteady' /\ (Loaded => Loaded')
<1> USE DEF Goto
<1>1. Loaded => Loaded'
    BY LoadedStays DEF ServiceSteady
<1>2. ServiceSteady'
    <2>1. ASSUME NEW r \in Reqs, Arrive(r) \/ RequestStep(r)
          PROVE  ServiceSteady'
        <3>1. PICK l \in {"analyze", "acquire", "reply", "ensure", "after",
                          "read_processor", "generate", "done"} :
                  pc' = [pc EXCEPT ![r] = l]
            BY <2>1 DEF Arrive, RequestStep, Analyze, Acquire, LoadFailed, ReadModel,
               ReadProcessor, GenerateReturns, GenerateRaises, Finish, Reply
        <3>2. UNCHANGED <<loaderVars, runtimeVars>>
            BY <2>1 DEF Arrive, RequestStep, Analyze, Acquire, LoadFailed, ReadModel,
               ReadProcessor, GenerateReturns, GenerateRaises, Finish, Reply
        <3>3. l \notin (AfterLabels \ {"after", "after_ok"}) \union OnLoaded
            BY DEF AfterLabels, OnLoaded
        <3> QED
            BY <3>1, <3>2, <3>3, HopSteady, RoleDistinct
    <2>2. ASSUME NEW p \in Patches, SendPatch(p)
          PROVE  ServiceSteady'
        <3>1. "update" \notin (AfterLabels \ {"after", "after_ok"}) \union OnLoaded
            BY DEF AfterLabels, OnLoaded
        <3> QED
            BY <2>2, <3>1, HopSteady, RoleDistinct DEF SendPatch
    <2>3. ASSUME NEW t \in Actors, ServiceStep(t)
          PROVE  ServiceSteady'
        BY <1>1, <2>3, ServiceStepSteady DEF Steady
    <2>4. CASE LifespanStep \/ BeginShutdown
        <3>1. PICK l \in {"ensure", "serving", "unload", "draining", "stopped"} :
                  pc' = [pc EXCEPT ![Lifespan] = l]
            BY <2>4 DEF LifespanStep, Startup, StartupDone, StartupFailed, Drained,
               Stopped, BeginShutdown
        <3>2. UNCHANGED <<loaderVars, runtimeVars>>
            BY <2>4 DEF LifespanStep, Startup, StartupDone, StartupFailed, Drained,
               Stopped, BeginShutdown
        <3>3. l # "unload"
            BY <3>1, RoleDistinct DEF Steady, AfterLabels, IInv, ServiceTypeOK
        <3>4. l \notin (AfterLabels \ {"after", "after_ok"}) \union OnLoaded
            BY <3>3 DEF AfterLabels, OnLoaded
        <3> QED
            BY <3>1, <3>2, <3>4, HopSteady, RoleDistinct
    <2>5. CASE (\E r \in Reqs : Collect(r)) \/ Terminated \/ UNCHANGED vars
        <3>1. UNCHANGED <<pc, loaderVars, runtimeVars>>
            BY <2>5 DEF Collect, Terminated, vars
        <3> QED
            BY <3>1 DEF ServiceSteady, NoUnload, Loaded, loaderVars, runtimeVars
    <2> QED
        BY <2>1, <2>2, <2>3, <2>4, <2>5 DEF Next
<1> QED
    BY <1>1, <1>2

-----------------------------------------------------------------------------
SteadyInv == /\ IInv
             /\ Steady => ServiceSteady

LEMMA SteadyInitInv == Init => SteadyInv
<1> SUFFICES ASSUME Init PROVE SteadyInv
    OBVIOUS
<1>1. status = "not_loaded"
    BY DEF Init, ControllerStart, RuntimeInit
<1>2. ServiceSteady
    BY <1>1, RoleDistinct DEF Init, ServiceSteady, NoUnload, OnLoaded, AfterLabels
<1> QED
    BY <1>2, InitInv DEF SteadyInv

LEMMA SteadyNextInv == SteadyInv /\ [Next]_vars => SteadyInv'
<1> SUFFICES ASSUME SteadyInv, [Next]_vars PROVE SteadyInv'
    OBVIOUS
<1>1. IInv'
    BY NextInv DEF SteadyInv
<1>2. ASSUME Steady' PROVE ServiceSteady'
    BY <1>2, SteadyBack, SteadyNext DEF SteadyInv
<1> QED
    BY <1>1, <1>2 DEF SteadyInv

(* Where nobody unloads, a bound model stays bound.                         *)
LEMMA ModelStays ==
    ASSUME IInv, [Next]_vars, NoUnload, model # None
    PROVE  model' # None
<1>1. ASSUME NEW t \in Actors, ServiceStep(t)
      PROVE  model' # None
    <2>1. ~UnbindModel(t)
        BY DEF UnbindModel, NoUnload, AfterLabels
    <2>2. ControllerStep(t)
        BY <1>1 DEF ServiceStep
    <2>3. model' \in {model, t}
        BY <2>1, <2>2 DEF ControllerStep, RuntimeStep, LoaderStep, Load, LoadLock,
           BindModel, BuildFails, BindProcessor, UnbindProcessor, ReleaseTensors, Ensure,
           EnsureMark, EnsureWait, EnsureRemark, EnsureLoading, EnsureLoaded,
           EnsureFails, AfterMode, AfterFlag, UnloadMark, ConfigureMode, ConfigureRest,
           UpdateEnter, UpdateReturn, loaderVars
    <2> QED
        BY <2>3, LoaderAssumption
<1>2. CASE ~(\E t \in Actors : ServiceStep(t))
    BY <1>2 DEF Next, Arrive, RequestStep, Collect, Analyze, Acquire, LoadFailed,
       ReadModel, ReadProcessor, GenerateReturns, GenerateRaises, Finish, Reply,
       SendPatch, LifespanStep, Startup, StartupDone, StartupFailed, Drained, Stopped,
       BeginShutdown, Terminated, vars, loaderVars
<1> QED
    BY <1>1, <1>2

(* Without PATCH requests a resident model, once bound, is never dropped    *)
(* before the shutdown's own unload, whatever number of requests fail or    *)
(* run at once (runtime.py 102-104).                                        *)
THEOREM ResidentModelStays == Patches = {} => (Spec => ResidentKeepsModel)
<1> SUFFICES ASSUME Patches = {} PROVE Spec => ResidentKeepsModel
    OBVIOUS
<1>1. ASSUME SteadyInv, [Next]_vars,
             pc[Lifespan] \in {"serving", "draining"}, mode = "resident", model # None
      PROVE  model' # None
    <2>1. Steady
        BY <1>1 DEF Steady, Unpatched, AfterLabels
    <2> QED
        BY <1>1, <2>1, ModelStays DEF SteadyInv, ServiceSteady
<1>2. SteadyInv /\ [Next]_vars =>
          [(/\ pc[Lifespan] \in {"serving", "draining"}
            /\ mode = "resident"
            /\ updateLock = None
            /\ model # None) => model' # None]_vars
    BY <1>1
<1> QED
    BY <1>2, SteadyInitInv, SteadyNextInv, PTL DEF Spec, ResidentKeepsModel

-----------------------------------------------------------------------------
(* One generation at a time.                                                *)

\* The statements of a request that rely on a loaded model.
HasModel == {"ensure_mark", "ensure_remark", "load_returned", "ensure_ok",
             "read_processor", "generate"}

\* The lifespan is at work only before the first request and after the last.
LifespanAlone == pc[Lifespan] \notin {"serving", "draining"} =>
                     \A r \in Reqs : pc[r] \in {"idle", "done"}

SerialOK(r) == /\ pc[r] \in HasModel => model # None /\ processor = model
               /\ pc[r] = "read_processor" => frame[r].model = model
               /\ pc[r] = "generate" => /\ frame[r].model = model
                                        /\ frame[r].processor = model
               /\ exc[r] # "not_ready"

SerialInv == /\ IInv
             /\ LifespanAlone
             /\ MaxConcurrent = 1 => \A r \in Reqs : SerialOK(r)

-----------------------------------------------------------------------------
(* With one permit there is at most one admitted request.                   *)
LEMMA OneAdmitted ==
    ASSUME IInv, MaxConcurrent = 1, NEW r \in Admitted, NEW s \in Admitted
    PROVE  r = s
<1> SUFFICES ASSUME r # s PROVE FALSE
    OBVIOUS
<1>1. IsFiniteSet(Held) /\ Cardinality(Held) <= 1
    BY FS_CardinalityType DEF IInv, PermitInv, PermitsAccounted, LockTypeOK
<1>2. IsFiniteSet({r}) /\ Cardinality({r}) = 1
    BY FS_Singleton
<1>3. IsFiniteSet({r} \union {s}) /\ Cardinality({r} \union {s}) = 2
    BY <1>2, FS_AddElement
<1>4. {r} \union {s} \in SUBSET Held
    BY DEF IInv, LeaseBracketsWork
<1>5. Cardinality({r} \union {s}) <= Cardinality(Held)
    BY <1>1, <1>4, FS_Subset
<1> QED
    BY <1>1, <1>3, <1>5, FS_CardinalityType

(* While a request is admitted, no other actor is in the runtime.           *)
LEMMA Alone ==
    ASSUME IInv, LifespanAlone, MaxConcurrent = 1, NEW r \in Admitted,
           NEW u \in Actors, u # r
    PROVE  pc[u] \notin EnsureLabels \union AfterLabels
<1>1. r \in Reqs /\ pc[r] \notin {"idle", "done"}
    BY DEF Admitted, RuntimeLabels, LoaderLabels
<1>2. CASE u \in Reqs
    <2>1. u \notin Admitted
        BY OneAdmitted
    <2> QED
        BY <1>2, <2>1 DEF Admitted, RuntimeLabels, LoaderLabels, EnsureLabels, AfterLabels
<1>3. CASE u \in Patches
    BY <1>3 DEF IInv, RolesOK, UpdateLabels, EnsureLabels, AfterLabels
<1>4. CASE u = Lifespan
    <2>1. pc[Lifespan] \in {"serving", "draining"}
        BY <1>1 DEF LifespanAlone
    <2> QED
        BY <1>4, <2>1 DEF EnsureLabels, AfterLabels
<1> QED
    BY <1>2, <1>3, <1>4, RoleDistinct

(* ... so the loader is quiet, and a model that is loaded is whole.         *)
LEMMA LoadedIsWhole ==
    ASSUME IInv, LifespanAlone, MaxConcurrent = 1, NEW r \in Admitted,
           pc[r] \notin LoaderHolding, Loaded
    PROVE  model # None /\ processor = model
<1>1. ASSUME NEW u \in Actors, loaderLock = u PROVE FALSE
    <2>1. pc[u] \in LoaderHolding
        BY <1>1 DEF IInv, LocksOK, LoaderMutex
    <2>2. u # r
        BY <2>1
    <2> QED
        BY <2>1, <2>2, Alone DEF LoaderHolding, EnsureLabels, AfterLabels
<1>2. loaderLock = None
    BY <1>1 DEF IInv, ServiceTypeOK, ControllerTypeOK, RuntimeTypeOK, LoaderTypeOK
<1> QED
    BY <1>2 DEF IInv, BindingOK, BindingWhole, Loaded

(* Only an actor inside the loader touches the references.                  *)
LEMMA LoaderUntouched ==
    ASSUME NEW u \in Actors, ControllerStep(u), pc[u] \notin EnsureLabels \union AfterLabels
    PROVE  UNCHANGED <<model, processor>>
BY DEF ControllerStep, RuntimeStep, LoaderStep, Load, LoadLock, BindModel, BuildFails,
       BindProcessor, UnbindModel, UnbindProcessor, ReleaseTensors, Ensure, EnsureMark,
       EnsureWait, EnsureRemark, EnsureLoading, EnsureLoaded, EnsureFails, AfterMode,
       AfterFlag, UnloadMark, ConfigureMode, ConfigureRest, UpdateEnter, UpdateReturn,
       loaderVars, EnsureLabels, AfterLabels

(* A step that leaves what SerialOK(r) speaks of alone keeps it.            *)
LEMMA SerialKept ==
    ASSUME NEW r \in Reqs, SerialOK(r), pc'[r] = pc[r], exc'[r] = exc[r],
           frame'[r] = frame[r], UNCHANGED <<model, processor>>
    PROVE  SerialOK(r)'
BY DEF SerialOK

LEMMA SerialElsewhere ==
    ASSUME NEW r \in Reqs, pc'[r] \notin HasModel, exc'[r] # "not_ready"
    PROVE  SerialOK(r)'
BY DEF SerialOK, HasModel

-----------------------------------------------------------------------------
(* A request's own statement in the runtime.                                *)
LEMMA OwnServiceStep ==
    ASSUME SerialInv, MaxConcurrent = 1, NEW r \in Reqs, ServiceStep(r)
    PROVE  SerialOK(r)'
<1> USE DEF Goto
<1>1. /\ SerialOK(r) /\ IInv /\ LifespanAlone /\ r \in Actors
      /\ pc \in [Actors -> ServerLabels] /\ exc \in [Actors -> ServerExceptions]
    BY RoleDistinct DEF SerialInv, IInv, ServiceTypeOK
<1>2. ControllerStep(r)
    BY DEF ServiceStep
<1>3. PICK l \in EnsureLabels \union AfterLabels \union UpdateLabels :
              /\ pc' = [pc EXCEPT ![r] = l]
              /\ \/ pc[r] \in EnsureLabels /\ l \in EnsureLabels
                 \/ pc[r] \in AfterLabels /\ l \in AfterLabels
                 \/ pc[r] \in UpdateLabels /\ l \in UpdateLabels
    BY <1>1, <1>2, ServiceMoves DEF IInv
<1>4. pc[r] \in EnsureLabels \union AfterLabels /\ r \in Admitted
    BY <1>1, <1>3 DEF IInv, RolesOK, RequestLabels, EnsureLabels, AfterLabels, UpdateLabels,
       Admitted, RuntimeLabels, LoaderLabels
<1>5. exc'[r] # "not_ready"
    <2>1. CASE BuildFails(r)
        <3>1. PICK f \in Faults : exc' = [exc EXCEPT ![r] = f]
            BY <2>1 DEF BuildFails
        <3>2. f # "not_ready"
            BY LoaderAssumption
        <3> QED
            BY <1>1, <3>1, <3>2
    <2>2. CASE ~BuildFails(r)
        <3>1. exc' = exc
            BY <1>2, <2>2 DEF ControllerStep, RuntimeStep, LoaderStep, Load, LoadLock,
               BindModel, BindProcessor, UnbindModel, UnbindProcessor, ReleaseTensors,
               Ensure, EnsureMark, EnsureWait, EnsureRemark, EnsureLoading, EnsureLoaded,
               EnsureFails, AfterMode, AfterFlag, UnloadMark, ConfigureMode, ConfigureRest,
               UpdateEnter, UpdateReturn
        <3> QED
            BY <1>1, <3>1 DEF SerialOK
    <2> QED
        BY <2>1, <2>2
<1>6. l \in HasModel => model' # None /\ processor' = model'
    <2> USE DEF HasModel
    <2>0. pc'[r] = l
        BY <1>1, <1>3
    <2>1. CASE Ensure(r) \/ EnsureWait(r) \/ Load(r) \/ LoadLock(r)
        <3>1. l \in HasModel => Loaded
            BY <2>0, <1>1, <2>1 DEF Ensure, EnsureWait, Load, LoadLock
        <3>2. pc[r] \notin LoaderHolding /\ UNCHANGED <<model, processor>>
            BY <2>1 DEF Ensure, EnsureWait, Load, LoadLock, LoaderHolding, loaderVars
        <3>3. Loaded => model # None /\ processor = model
            BY <1>1, <1>4, <3>2, LoadedIsWhole
        <3> QED
            BY <3>1, <3>2, <3>3
    <2>2. CASE BindProcessor(r)
        <3>1. model = r /\ None # r
            BY <1>1, <2>2, LoaderAssumption DEF BindProcessor, IInv, BindingOK
        <3> QED
            BY <2>2, <3>1 DEF BindProcessor
    <2>3. CASE EnsureMark(r) \/ EnsureRemark(r) \/ EnsureLoaded(r)
        BY <1>1, <2>3 DEF EnsureMark, EnsureRemark, EnsureLoaded, SerialOK, loaderVars
    <2>4. CASE \/ BindModel(r) \/ BuildFails(r) \/ UnbindModel(r) \/ UnbindProcessor(r)
               \/ ReleaseTensors(r) \/ EnsureLoading(r) \/ EnsureFails(r) \/ AfterMode(r)
               \/ AfterFlag(r) \/ UnloadMark(r)
        BY <2>0, <1>1, <2>4 DEF BindModel, BuildFails, UnbindModel, UnbindProcessor,
           ReleaseTensors, EnsureLoading, EnsureFails, AfterMode, AfterFlag, UnloadMark
    <2>5. ~(ConfigureMode(r) \/ ConfigureRest(r) \/ UpdateEnter(r) \/ UpdateReturn(r))
        BY <1>4 DEF ConfigureMode, ConfigureRest, UpdateEnter, UpdateReturn,
           EnsureLabels, AfterLabels
    <2> QED
        BY <1>2, <2>1, <2>2, <2>3, <2>4, <2>5 DEF ControllerStep, RuntimeStep, LoaderStep
<1>7. l \notin {"read_processor", "generate"}
    BY DEF EnsureLabels, AfterLabels, UpdateLabels
<1> QED
    BY <1>1, <1>3, <1>5, <1>6, <1>7 DEF SerialOK

(* A statement another actor executes in the runtime.                       *)
LEMMA OtherServiceStep ==
    ASSUME SerialInv, MaxConcurrent = 1, NEW r \in Reqs, NEW u \in Actors, u # r,
           ServiceStep(u)
    PROVE  SerialOK(r)'
<1>1. /\ SerialOK(r) /\ IInv /\ LifespanAlone /\ r \in Actors
      /\ pc \in [Actors -> ServerLabels] /\ exc \in [Actors -> ServerExceptions]
      /\ frame \in [Reqs -> Frames]
    BY RoleDistinct DEF SerialInv, IInv, ServiceTypeOK, RequestTypeOK
<1>2. ControllerStep(u)
    BY DEF ServiceStep
<1>3. pc'[r] = pc[r]
    BY <1>1, <1>2, ServiceMoves DEF IInv
<1>4. exc'[r] = exc[r]
    BY <1>1, <1>2 DEF ControllerStep, RuntimeStep, LoaderStep, Load, LoadLock,
       BindModel, BuildFails, BindProcessor, UnbindModel, UnbindProcessor, ReleaseTensors,
       Ensure, EnsureMark, EnsureWait, EnsureRemark, EnsureLoading, EnsureLoaded,
       EnsureFails, AfterMode, AfterFlag, UnloadMark, ConfigureMode, ConfigureRest,
       UpdateEnter, UpdateReturn
<1>5. CASE pc[r] \in HasModel
    <2>1. r \in Admitted
        BY <1>5 DEF HasModel, Admitted, RuntimeLabels, LoaderLabels
    <2>2. UNCHANGED <<model, processor>>
        BY <1>1, <1>2, <2>1, Alone, LoaderUntouched
    <2>3. frame'[r] = frame[r]
        BY <1>5 DEF ServiceStep, Collected, HasModel
    <2> QED
        BY <1>1, <1>3, <1>4, <2>2, <2>3, SerialKept
<1>6. CASE pc[r] \notin HasModel
    BY <1>1, <1>3, <1>4, <1>6, SerialElsewhere DEF SerialOK
<1> QED
    BY <1>5, <1>6

(* A request's step outside the runtime, seen by itself and by the others.  *)
LEMMA RequestSerial ==
    ASSUME SerialInv, MaxConcurrent = 1, NEW s \in Reqs,
           Arrive(s) \/ RequestStep(s) \/ Collect(s), NEW r \in Reqs
    PROVE  SerialOK(r)'
<1> USE DEF Goto
<1>1. /\ SerialOK(r) /\ SerialOK(s) /\ r \in Actors /\ s \in Actors
      /\ pc \in [Actors -> ServerLabels] /\ exc \in [Actors -> ServerExceptions]
      /\ frame \in [Reqs -> Frames]
    BY RoleDistinct DEF SerialInv, IInv, ServiceTypeOK, RequestTypeOK
<1>2. UNCHANGED <<model, processor>>
    BY DEF Arrive, RequestStep, Collect, Analyze, Acquire, LoadFailed, ReadModel,
       ReadProcessor, GenerateReturns, GenerateRaises, Finish, Reply, loaderVars
<1>3. CASE r # s
    <2>1. pc'[r] = pc[r] /\ exc'[r] = exc[r] /\ frame'[r] = frame[r]
        BY <1>1, <1>3 DEF Arrive, RequestStep, Collect, Analyze, Acquire, LoadFailed,
           ReadModel, ReadProcessor, GenerateReturns, GenerateRaises, Finish, Reply,
           requestVars
    <2> QED
        BY <1>1, <1>2, <2>1, SerialKept
<1>4. CASE r = s
    <2>1. CASE ReadModel(r)
        BY <1>1, <1>2, <2>1 DEF ReadModel, SerialOK, HasModel, Frames
    <2>2. CASE ReadProcessor(r)
        <3>1. frame[r].model # None /\ processor # None
            BY <1>1, <2>2 DEF ReadProcessor, SerialOK, HasModel
        <3> QED
            BY <1>1, <1>2, <2>2, <3>1 DEF ReadProcessor, SerialOK, HasModel, Frames
    <2>3. CASE \/ Arrive(r) \/ Analyze(r) \/ Acquire(r) \/ LoadFailed(r)
               \/ GenerateReturns(r) \/ GenerateRaises(r) \/ Finish(r) \/ Reply(r)
        <3>1. pc'[r] \notin HasModel
            BY <1>1, <2>3 DEF Arrive, Analyze, Acquire, LoadFailed, GenerateReturns,
               GenerateRaises, Finish, Reply, HasModel
        <3>2. exc'[r] # "not_ready"
            <4>1. CASE GenerateRaises(r)
                <5>1. PICK f \in GenerationFaults : exc' = [exc EXCEPT ![r] = f]
                    BY <4>1 DEF GenerateRaises
                <5>2. f # "not_ready"
                    BY ServerAssumption
                <5> QED
                    BY <1>1, <5>1, <5>2
            <4>2. CASE ~GenerateRaises(r)
                BY <1>1, <2>3, <4>2 DEF Arrive, Analyze, Acquire, LoadFailed,
                   GenerateReturns, Finish, Reply, SerialOK
            <4> QED
                BY <4>1, <4>2
        <3> QED
            BY <3>1, <3>2, SerialElsewhere
    <2>4. CASE Collect(r)
        BY <1>1, <2>4, SerialElsewhere DEF Collect, SerialOK, HasModel
    <2> QED
        BY <1>4, <2>1, <2>2, <2>3, <2>4 DEF RequestStep
<1> QED
    BY <1>3, <1>4

(* The steps of everybody else leave the requests alone.                    *)
LEMMA OtherSerial ==
    ASSUME SerialInv, MaxConcurrent = 1, NEW r \in Reqs,
           \/ \E p \in Patches : SendPatch(p)
           \/ LifespanStep
           \/ BeginShutdown
           \/ Terminated
           \/ UNCHANGED vars
    PROVE  SerialOK(r)'
<1>1. SerialOK(r) /\ pc \in [Actors -> ServerLabels]
    BY DEF SerialInv, IInv, ServiceTypeOK
<1>2. pc'[r] = pc[r] /\ exc'[r] = exc[r] /\ frame'[r] = frame[r]
      /\ UNCHANGED <<model, processor>>
    BY <1>1, RoleDistinct DEF SendPatch, LifespanStep, Startup, StartupDone,
       StartupFailed, Drained, Stopped, BeginShutdown, Terminated, Serving, Goto, vars,
       requestVars, loaderVars
<1> QED
    BY <1>1, <1>2, SerialKept

-----------------------------------------------------------------------------
LEMMA LifespanAloneStep ==
    ASSUME IInv, LifespanAlone, [Next]_vars
    PROVE  LifespanAlone'
<1> USE DEF Goto
<1>1. pc \in [Actors -> ServerLabels]
    BY DEF IInv, ServiceTypeOK
<1>2. ASSUME NEW r \in Reqs, Arrive(r) \/ RequestStep(r) \/ Collect(r)
      PROVE  LifespanAlone'
    <2>1. CASE Collect(r)
        BY <2>1 DEF Collect, LifespanAlone
    <2>2. CASE Arrive(r)
        BY <1>1, <2>2, RoleDistinct DEF Arrive, Serving, LifespanAlone
    <2>3. CASE RequestStep(r)
        <3>1. pc[r] \notin {"idle", "done"} /\ pc'[Lifespan] = pc[Lifespan]
            BY <1>1, <2>3, RoleDistinct DEF RequestStep, Analyze, Acquire, LoadFailed,
               ReadModel, ReadProcessor, GenerateReturns, GenerateRaises, Finish, Reply
        <3> QED
            BY <3>1 DEF LifespanAlone
    <2> QED
        BY <1>2, <2>1, <2>2, <2>3
<1>3. ASSUME NEW p \in Patches, SendPatch(p)
      PROVE  LifespanAlone'
    BY <1>1, <1>3, RoleDistinct DEF SendPatch, LifespanAlone
<1>4. ASSUME NEW t \in Actors, ServiceStep(t)
      PROVE  LifespanAlone'
    <2>1. PICK l \in EnsureLabels \union AfterLabels \union UpdateLabels :
              /\ pc' = [pc EXCEPT ![t] = l]
              /\ \/ pc[t] \in EnsureLabels /\ l \in EnsureLabels
                 \/ pc[t] \in AfterLabels /\ l \in AfterLabels
                 \/ pc[t] \in UpdateLabels /\ l \in UpdateLabels
        BY <1>4, ServiceMoves DEF ServiceStep, IInv
    <2>2. pc[t] \notin {"serving", "draining", "idle", "done"}
        BY <2>1 DEF EnsureLabels, AfterLabels, UpdateLabels
    <2> QED
        BY <1>1, <2>1, <2>2, RoleDistinct DEF LifespanAlone
<1>5. CASE LifespanStep
    <2>1. CASE Drained
        BY <1>1, <2>1, RoleDistinct DEF Drained, LifespanAlone, IInv, RolesOK,
           RequestLabels, EnsureLabels, AfterLabels
    <2>2. CASE Startup \/ StartupDone \/ StartupFailed \/ Stopped
        BY <1>1, <2>2, RoleDistinct DEF Startup, StartupDone, StartupFailed, Stopped,
           LifespanAlone
    <2> QED
        BY <1>5, <2>1, <2>2 DEF LifespanStep
<1>6. CASE BeginShutdown
    BY <1>1, <1>6, RoleDistinct DEF BeginShutdown, LifespanAlone
<1>7. CASE Terminated \/ UNCHANGED vars
    BY <1>7 DEF Terminated, vars, LifespanAlone
<1> QED
    BY <1>2, <1>3, <1>4, <1>5, <1>6, <1>7 DEF Next

LEMMA SerialInit == Init => SerialInv
<1> SUFFICES ASSUME Init PROVE SerialInv
    OBVIOUS
<1>1. LifespanAlone
    BY RoleDistinct DEF Init, LifespanAlone
<1>2. ASSUME NEW r \in Reqs PROVE SerialOK(r)
    <2>1. exc[r] = "none"
        BY RoleDistinct DEF Init, ControllerStart, RuntimeInit
    <2>2. pc[r] = "idle"
        BY RoleDistinct DEF Init
    <2> QED
        BY <2>1, <2>2 DEF SerialOK, HasModel
<1> QED
    BY <1>1, <1>2, InitInv DEF SerialInv

LEMMA SerialNext == SerialInv /\ [Next]_vars => SerialInv'
<1> SUFFICES ASSUME SerialInv, [Next]_vars PROVE SerialInv'
    OBVIOUS
<1>1. IInv'
    BY NextInv DEF SerialInv
<1>2. LifespanAlone'
    BY LifespanAloneStep DEF SerialInv
<1>3. ASSUME MaxConcurrent = 1, NEW r \in Reqs
      PROVE  SerialOK(r)'
    <2>1. CASE \E s \in Reqs : Arrive(s) \/ RequestStep(s) \/ Collect(s)
        BY <1>3, <2>1, RequestSerial
    <2>2. CASE \E t \in Actors : ServiceStep(t)
        BY <1>3, <2>2, OwnServiceStep, OtherServiceStep
    <2>3. CASE \/ \E p \in Patches : SendPatch(p)
               \/ LifespanStep \/ BeginShutdown \/ Terminated \/ UNCHANGED vars
        BY <1>3, <2>3, OtherSerial
    <2> QED
        BY <2>1, <2>2, <2>3 DEF Next
<1> QED
    BY <1>1, <1>2, <1>3 DEF SerialInv

(* With one generation at a time a request is never answered                *)
(* MODEL_NOT_READY and generates on the very copy that is bound, whatever   *)
(* PATCH requests, shutdowns and failures happen around it                  *)
(* (gemma4_provider.py 107-146).                                            *)
THEOREM SoleRequestKeepsModel == Spec => []SoleRequestKeepsItsModel
<1>1. SerialInv => SoleRequestKeepsItsModel
    BY DEF SerialInv, SerialOK, SoleRequestKeepsItsModel
<1> QED
    BY <1>1, SerialInit, SerialNext, PTL DEF Spec

-----------------------------------------------------------------------------
(* What the status says of the model. Whoever is inside ensure_loaded or    *)
(* the cleanup is there alone, so what it found out about loaded still      *)
(* holds when it writes the status.                                         *)
FoundLoaded == {"ensure_mark", "ensure_remark", "load_returned"}
FoundEmpty  == {"ensure_loading", "load_raised", "release_tensors", "unload_returned"}
Unloading   == {"unbind_processor", "release_tensors", "unload_returned"}

LoadedOK ==
    /\ \A t \in Actors : pc[t] \in FoundLoaded => Loaded
    /\ \A t \in Actors : pc[t] \in FoundEmpty => ~Loaded
    /\ ~CleanupMayFail /\ status = "ready" =>
          Loaded \/ \E t \in Actors : pc[t] \in Unloading

LEMMA LoadedInit == Init => LoadedOK
BY DEF Init, ControllerStart, RuntimeInit, LoadedOK, FoundLoaded, FoundEmpty

(* Two actors are never in the runtime's calls together, the lifespan       *)
(* included.                                                                *)
LEMMA NobodyElse ==
    ASSUME IInv, LifespanAlone, MaxConcurrent = 1,
           NEW t \in Actors, pc[t] \in EnsureLabels \union AfterLabels,
           NEW u \in Actors, u # t
    PROVE  pc[u] \notin EnsureLabels \union AfterLabels
<1> SUFFICES ASSUME pc[u] \in EnsureLabels \union AfterLabels PROVE FALSE
    OBVIOUS
<1>1. \A v \in Reqs : pc[v] \in EnsureLabels \union AfterLabels => v \in Admitted
    BY DEF Admitted, RuntimeLabels, LoaderLabels, EnsureLabels, AfterLabels
<1>2. t \notin Reqs /\ u \notin Reqs
    BY <1>1, Alone
<1>3. t \notin Patches /\ u \notin Patches
    BY DEF IInv, RolesOK, UpdateLabels, EnsureLabels, AfterLabels
<1> QED
    BY <1>2, <1>3, RoleDistinct

(* A statement of the actor that is in there.                               *)
LEMMA LoadedService ==
    ASSUME IInv, LifespanAlone, MaxConcurrent = 1, LoadedOK,
           NEW t \in Actors, ControllerStep(t)
    PROVE  LoadedOK'
<1> USE DEF Goto
<1>1. pc \in [Actors -> ServerLabels] /\ t # None
    BY LoaderAssumption DEF IInv, ServiceTypeOK
<1>2. PICK l \in EnsureLabels \union AfterLabels \union UpdateLabels :
              /\ pc' = [pc EXCEPT ![t] = l]
              /\ \/ pc[t] \in EnsureLabels /\ l \in EnsureLabels
                 \/ pc[t] \in AfterLabels /\ l \in AfterLabels
                 \/ pc[t] \in UpdateLabels /\ l \in UpdateLabels
    BY ServiceMoves DEF IInv
<1>3. CASE pc[t] \notin EnsureLabels \union AfterLabels
    <2>1. pc[t] \in UpdateLabels /\ l \in UpdateLabels
        BY <1>2, <1>3
    <2>2. UNCHANGED <<model, processor>>
        BY <1>3, LoaderUntouched
    <2>3. status' = status
        BY <1>3 DEF ControllerStep, RuntimeStep, Ensure, EnsureMark, EnsureWait,
           EnsureRemark, EnsureLoading, EnsureLoaded, EnsureFails, AfterMode, AfterFlag,
           UnloadMark, ConfigureMode, ConfigureRest, UpdateEnter, UpdateReturn,
           runtimeVars, EnsureLabels, AfterLabels
    <2>4. \A u \in Actors : \/ pc'[u] = pc[u]
                            \/ pc'[u] \in UpdateLabels /\ pc[u] \in UpdateLabels
        BY <1>1, <1>2, <2>1
    <2> QED
        BY <2>2, <2>3, <2>4 DEF LoadedOK, Loaded, FoundLoaded, FoundEmpty, Unloading,
           UpdateLabels
<1>4. CASE pc[t] \in EnsureLabels \union AfterLabels
    <2>1. pc'[t] = l /\ \A u \in Actors \ {t} : pc'[u] \notin EnsureLabels \union AfterLabels
        BY <1>1, <1>2, <1>4, NobodyElse
    <2>2. ~CleanupMayFail /\ status = "ready" => Loaded \/ pc[t] \in Unloading
        BY <1>4, NobodyElse DEF LoadedOK, Unloading, AfterLabels
    <2>3. /\ l \in FoundLoaded => Loaded'
          /\ l \in FoundEmpty => ~Loaded'
          /\ ~CleanupMayFail /\ status' = "ready" => Loaded' \/ l \in Unloading
        <3> USE DEF FoundLoaded, FoundEmpty, Unloading
        <3>1. CASE /\ Load(t) \/ LoadLock(t)
                   /\ UNCHANGED runtimeVars
            BY <1>1, <2>1, <2>2, <3>1 DEF Load, LoadLock, Loaded, loaderVars, runtimeVars
        <3>2. CASE BindModel(t) /\ UNCHANGED runtimeVars
            BY <1>1, <2>1, <2>2, <3>2 DEF BindModel, Loaded, runtimeVars
        <3>3. CASE BuildFails(t) /\ UNCHANGED runtimeVars
            BY <1>1, <2>1, <2>2, <3>3 DEF BuildFails, Loaded, runtimeVars, IInv, BindingOK,
               BuildsOnEmpty
        <3>4. CASE BindProcessor(t) /\ UNCHANGED runtimeVars
            BY <1>1, <2>1, <3>4 DEF BindProcessor, Loaded, IInv, BindingOK
        <3>5. CASE /\ UnbindModel(t) \/ UnbindProcessor(t)
                   /\ UNCHANGED runtimeVars
            BY <1>1, <2>1, <3>5 DEF UnbindModel, UnbindProcessor, Loaded
        <3>6. CASE ReleaseTensors(t) /\ UNCHANGED runtimeVars
            <4>1. ~Loaded /\ ~Loaded'
                BY <3>6 DEF ReleaseTensors, LoadedOK, Loaded, loaderVars
            <4>2. ASSUME ~CleanupMayFail PROVE l = "unload_returned"
                <5>1. PICK failed \in {FALSE, CleanupMayFail} :
                         Goto(t, IF failed THEN "unload_raised" ELSE "unload_returned")
                    BY <3>6 DEF ReleaseTensors
                <5>2. ~failed
                    BY <4>2
                <5>3. Goto(t, "unload_returned")
                    BY <5>1, <5>2
                <5> QED
                    BY <1>1, <2>1, <5>3
            <4>3. l \in {"unload_returned", "unload_raised"}
                BY <1>1, <2>1, <3>6 DEF ReleaseTensors
            <4> QED
                BY <4>1, <4>2, <4>3
        <3>7. CASE EnsureMark(t) \/ EnsureRemark(t) \/ EnsureLoaded(t)
            <4>1. Loaded /\ Loaded' /\ l = "ensure_ok"
                BY <1>1, <2>1, <3>7 DEF EnsureMark, EnsureRemark, EnsureLoaded, LoadedOK,
                   Loaded, loaderVars
            <4> QED
                BY <4>1
        <3>8. CASE EnsureLoading(t) \/ EnsureFails(t) \/ UnloadMark(t)
            BY <1>1, <2>1, <3>8 DEF EnsureLoading, EnsureFails, UnloadMark
        <3>9. CASE Ensure(t) \/ EnsureWait(t) \/ AfterMode(t) \/ AfterFlag(t)
            BY <1>1, <2>1, <2>2, <3>9 DEF Ensure, EnsureWait, AfterMode, AfterFlag, Loaded,
               loaderVars, runtimeVars
        <3>10. ~(ConfigureMode(t) \/ ConfigureRest(t) \/ UpdateEnter(t) \/ UpdateReturn(t))
            BY <1>4 DEF ConfigureMode, ConfigureRest, UpdateEnter, UpdateReturn,
               EnsureLabels, AfterLabels
        <3> QED
            BY <3>1, <3>2, <3>3, <3>4, <3>5, <3>6, <3>7, <3>8, <3>9, <3>10
               DEF ControllerStep, RuntimeStep, LoaderStep
    <2>4. \A u \in Actors \ {t} : pc'[u] \notin FoundLoaded \union FoundEmpty
        BY <2>1 DEF FoundLoaded, FoundEmpty, EnsureLabels, AfterLabels
    <2> QED
        BY <2>1, <2>3, <2>4 DEF LoadedOK
<1> QED
    BY <1>3, <1>4

(* The steps outside the runtime.                                           *)
LEMMA LoadedOutside ==
    ASSUME IInv, LoadedOK,
           \/ \E r \in Reqs : Arrive(r) \/ RequestStep(r) \/ Collect(r)
           \/ \E p \in Patches : SendPatch(p)
           \/ LifespanStep \/ BeginShutdown \/ Terminated \/ UNCHANGED vars
    PROVE  LoadedOK'
<1> USE DEF Goto, FoundLoaded, FoundEmpty, Unloading
<1>1. pc \in [Actors -> ServerLabels]
    BY DEF IInv, ServiceTypeOK
<1>2. /\ UNCHANGED <<model, processor, status>>
      /\ \A u \in Actors :
            \/ pc'[u] = pc[u]
            \/ /\ pc[u] \notin FoundLoaded \union FoundEmpty \union Unloading
               /\ pc'[u] \notin FoundLoaded \union FoundEmpty \union Unloading
    <2>1. CASE \E r \in Reqs : Arrive(r) \/ RequestStep(r) \/ Collect(r)
        <3>1. PICK r \in Reqs : Arrive(r) \/ RequestStep(r) \/ Collect(r)
            BY <2>1
        <3>2. CASE \/ Arrive(r) \/ Analyze(r) \/ Acquire(r) \/ LoadFailed(r)
                   \/ ReadModel(r) \/ ReadProcessor(r)
            BY <1>1, <3>2, RoleDistinct DEF Arrive, Analyze, Acquire, LoadFailed,
               ReadModel, ReadProcessor, loaderVars, runtimeVars
        <3>3. CASE \/ GenerateReturns(r) \/ GenerateRaises(r) \/ Finish(r) \/ Reply(r)
                   \/ Collect(r)
            BY <1>1, <3>3, RoleDistinct DEF GenerateReturns, GenerateRaises, Finish,
               Reply, Collect, loaderVars, runtimeVars
        <3> QED
            BY <3>1, <3>2, <3>3 DEF RequestStep
    <2>2. CASE \E p \in Patches : SendPatch(p)
        BY <1>1, <2>2, RoleDistinct DEF SendPatch, loaderVars, runtimeVars
    <2>3. CASE LifespanStep \/ BeginShutdown
        BY <1>1, <2>3, RoleDistinct DEF LifespanStep, Startup, StartupDone,
           StartupFailed, Drained, Stopped, BeginShutdown, Serving, loaderVars, runtimeVars
    <2>4. CASE Terminated \/ UNCHANGED vars
        BY <2>4 DEF Terminated, vars, loaderVars, runtimeVars
    <2> QED
        BY <2>1, <2>2, <2>3, <2>4
<1> QED
    BY <1>2 DEF LoadedOK, Loaded

LEMMA LoadedNext ==
    MaxConcurrent = 1 /\ SerialInv /\ LoadedOK /\ [Next]_vars => LoadedOK'
BY LoadedService, LoadedOutside DEF SerialInv, ServiceStep, Next

-----------------------------------------------------------------------------
(* The same without PATCH requests, at every limit. Requests overlap now,   *)
(* so READY may be written for a model that was unloaded since; but where   *)
(* requests unload, whoever is between its READY and its own NOT_LOADED     *)
(* still owes the latter.                                                   *)
Unloads == mode = "cold" /\ unloadAfter

Working == EnsureLabels \union {"read_processor", "generate", "after", "after_flag", "unload"}

Owes(t) == \/ pc[t] \in Unloading
           \/ t \in Reqs /\ Unloads /\ pc[t] \in Working

RestOK ==
    /\ ~Unloads => \A r \in Reqs : /\ pc[r] \notin Unloading \union {"unload"}
                                   /\ mode # "cold" => pc[r] # "after_flag"
    /\ \A t \in Actors : pc[t] \in FoundLoaded => Loaded \/ Owes(t)
    /\ status = "ready" => Loaded \/ \E t \in Actors : Owes(t)

LEMMA RestInit == Init => RestOK
<1> SUFFICES ASSUME Init PROVE RestOK
    OBVIOUS
<1>1. status = "not_loaded"
    BY DEF Init, ControllerStart, RuntimeInit
<1>2. \A t \in Actors : pc[t] \in {"starting", "idle"}
    BY DEF Init
<1> QED
    BY <1>1, <1>2, RoleDistinct DEF RestOK, FoundLoaded, Unloading

(* A loaded model is lost only to the actor that unbinds it.                *)
LEMMA LoadedUntilUnbound ==
    ASSUME IInv, NEW t \in Actors, ControllerStep(t),
           pc[t] \notin {"unload", "unbind_processor"}, Loaded
    PROVE  Loaded'
<1>1. ~BindModel(t)
    BY DEF BindModel, IInv, BindingOK, BuildsOnEmpty, Loaded
<1>2. ~UnbindModel(t) /\ ~UnbindProcessor(t)
    BY DEF UnbindModel, UnbindProcessor
<1>3. CASE BindProcessor(t)
    BY <1>3, LoaderAssumption DEF BindProcessor, Loaded
<1>4. CASE ~BindProcessor(t)
    <2>1. UNCHANGED <<model, processor>>
        BY <1>1, <1>2, <1>4 DEF ControllerStep, RuntimeStep, LoaderStep, Load,
           LoadLock, BuildFails, ReleaseTensors, Ensure, EnsureMark, EnsureWait,
           EnsureRemark, EnsureLoading, EnsureLoaded, EnsureFails, AfterMode,
           AfterFlag, UnloadMark, ConfigureMode, ConfigureRest, UpdateEnter,
           UpdateReturn, loaderVars
    <2> QED
        BY <2>1 DEF Loaded
<1> QED
    BY <1>3, <1>4

(* Whoever is told that the model is loaded comes from a look at it.        *)
LEMMA FoundIsLoaded ==
    ASSUME IInv, NEW t \in Actors, ControllerStep(t), pc'[t] \in FoundLoaded
    PROVE  Loaded'
<1> USE DEF Goto, FoundLoaded
<1>1. pc \in [Actors -> ServerLabels]
    BY DEF IInv, ServiceTypeOK
<1>2. CASE Ensure(t) \/ EnsureWait(t) \/ Load(t) \/ LoadLock(t)
    BY <1>1, <1>2 DEF Ensure, EnsureWait, Load, LoadLock, Loaded, loaderVars
<1>3. CASE BindProcessor(t)
    BY <1>3, LoaderAssumption DEF BindProcessor, IInv, BindingOK, Loaded
<1>4. ~(\/ BindModel(t) \/ BuildFails(t) \/ UnbindModel(t) \/ UnbindProcessor(t)
        \/ ReleaseTensors(t) \/ EnsureMark(t) \/ EnsureRemark(t) \/ EnsureLoading(t)
        \/ EnsureLoaded(t) \/ EnsureFails(t) \/ AfterMode(t) \/ AfterFlag(t)
        \/ UnloadMark(t) \/ ConfigureMode(t) \/ ConfigureRest(t) \/ UpdateEnter(t)
        \/ UpdateReturn(t))
    BY <1>1 DEF BindModel, BuildFails, UnbindModel, UnbindProcessor, ReleaseTensors,
       EnsureMark, EnsureRemark, EnsureLoading, EnsureLoaded, EnsureFails, AfterMode,
       AfterFlag, UnloadMark, ConfigureMode, ConfigureRest, UpdateEnter, UpdateReturn
<1> QED
    BY <1>2, <1>3, <1>4 DEF ControllerStep, RuntimeStep, LoaderStep

(* READY is written by those who found the model loaded, and NOT_LOADED by  *)
(* those who owe it.                                                        *)
LEMMA StatusWriters ==
    ASSUME NEW t \in Actors, ControllerStep(t)
    PROVE  /\ status' = "ready" => status = "ready" \/ pc[t] \in FoundLoaded
           /\ pc[t] = "unload_returned" => status' = "not_loaded"
<1>1. CASE pc[t] \in FoundLoaded
    BY <1>1 DEF FoundLoaded
<1>2. CASE pc[t] \notin FoundLoaded
    <2>1. status' \in {status, "loading", "error", "not_loaded"}
        BY <1>2 DEF FoundLoaded, ControllerStep, RuntimeStep, LoaderStep, Ensure,
           EnsureMark, EnsureWait, EnsureRemark, EnsureLoading, EnsureLoaded,
           EnsureFails, AfterMode, AfterFlag, UnloadMark, ConfigureMode, ConfigureRest,
           UpdateEnter, UpdateReturn, runtimeVars
    <2>2. pc[t] = "unload_returned" => status' = "not_loaded"
        BY DEF ControllerStep, RuntimeStep, LoaderStep, Load, LoadLock, BindModel,
           BuildFails, BindProcessor, UnbindModel, UnbindProcessor, ReleaseTensors,
           Ensure, EnsureMark, EnsureWait, EnsureRemark, EnsureLoading, EnsureLoaded,
           EnsureFails, AfterMode, AfterFlag, UnloadMark, ConfigureMode, ConfigureRest,
           UpdateEnter, UpdateReturn
    <2> QED
        BY <2>1, <2>2
<1> QED
    BY <1>1, <1>2

(* The way of an actor through the cleanup, when gc and empty_cache do not  *)
(* raise.                                                                   *)
LEMMA CleanupMoves ==
    ASSUME IInv, ~CleanupMayFail, NEW t \in Actors, ControllerStep(t)
    PROVE  /\ pc[t] \in {"unload", "unbind_processor", "release_tensors"} => pc'[t] \in Unloading
           /\ pc[t] = "after" => pc'[t] = (IF mode = "cold" THEN "after_flag" ELSE "after_ok")
           /\ pc[t] = "after_flag" => pc'[t] = (IF unloadAfter THEN "unload" ELSE "after_ok")
           /\ pc[t] \in EnsureLabels => pc'[t] \in EnsureLabels
           /\ pc[t] \in AfterLabels => pc'[t] \in AfterLabels
           /\ pc[t] = "unload_returned" => pc'[t] = "unloaded"
           /\ pc[t] \notin {"unload_raised", "unloaded", "after_ok"}
<1> USE DEF Goto, Unloading
<1>1. pc \in [Actors -> ServerLabels]
    BY DEF IInv, ServiceTypeOK
<1>2. PICK l \in EnsureLabels \union AfterLabels \union UpdateLabels :
              /\ pc' = [pc EXCEPT ![t] = l]
              /\ \/ pc[t] \in EnsureLabels /\ l \in EnsureLabels
                 \/ pc[t] \in AfterLabels /\ l \in AfterLabels
                 \/ pc[t] \in UpdateLabels /\ l \in UpdateLabels
    BY ServiceMoves DEF IInv
<1>3. /\ pc[t] \in EnsureLabels => pc'[t] \in EnsureLabels
      /\ pc[t] \in AfterLabels => pc'[t] \in AfterLabels
    BY <1>1, <1>2 DEF EnsureLabels, AfterLabels, UpdateLabels
<1>4. CASE pc[t] = "release_tensors"
    <2>1. ReleaseTensors(t)
        BY <1>4 DEF ControllerStep, RuntimeStep, LoaderStep, Load, LoadLock, BindModel,
           BuildFails, BindProcessor, UnbindModel, UnbindProcessor, Ensure, EnsureMark,
           EnsureWait, EnsureRemark, EnsureLoading, EnsureLoaded, EnsureFails, AfterMode,
           AfterFlag, UnloadMark, ConfigureMode, ConfigureRest, UpdateEnter, UpdateReturn
    <2>2. PICK failed \in {FALSE, CleanupMayFail} :
             Goto(t, IF failed THEN "unload_raised" ELSE "unload_returned")
        BY <2>1 DEF ReleaseTensors
    <2>3. ~failed
        OBVIOUS
    <2>4. pc'[t] = "unload_returned"
        BY <1>1, <2>2, <2>3
    <2> QED
        BY <1>3, <1>4, <2>4
<1>5. CASE pc[t] \in {"after", "after_flag", "unload", "unbind_processor",
                      "unload_returned", "unload_raised", "unloaded", "after_ok"}
    <2>1. \/ AfterMode(t) \/ AfterFlag(t) \/ UnbindModel(t) \/ UnbindProcessor(t)
          \/ UnloadMark(t)
        BY <1>5 DEF ControllerStep, RuntimeStep, LoaderStep, Load, LoadLock, BindModel,
           BuildFails, BindProcessor, ReleaseTensors, Ensure, EnsureMark,
           EnsureWait, EnsureRemark, EnsureLoading, EnsureLoaded, EnsureFails,
           ConfigureMode, ConfigureRest, UpdateEnter, UpdateReturn
    <2> QED
        BY <1>1, <1>3, <2>1 DEF AfterMode, AfterFlag, UnbindModel, UnbindProcessor, UnloadMark
<1> QED
    BY <1>3, <1>4, <1>5

-----------------------------------------------------------------------------
(* A statement of a request in the runtime.                                 *)
LEMMA RestOfRequest ==
    ASSUME IInv, LifespanAlone, Unpatched, RestOK, ~CleanupMayFail,
           UNCHANGED <<mode, unloadAfter>>, NEW r \in Reqs, ControllerStep(r)
    PROVE  RestOK'
<1> USE DEF Unloading, FoundLoaded
<1>1. pc \in [Actors -> ServerLabels] /\ r \in Actors
    BY RoleDistinct DEF IInv, ServiceTypeOK
<1>2. PICK l \in EnsureLabels \union AfterLabels \union UpdateLabels :
              /\ pc' = [pc EXCEPT ![r] = l]
              /\ \/ pc[r] \in EnsureLabels /\ l \in EnsureLabels
                 \/ pc[r] \in AfterLabels /\ l \in AfterLabels
                 \/ pc[r] \in UpdateLabels /\ l \in UpdateLabels
    BY <1>1, ServiceMoves DEF IInv
<1>3. pc'[r] = l /\ \A u \in Actors \ {r} : pc'[u] = pc[u]
    BY <1>1, <1>2
<1>4. pc[r] \in EnsureLabels \union AfterLabels
    BY <1>2, RoleDistinct DEF IInv, RolesOK, RequestLabels, UpdateLabels, EnsureLabels,
       AfterLabels
<1>5. pc[Lifespan] \in {"serving", "draining"}
    BY <1>4 DEF LifespanAlone, EnsureLabels, AfterLabels
<1>6. \A u \in Actors : u \notin Reqs => pc[u] \notin FoundLoaded \union Unloading
    BY <1>5, RoleDistinct DEF Unpatched
<1>7. \A u \in Actors \ {r} : Owes(u)' = Owes(u)
    BY <1>3 DEF Owes, Unloads
<1>8. CASE Unloads
    <2>1. Owes(r)' \/ status' = "not_loaded"
        <3>1. Unloads'
            BY <1>8 DEF Unloads
        <3>2. CASE pc[r] \in EnsureLabels
            BY <1>1, <3>1, <3>2, CleanupMoves DEF Owes, Working
        <3>3. CASE pc[r] \in {"after", "after_flag"}
            BY <1>1, <1>8, <3>1, <3>3, CleanupMoves DEF Owes, Working, Unloads
        <3>4. CASE pc[r] \in {"unload", "unbind_processor", "release_tensors"}
            BY <1>1, <3>4, CleanupMoves DEF Owes
        <3>5. CASE pc[r] = "unload_returned"
            BY <1>1, <3>5, StatusWriters
        <3>6. pc[r] \notin {"unload_raised", "unloaded", "after_ok"}
            BY <1>1, CleanupMoves
        <3> QED
            BY <1>4, <3>2, <3>3, <3>4, <3>5, <3>6 DEF AfterLabels
    <2>2. \A u \in Actors : pc'[u] \in FoundLoaded => Owes(u)'
        <3>1. \A u \in Reqs : pc'[u] \in FoundLoaded => Owes(u)'
            BY <1>8 DEF Owes, Unloads, Working, EnsureLabels
        <3> QED
            BY <1>3, <1>6, <3>1
    <2> QED
        BY <1>1, <1>8, <2>1, <2>2 DEF RestOK, Unloads
<1>9. CASE ~Unloads
    <2>1. pc[r] \notin Unloading \union {"unload"}
        BY <1>9 DEF RestOK
    <2>2. l \notin Unloading \union {"unload"} /\ (mode # "cold" => l # "after_flag")
        BY <1>1, <1>3, <1>4, <1>9, <2>1, CleanupMoves
           DEF RestOK, Unloads, EnsureLabels, AfterLabels
    <2>3. \A u \in Actors : ~Owes(u)
        BY <1>6, <1>9 DEF Owes, RestOK
    <2>4. Loaded => Loaded'
        BY <1>1, <2>1, LoadedUntilUnbound
    <2>5. l \in FoundLoaded => Loaded'
        BY <1>1, <1>3, FoundIsLoaded
    <2>6. \A u \in Actors : pc'[u] \in FoundLoaded => Loaded'
        BY <1>3, <2>3, <2>4, <2>5 DEF RestOK
    <2>7. status' = "ready" => Loaded'
        BY <1>1, <2>3, <2>4, StatusWriters DEF RestOK
    <2>8. \A q \in Reqs : /\ pc'[q] \notin Unloading \union {"unload"}
                          /\ mode # "cold" => pc'[q] # "after_flag"
        BY <1>3, <1>9, <2>2, RoleDistinct DEF RestOK
    <2> HIDE DEF Unloading, FoundLoaded
    <2> QED
        BY <2>6, <2>7, <2>8 DEF RestOK, Unloads
<1> QED
    BY <1>8, <1>9

(* A statement of the lifespan: startup, or the unload at the end.          *)
LEMMA RestOfLifespan ==
    ASSUME IInv, LifespanAlone, Unpatched, RestOK, ~CleanupMayFail,
           UNCHANGED <<mode, unloadAfter>>, ControllerStep(Lifespan)
    PROVE  RestOK'
<1> USE DEF Unloading, FoundLoaded
<1>1. pc \in [Actors -> ServerLabels] /\ Lifespan \in Actors
    BY RoleDistinct DEF IInv, ServiceTypeOK
<1>2. PICK l \in EnsureLabels \union AfterLabels \union UpdateLabels :
              /\ pc' = [pc EXCEPT ![Lifespan] = l]
              /\ \/ pc[Lifespan] \in EnsureLabels /\ l \in EnsureLabels
                 \/ pc[Lifespan] \in AfterLabels /\ l \in AfterLabels
                 \/ pc[Lifespan] \in UpdateLabels /\ l \in UpdateLabels
    BY <1>1, ServiceMoves DEF IInv
<1>3. pc'[Lifespan] = l /\ \A u \in Actors \ {Lifespan} : pc'[u] = pc[u]
    BY <1>1, <1>2
<1>4. pc[Lifespan] \in EnsureLabels \union AfterLabels
    BY <1>2 DEF IInv, RolesOK, LifespanLabels, UpdateLabels, EnsureLabels, AfterLabels
<1>5. \A u \in Actors \ {Lifespan} : pc[u] \in {"idle", "done"}
    BY <1>4, RoleDistinct DEF LifespanAlone, Unpatched, EnsureLabels, AfterLabels
<1>6. \A u \in Actors \ {Lifespan} : ~Owes(u)
    BY <1>5 DEF Owes, Working, EnsureLabels
<1>7. \A r \in Reqs : pc'[r] \in {"idle", "done"}
    BY <1>3, <1>5, RoleDistinct
<1>8. \A u \in Actors \ {Lifespan} : pc'[u] \notin FoundLoaded
    BY <1>3, <1>5
<1>9. l \in FoundLoaded => Loaded'
    BY <1>1, <1>3, FoundIsLoaded
<1>10. status' = "ready" => Loaded' \/ Owes(Lifespan)'
    <2>1. CASE pc[Lifespan] \in Unloading \union {"unload"}
        BY <1>1, <2>1, CleanupMoves, StatusWriters DEF Owes
    <2>2. CASE pc[Lifespan] \notin Unloading \union {"unload"}
        <3>1. ~Owes(Lifespan)
            BY <2>2, RoleDistinct DEF Owes
        <3>2. status' = "ready" => Loaded
            BY <1>1, <1>6, <3>1, StatusWriters DEF RestOK
        <3>3. Loaded => Loaded'
            BY <1>1, <2>2, LoadedUntilUnbound
        <3> QED
            BY <3>2, <3>3
    <2> QED
        BY <2>1, <2>2
<1> QED
    BY <1>1, <1>3, <1>7, <1>8, <1>9, <1>10 DEF RestOK

(* A step outside the runtime: no debt is taken on or forgotten.            *)
LEMMA RestHop ==
    ASSUME IInv, RestOK, UNCHANGED <<loaderVars, runtimeVars>>,
           NEW t \in Actors, NEW l, pc' = [pc EXCEPT ![t] = l],
           pc[t] \notin Unloading, l \notin FoundLoaded \union Unloading,
           t \in Reqs => /\ l \notin {"unload", "after_flag"}
                         /\ pc[t] \in Working => l \in Working
    PROVE  RestOK'
<1>1. ASSUME NEW u \in Actors
      PROVE  pc'[u] = (IF u = t THEN l ELSE pc[u])
    BY DEF IInv, ServiceTypeOK
<1>2. UNCHANGED <<mode, unloadAfter, status, model, processor>>
    BY DEF runtimeVars, flagVars, loaderVars
<1>3. ASSUME NEW u \in Actors, Owes(u) PROVE Owes(u)'
    BY <1>1, <1>2, <1>3 DEF Owes, Unloads
<1>4. Loaded' = Loaded /\ Unloads' = Unloads
    BY <1>2 DEF Loaded, Unloads
<1>5. \A u \in Actors : pc'[u] \in FoundLoaded => Loaded' \/ Owes(u)'
    BY <1>1, <1>3, <1>4 DEF RestOK
<1>6. status' = "ready" => Loaded' \/ \E u \in Actors : Owes(u)'
    BY <1>2, <1>3, <1>4 DEF RestOK
<1>7. ASSUME ~Unloads, NEW r \in Reqs
      PROVE  /\ pc'[r] \notin Unloading \union {"unload"}
             /\ mode # "cold" => pc'[r] # "after_flag"
    BY <1>1, <1>7, RoleDistinct DEF RestOK
<1> QED
    BY <1>2, <1>4, <1>5, <1>6, <1>7 DEF RestOK

LEMMA RestNext ==
    ASSUME IInv, LifespanAlone, Unpatched, Unpatched', RestOK, ~CleanupMayFail, [Next]_vars
    PROVE  RestOK'
<1> USE DEF Goto
<1>1. UNCHANGED <<mode, unloadAfter>>
    BY UnpatchedBack
<1>2. pc \in [Actors -> ServerLabels]
    BY DEF IInv, ServiceTypeOK
<1>3. ASSUME NEW r \in Reqs, Arrive(r) \/ RequestStep(r)
      PROVE  RestOK'
    <2>1. PICK l \in {"analyze", "acquire", "reply", "ensure", "after",
                      "read_processor", "generate", "done"} :
              /\ pc' = [pc EXCEPT ![r] = l]
              /\ pc[r] \notin Unloading
              /\ pc[r] \in Working => l \in Working
        BY <1>3 DEF Arrive, RequestStep, Analyze, Acquire, LoadFailed, ReadModel,
           ReadProcessor, GenerateReturns, GenerateRaises, Finish, Reply, Unloading,
           Working, EnsureLabels
    <2>2. UNCHANGED <<loaderVars, runtimeVars>>
        BY <1>3 DEF Arrive, RequestStep, Analyze, Acquire, LoadFailed, ReadModel,
           ReadProcessor, GenerateReturns, GenerateRaises, Finish, Reply
    <2>3. l \notin FoundLoaded \union Unloading \union {"unload", "after_flag"}
        BY DEF FoundLoaded, Unloading
    <2> QED
        BY <2>1, <2>2, <2>3, RestHop, RoleDistinct
<1>4. ASSUME NEW p \in Patches, SendPatch(p)
      PROVE  RestOK'
    BY <1>2, <1>4, RoleDistinct DEF SendPatch, Unpatched
<1>5. ASSUME NEW t \in Actors, ServiceStep(t)
      PROVE  RestOK'
    <2>1. ControllerStep(t)
        BY <1>5 DEF ServiceStep
    <2>2. t \notin Patches
        <3>1. PICK l \in EnsureLabels \union AfterLabels \union UpdateLabels :
                  /\ pc' = [pc EXCEPT ![t] = l]
                  /\ \/ pc[t] \in EnsureLabels /\ l \in EnsureLabels
                     \/ pc[t] \in AfterLabels /\ l \in AfterLabels
                     \/ pc[t] \in UpdateLabels /\ l \in UpdateLabels
            BY <2>1, ServiceMoves DEF IInv
        <3>2. pc[t] # "idle"
            BY <3>1 DEF EnsureLabels, AfterLabels, UpdateLabels
        <3> QED
            BY <3>2 DEF Unpatched
    <2> QED
        BY <1>1, <2>1, <2>2, RestOfRequest, RestOfLifespan, RoleDistinct
<1>6. CASE LifespanStep \/ BeginShutdown
    <2>1. PICK l \in {"ensure", "serving", "unload", "draining", "stopped"} :
              pc' = [pc EXCEPT ![Lifespan] = l] /\ pc[Lifespan] \notin Unloading
        BY <1>6 DEF LifespanStep, Startup, StartupDone, StartupFailed, Drained,
           Stopped, BeginShutdown, Serving, Unloading
    <2>2. UNCHANGED <<loaderVars, runtimeVars>>
        BY <1>6 DEF LifespanStep, Startup, StartupDone, StartupFailed, Drained,
           Stopped, BeginShutdown
    <2>3. l \notin FoundLoaded \union Unloading
        BY DEF FoundLoaded, Unloading
    <2> QED
        BY <2>1, <2>2, <2>3, RestHop, RoleDistinct
<1>7. CASE (\E r \in Reqs : Collect(r)) \/ Terminated \/ UNCHANGED vars
    <2>1. UNCHANGED <<pc, loaderVars, runtimeVars>>
        BY <1>7 DEF Collect, Terminated, vars
    <2> QED
        BY <2>1 DEF RestOK, Owes, Unloads, Loaded, loaderVars, runtimeVars, flagVars
<1> QED
    BY <1>3, <1>4, <1>5, <1>6, <1>7 DEF Next

RestInv == /\ SerialInv
           /\ ~CleanupMayFail /\ MaxConcurrent = 1 => LoadedOK
           /\ ~CleanupMayFail /\ Unpatched => RestOK

LEMMA RestInvNext == RestInv /\ [Next]_vars => RestInv'
<1> SUFFICES ASSUME RestInv, [Next]_vars PROVE RestInv'
    OBVIOUS
<1>1. SerialInv'
    BY SerialNext DEF RestInv
<1>2. ~CleanupMayFail /\ MaxConcurrent = 1 => LoadedOK'
    BY LoadedNext DEF RestInv
<1>3. ASSUME ~CleanupMayFail, Unpatched' PROVE RestOK'
    <2>1. Unpatched
        BY <1>3, UnpatchedBack DEF RestInv, SerialInv
    <2> QED
        BY <1>3, <2>1, RestNext DEF RestInv, SerialInv
<1> QED
    BY <1>1, <1>2, <1>3 DEF RestInv

(* With a cleanup that does not fail, a service at rest reports READY only  *)
(* for a loaded model, although READY and NOT_LOADED are written with no    *)
(* lock held: at every limit of concurrent generations until the first      *)
(* PATCH, and across PATCH requests with one generation at a time           *)
(* (runtime.py 47-51, 84-87, 102-108).                                      *)
THEOREM ReadyIsTrueAtRest == Spec => []ReadyIsTrue
<1>1. RestInv => ReadyIsTrue
    <2> SUFFICES ASSUME RestInv, ~CleanupMayFail, Unpatched \/ MaxConcurrent = 1,
                        AtRest, ReportedStatus = "ready"
                 PROVE  Loaded
        BY DEF ReadyIsTrue, ReadyMeansLoaded
    <2>1. Loaded \/ status = "ready"
        BY DEF ReportedStatus
    <2>2. \A t \in Actors : pc[t] \notin Unloading /\ ~Owes(t)
        BY DEF AtRest, Owes, Unloading, Working, EnsureLabels, RuntimeLabels, LoaderLabels
    <2> QED
        BY <2>1, <2>2 DEF RestInv, LoadedOK, RestOK
<1>2. Init => RestInv
    BY SerialInit, LoadedInit, RestInit DEF RestInv
<1> QED
    BY <1>1, <1>2, RestInvNext, PTL DEF Spec
=============================================================================
