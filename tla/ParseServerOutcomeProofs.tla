---------------------- MODULE ParseServerOutcomeProofs ----------------------
(***************************************************************************)
(* What the service leaves behind and what it tells its clients, for every *)
(* set of requests and PATCH requests, every limit, every environment and  *)
(* every combination of faults: answers, the state at exit, the copies in  *)
(* memory, the configuration and the status. Each section strengthens one  *)
(* property to an invariant that is inductive beside IInv.                 *)
(***************************************************************************)
EXTENDS ParseServerModelProofs

(* IInv and LifespanAlone hold whenever a step is taken.                    *)
Base == IInv /\ LifespanAlone

LEMMA BaseInit == Init => Base
  BY SerialInit DEF SerialInv, Base

LEMMA BaseNext == Base /\ [Next]_vars => Base'
  BY NextInv, LifespanAloneStep DEF Base

-----------------------------------------------------------------------------
(* The statements whose presence the configuration and the status speak of. *)
LoadingLabels == {"load", "load_lock", "build", "bind_processor",
                  "load_returned", "load_raised"}
Inside == LoadingLabels \union {"configure", "configure_rest", "configured", "patched"}

(* A step outside the runtime, the loader and the controller changes none   *)
(* of their variables and moves nobody into or out of those statements.     *)
LEMMA OutsideStep ==
    ASSUME IInv,
           \/ \E r \in Reqs : Arrive(r) \/ RequestStep(r) \/ Collect(r)
           \/ \E p \in Patches : SendPatch(p)
           \/ LifespanStep \/ BeginShutdown \/ Terminated \/ UNCHANGED vars
    PROVE  /\ UNCHANGED <<loaderVars, runtimeVars, controllerVars>>
           /\ \A u \in Actors : \/ pc'[u] = pc[u]
                                \/ pc[u] \notin Inside /\ pc'[u] \notin Inside
<1> USE DEF Goto, Inside, LoadingLabels
<1>1. pc \in [Actors -> ServerLabels]
  BY DEF IInv, ServiceTypeOK
<1>2. CASE \E r \in Reqs : Arrive(r) \/ RequestStep(r) \/ Collect(r)
  <2>1. PICK r \in Reqs : Arrive(r) \/ RequestStep(r) \/ Collect(r)
    BY <1>2
  <2>2. CASE Arrive(r) \/ Analyze(r) \/ Acquire(r) \/ LoadFailed(r) \/ ReadModel(r)
    BY <1>1, <2>2, RoleDistinct DEF Arrive, Analyze, Acquire, LoadFailed, ReadModel
  <2>3. CASE ReadProcessor(r) \/ GenerateReturns(r) \/ GenerateRaises(r)
    BY <1>1, <2>3, RoleDistinct DEF ReadProcessor, GenerateReturns, GenerateRaises
  <2>4. CASE Finish(r) \/ Reply(r) \/ Collect(r)
    BY <1>1, <2>4, RoleDistinct DEF Finish, Reply, Collect
  <2>5. QED
    BY <2>1, <2>2, <2>3, <2>4 DEF RequestStep
<1>3. CASE \E p \in Patches : SendPatch(p)
  BY <1>1, <1>3, RoleDistinct DEF SendPatch
<1>4. CASE LifespanStep \/ BeginShutdown
  BY <1>1, <1>4, RoleDistinct DEF LifespanStep, Startup, StartupDone, StartupFailed,
     Drained, Stopped, BeginShutdown, Serving
<1>5. CASE Terminated \/ UNCHANGED vars
  BY <1>5 DEF Terminated, vars
<1>6. QED
  BY <1>2, <1>3, <1>4, <1>5

-----------------------------------------------------------------------------
(* The configuration, step by step of the service.                          *)
LEMMA ConfigInit == Init => ConfigOK
<1> SUFFICES ASSUME Init PROVE ConfigOK
  OBVIOUS
<1>1. PICK env \in Environments :
          /\ RuntimeInit(Settings(env))
          /\ snapshot = Settings(env)
          /\ updateLock = None
  BY DEF Init, ControllerStart
<1>2. Settings(env) \in Config
  BY SettingsType
<1>3. SnapshotAgrees
  BY <1>1, <1>2 DEF RuntimeInit, SnapshotAgrees, RuntimeConfig, Config
<1>4. \A t \in Actors : pc[t] \notin {"configure", "configure_rest", "configured", "patched"}
  BY DEF Init
<1>5. QED
  BY <1>3, <1>4 DEF ConfigOK, ReplyIsOwn

LEMMA ConfigNext == Base /\ ConfigOK /\ [Next]_vars => ConfigOK'
<1> SUFFICES ASSUME Base, ConfigOK, [Next]_vars PROVE ConfigOK'
  OBVIOUS
<1>1. CASE \E t \in Actors : ServiceStep(t)
  BY <1>1, ConfigService DEF Base, IInv, ServiceTypeOK, Typed, LocksOK, ServiceStep
<1>2. CASE \/ \E r \in Reqs : Arrive(r) \/ RequestStep(r) \/ Collect(r)
           \/ \E p \in Patches : SendPatch(p)
           \/ LifespanStep \/ BeginShutdown \/ Terminated \/ UNCHANGED vars
  <2>1. /\ UNCHANGED <<loaderVars, runtimeVars, controllerVars>>
        /\ \A u \in Actors : \/ pc'[u] = pc[u]
                             \/ pc[u] \notin Inside /\ pc'[u] \notin Inside
    BY <1>2, OutsideStep DEF Base
  <2>2. QED
    BY <2>1, ConfigKept DEF Inside, runtimeVars
<1>3. QED
  BY <1>1, <1>2 DEF Next

(* Between PATCH requests the snapshot is what the runtime acts on, for any *)
(* number of them (runtime_mode.py 41-61, runtime.py 76-79).                *)
THEOREM SnapshotIsInForce == Spec => []SnapshotAgrees
<1>1. Base /\ ConfigOK => SnapshotAgrees
  BY DEF ConfigOK
<1>2. QED
  BY <1>1, BaseInit, BaseNext, ConfigInit, ConfigNext, PTL DEF Spec

(* Every PATCH request is answered with its own configuration               *)
(* (runtime_mode.py 41-61).                                                 *)
THEOREM PatchGetsItsOwn == Spec => []ReplyIsOwn
<1>1. Base /\ ConfigOK => ReplyIsOwn
  BY DEF ConfigOK
<1>2. QED
  BY <1>1, BaseInit, BaseNext, ConfigInit, ConfigNext, PTL DEF Spec

-----------------------------------------------------------------------------
(* The status, step by step of the service.                                 *)
LEMMA StatusInit == Init => StatusOK
BY DEF Init, ControllerStart, RuntimeInit, StatusOK, HonestProgress, Loading

LEMMA StatusNext == Base /\ StatusOK /\ [Next]_vars => StatusOK'
<1> SUFFICES ASSUME Base, StatusOK, [Next]_vars PROVE StatusOK'
  OBVIOUS
<1>1. CASE \E t \in Actors : ServiceStep(t)
  BY <1>1, StatusService DEF Base, IInv, ServiceTypeOK, LocksOK, BindingOK, ServiceStep
<1>2. CASE \/ \E r \in Reqs : Arrive(r) \/ RequestStep(r) \/ Collect(r)
           \/ \E p \in Patches : SendPatch(p)
           \/ LifespanStep \/ BeginShutdown \/ Terminated \/ UNCHANGED vars
  <2>1. /\ UNCHANGED <<loaderVars, runtimeVars, controllerVars>>
        /\ \A u \in Actors : \/ pc'[u] = pc[u]
                             \/ pc[u] \notin Inside /\ pc'[u] \notin Inside
    BY <1>2, OutsideStep DEF Base
  <2>2. QED
    BY <2>1, StatusKept DEF Inside, LoadingLabels, Loading, Loaded, runtimeVars, loaderVars
<1>3. QED
  BY <1>1, <1>2 DEF Next

(* LOADING is shown only while some call really is loading, and ERROR only  *)
(* while nothing is loaded, although READY and NOT_LOADED are written with  *)
(* no lock held (runtime.py 81-108).                                        *)
THEOREM StatusIsHonest == Spec => []HonestProgress
<1>1. Base /\ StatusOK => HonestProgress
  BY DEF StatusOK
<1>2. QED
  BY <1>1, BaseInit, BaseNext, StatusInit, StatusNext, PTL DEF Spec

-----------------------------------------------------------------------------
(* The answers. Until a request's work is over it has neither an exception  *)
(* nor an output, the two labels of a failed load excepted; from then on it *)
(* has one of the two, and no statement of the cleanup changes which.       *)
Undecided == {"idle", "analyze", "acquire", "read_processor", "generate"}
                 \union (EnsureLabels \ {"load_raised", "ensure_raise"})
Failing   == {"load_raised", "ensure_raise"}
Decided   == AfterLabels \union {"reply"}

AnswerOK(r) ==
    /\ pc[r] \in Undecided => exc[r] = "none" /\ r \notin output
    /\ pc[r] \in Failing   => exc[r] # "none" /\ r \notin output
    /\ pc[r] \in Decided   => (exc[r] = "none" <=> r \in output)
    /\ pc[r] = "done"      => (outcome[r] = "fused" <=> r \in output)

LEMMA AnswerInit == Init => \A r \in Reqs : AnswerOK(r)
<1> SUFFICES ASSUME Init, NEW r \in Reqs PROVE AnswerOK(r)
  OBVIOUS
<1>1. exc[r] = "none" /\ pc[r] = "idle" /\ r \notin output
  BY RoleDistinct DEF Init, ControllerStart, RuntimeInit
<1>2. QED
  BY <1>1 DEF AnswerOK, Failing, Decided, EnsureLabels, AfterLabels

LEMMA AnswerKept ==
    ASSUME NEW r \in Reqs, AnswerOK(r), pc'[r] = pc[r], exc'[r] = exc[r],
           outcome'[r] = outcome[r], r \in output' <=> r \in output
    PROVE  AnswerOK(r)'
BY DEF AnswerOK

LEMMA AnswerService ==
    ASSUME IInv, NEW r \in Reqs, AnswerOK(r), NEW t \in Actors, ServiceStep(t)
    PROVE  AnswerOK(r)'
<1> USE DEF Goto
<1>1. /\ pc \in [Actors -> ServerLabels] /\ exc \in [Actors -> ServerExceptions]
      /\ r \in Actors /\ ControllerStep(t) /\ UNCHANGED <<output, outcome>>
  BY RoleDistinct DEF IInv, ServiceTypeOK, ServiceStep
<1>2. CASE BuildFails(t)
  <2>1. PICK f \in Faults : exc' = [exc EXCEPT ![t] = f]
    BY <1>2 DEF BuildFails
  <2>2. f # "none" /\ pc[t] = "build" /\ pc' = [pc EXCEPT ![t] = "load_raised"]
    BY <1>2, LoaderAssumption DEF BuildFails
  <2>3. CASE r # t
    BY <1>1, <2>1, <2>2, <2>3, AnswerKept
  <2>4. CASE r = t
    BY <1>1, <2>1, <2>2, <2>4 DEF AnswerOK, Undecided, Failing, Decided, EnsureLabels,
       AfterLabels
  <2>5. QED
    BY <2>3, <2>4
<1>3. CASE ~BuildFails(t)
  <2>1. exc' = exc
    BY <1>1, <1>3 DEF ControllerStep, RuntimeStep, LoaderStep, Load, LoadLock, BindModel,
       BindProcessor, UnbindModel, UnbindProcessor, ReleaseTensors, Ensure, EnsureMark,
       EnsureWait, EnsureRemark, EnsureLoading, EnsureLoaded, EnsureFails, AfterMode,
       AfterFlag, UnloadMark, ConfigureMode, ConfigureRest, UpdateEnter, UpdateReturn
  <2>2. PICK l \in EnsureLabels \union AfterLabels \union UpdateLabels :
              /\ pc' = [pc EXCEPT ![t] = l]
              /\ \/ pc[t] \in EnsureLabels /\ l \in EnsureLabels
                 \/ pc[t] \in AfterLabels /\ l \in AfterLabels
                 \/ pc[t] \in UpdateLabels /\ l \in UpdateLabels
    BY <1>1, ServiceMoves DEF IInv
  <2>3. pc[t] \in EnsureLabels => (pc[t] \in Failing <=> l \in Failing)
    <3>1. CASE EnsureFails(t)
      BY <1>1, <2>2, <3>1 DEF EnsureFails, Failing
    <3>2. CASE ~EnsureFails(t)
      BY <1>1, <1>3, <2>2, <3>2 DEF ControllerStep, RuntimeStep, LoaderStep, Load, LoadLock,
         BindModel, BindProcessor, UnbindModel, UnbindProcessor, ReleaseTensors, Ensure,
         EnsureMark, EnsureWait, EnsureRemark, EnsureLoading, EnsureLoaded, AfterMode,
         AfterFlag, UnloadMark, ConfigureMode, ConfigureRest, UpdateEnter, UpdateReturn,
         EnsureLabels, Failing
    <3>3. QED
      BY <3>1, <3>2
  <2>4. CASE r # t
    BY <1>1, <2>1, <2>2, <2>4, AnswerKept
  <2>5. CASE r = t
    <3>1. pc[r] \notin UpdateLabels
      BY <1>1 DEF IInv, RolesOK, RequestLabels, EnsureLabels, AfterLabels, UpdateLabels
    <3>2. pc'[r] = l
      BY <1>1, <2>2, <2>5
    <3>3. CASE pc[r] \in EnsureLabels /\ l \in EnsureLabels
      BY <1>1, <2>1, <2>3, <2>5, <3>2, <3>3 DEF AnswerOK, Undecided, Failing, Decided,
         EnsureLabels, AfterLabels
    <3>4. CASE pc[r] \in AfterLabels /\ l \in AfterLabels
      BY <1>1, <2>1, <3>2, <3>4 DEF AnswerOK, Undecided, Failing, Decided,
         EnsureLabels, AfterLabels
    <3>5. QED
      BY <2>2, <2>5, <3>1, <3>3, <3>4
  <2>6. QED
    BY <2>4, <2>5
<1>4. QED
  BY <1>2, <1>3

LEMMA AnswerRequest ==
    ASSUME IInv, NEW r \in Reqs, AnswerOK(r), NEW s \in Reqs,
           Arrive(s) \/ RequestStep(s) \/ Collect(s)
    PROVE  AnswerOK(r)'
<1> USE DEF Goto
<1>1. /\ pc \in [Actors -> ServerLabels] /\ exc \in [Actors -> ServerExceptions]
      /\ outcome \in [Reqs -> Outcomes] /\ r \in Actors
  BY RoleDistinct DEF IInv, ServiceTypeOK, RequestTypeOK
<1>2. CASE r # s
  <2>1. /\ pc'[r] = pc[r] /\ exc'[r] = exc[r] /\ outcome'[r] = outcome[r]
        /\ r \in output' <=> r \in output
    BY <1>1, <1>2 DEF Arrive, RequestStep, Collect, Analyze, Acquire, LoadFailed, ReadModel,
       ReadProcessor, GenerateReturns, GenerateRaises, Finish, Reply, requestVars
  <2>2. QED
    BY <2>1, AnswerKept
<1>3. CASE r = s
  <2> USE DEF AnswerOK, Undecided, Failing, Decided, EnsureLabels, AfterLabels
  <2>1. CASE Arrive(r) \/ Analyze(r)
    BY <1>1, <2>1 DEF Arrive, Analyze, requestVars
  <2>2. CASE Acquire(r)
    BY <1>1, <2>2 DEF Acquire, requestVars
  <2>3. CASE LoadFailed(r) \/ ReadModel(r)
    BY <1>1, <2>3 DEF LoadFailed, ReadModel, requestVars
  <2>4. CASE ReadProcessor(r)
    BY <1>1, <2>4 DEF ReadProcessor
  <2>5. CASE GenerateReturns(r)
    BY <1>1, <2>5 DEF GenerateReturns
  <2>6. CASE GenerateRaises(r)
    <3>1. PICK f \in GenerationFaults : exc' = [exc EXCEPT ![r] = f]
      BY <2>6 DEF GenerateRaises
    <3>2. f # "none"
      BY ServerAssumption
    <3>3. QED
      BY <1>1, <2>6, <3>1, <3>2 DEF GenerateRaises
  <2>7. CASE Finish(r)
    BY <1>1, <2>7 DEF Finish, requestVars
  <2>8. CASE Reply(r)
    <3>1. exc[r] = "none" <=> Answer(exc[r]) = "fused"
      BY <1>1 DEF Answer, ServerExceptions, Exceptions
    <3>2. outcome'[r] = Answer(exc[r]) /\ output' = output /\ pc'[r] = "done"
      BY <1>1, <2>8 DEF Reply
    <3>3. QED
      BY <2>8, <3>1, <3>2 DEF Reply
  <2>9. CASE Collect(r)
    BY <1>1, <2>9 DEF Collect
  <2>10. QED
    BY <1>3, <2>1, <2>2, <2>3, <2>4, <2>5, <2>6, <2>7, <2>8, <2>9 DEF RequestStep
<1>4. QED
  BY <1>2, <1>3

LEMMA AnswerNext == Base /\ (\A r \in Reqs : AnswerOK(r)) /\ [Next]_vars
                        => (\A r \in Reqs : AnswerOK(r))'
<1> SUFFICES ASSUME Base, [Next]_vars, NEW r \in Reqs, AnswerOK(r) PROVE AnswerOK(r)'
  OBVIOUS
<1>1. CASE \E s \in Reqs : Arrive(s) \/ RequestStep(s) \/ Collect(s)
  BY <1>1, AnswerRequest DEF Base
<1>2. CASE \E t \in Actors : ServiceStep(t)
  BY <1>2, AnswerService DEF Base
<1>3. CASE \/ \E p \in Patches : SendPatch(p)
           \/ LifespanStep \/ BeginShutdown \/ Terminated \/ UNCHANGED vars
  <2>1. pc \in [Actors -> ServerLabels]
    BY DEF Base, IInv, ServiceTypeOK
  <2>2. pc'[r] = pc[r] /\ exc' = exc /\ UNCHANGED <<output, outcome>>
    BY <1>3, <2>1, RoleDistinct DEF SendPatch, LifespanStep, Startup, StartupDone,
       StartupFailed, Drained, Stopped, BeginShutdown, Serving, Terminated, vars,
       requestVars, Goto
  <2>3. QED
    BY <2>2, AnswerKept
<1>4. QED
  BY <1>1, <1>2, <1>3 DEF Next

(* A client gets the fused answer exactly when the VLM produced a valid     *)
(* output for its request, whatever the cleanup in the finally clause does  *)
(* (gemma4_provider.py 104-131, compact_parse.py 43-49).                    *)
THEOREM AnswersAreDeserved == Spec => []CleanupMasksNothing
<1>1. (\A r \in Reqs : AnswerOK(r)) => CleanupMasksNothing
  BY DEF AnswerOK, CleanupMasksNothing
<1>2. QED
  BY <1>1, BaseInit, BaseNext, AnswerInit, AnswerNext, PTL DEF Spec

-----------------------------------------------------------------------------
(* The exit. Beside the shutdown's own statements nobody touches the        *)
(* loader: requests and PATCH requests are answered or never came.          *)
Quiet == pc[Lifespan] \notin {"serving", "draining"}

Unbound == {"release_tensors", "unload_returned", "unload_raised", "unloaded", "stopped"}

ExitOK == /\ Quiet => \A p \in Patches : pc[p] \in {"idle", "patched"}
          /\ pc[Lifespan] \in Unbound => model = None /\ processor = None

LEMMA ExitInit == Init => ExitOK
BY RoleDistinct DEF Init, ExitOK, Unbound

LEMMA ExitService ==
    ASSUME Base, ExitOK, NEW t \in Actors, ControllerStep(t)
    PROVE  ExitOK'
<1> USE DEF Goto
<1>1. pc \in [Actors -> ServerLabels] /\ IInv /\ LifespanAlone
  BY DEF Base, IInv, ServiceTypeOK
<1>2. PICK l \in EnsureLabels \union AfterLabels \union UpdateLabels :
              /\ pc' = [pc EXCEPT ![t] = l]
              /\ \/ pc[t] \in EnsureLabels /\ l \in EnsureLabels
                 \/ pc[t] \in AfterLabels /\ l \in AfterLabels
                 \/ pc[t] \in UpdateLabels /\ l \in UpdateLabels
  BY <1>1, ServiceMoves DEF IInv
<1>3. Quiet' = Quiet
  BY <1>1, <1>2, RoleDistinct DEF Quiet, EnsureLabels, AfterLabels, UpdateLabels
<1>4. ASSUME Quiet, NEW p \in Patches PROVE pc'[p] \in {"idle", "patched"}
  <2>1. pc[p] \in {"idle", "patched"}
    BY <1>4 DEF ExitOK
  <2>2. CASE t = p
    BY <2>1, <2>2 DEF ControllerStep, RuntimeStep, LoaderStep, Load, LoadLock, BindModel,
       BuildFails, BindProcessor, UnbindModel, UnbindProcessor, ReleaseTensors, Ensure,
       EnsureMark, EnsureWait, EnsureRemark, EnsureLoading, EnsureLoaded, EnsureFails,
       AfterMode, AfterFlag, UnloadMark, ConfigureMode, ConfigureRest, UpdateEnter,
       UpdateReturn
  <2>3. CASE t # p
    BY <1>1, <1>2, <2>1, <2>3, RoleDistinct
  <2>4. QED
    BY <2>2, <2>3
<1>5. ASSUME pc'[Lifespan] \in Unbound PROVE model' = None /\ processor' = None
  <2>1. Quiet
    BY <1>3, <1>5 DEF Quiet, Unbound
  <2>2. CASE t = Lifespan
    <3>1. CASE UnbindProcessor(t)
      BY <1>1, <3>1 DEF UnbindProcessor, IInv, BindingOK
    <3>2. CASE ~UnbindProcessor(t)
      <4>1. pc[t] \in Unbound /\ UNCHANGED <<model, processor>>
        BY <1>1, <1>5, <2>2, <3>2 DEF ControllerStep, RuntimeStep, LoaderStep, Load,
           LoadLock, BindModel, BuildFails, BindProcessor, UnbindModel, ReleaseTensors,
           Ensure, EnsureMark, EnsureWait, EnsureRemark, EnsureLoading, EnsureLoaded,
           EnsureFails, AfterMode, AfterFlag, UnloadMark, ConfigureMode, ConfigureRest,
           UpdateEnter, UpdateReturn, Unbound, loaderVars
      <4>2. QED
        BY <2>2, <4>1 DEF ExitOK
    <3>3. QED
      BY <3>1, <3>2
  <2>3. CASE t # Lifespan
    <3>1. pc[t] \notin EnsureLabels \union AfterLabels
      BY <1>1, <2>1, <2>3, RoleDistinct DEF Quiet, LifespanAlone, IInv, RolesOK,
         UpdateLabels, EnsureLabels, AfterLabels
    <3>2. UNCHANGED <<model, processor>>
      BY <3>1, LoaderUntouched
    <3>3. pc[Lifespan] \in Unbound
      BY <1>1, <1>2, <1>5, <2>3, RoleDistinct
    <3>4. QED
      BY <3>2, <3>3 DEF ExitOK
  <2>4. QED
    BY <2>2, <2>3
<1>6. QED
  BY <1>3, <1>4, <1>5 DEF ExitOK

LEMMA ExitNext == Base /\ ExitOK /\ [Next]_vars => ExitOK'
<1> SUFFICES ASSUME Base, ExitOK, [Next]_vars PROVE ExitOK'
  OBVIOUS
<1> USE DEF Goto
<1>1. pc \in [Actors -> ServerLabels] /\ IInv
  BY DEF Base, IInv, ServiceTypeOK
<1>2. CASE \E t \in Actors : ServiceStep(t)
  BY <1>2, ExitService DEF ServiceStep
<1>3. CASE \E r \in Reqs : Arrive(r) \/ RequestStep(r) \/ Collect(r)
  <2>1. /\ UNCHANGED <<model, processor>>
        /\ \A u \in Actors \ Reqs : pc'[u] = pc[u]
    BY <1>1, <1>3 DEF Arrive, RequestStep, Collect, Analyze, Acquire, LoadFailed,
       ReadModel, ReadProcessor, GenerateReturns, GenerateRaises, Finish, Reply, loaderVars
  <2>2. QED
    BY <2>1, RoleDistinct DEF ExitOK, Quiet
<1>4. CASE \E p \in Patches : SendPatch(p)
  BY <1>1, <1>4, RoleDistinct DEF SendPatch, Serving, ExitOK, Quiet, Unbound, loaderVars
<1>5. CASE Startup \/ StartupDone \/ StartupFailed \/ BeginShutdown
  BY <1>1, <1>5, RoleDistinct DEF Startup, StartupDone, StartupFailed, BeginShutdown,
     Serving, ExitOK, Quiet, Unbound, loaderVars
<1>6. CASE Drained
  <2>1. \A p \in Patches : pc[p] \in {"idle", "patched"}
    BY <1>1, <1>6 DEF Drained, IInv, RolesOK, UpdateLabels
  <2>2. QED
    BY <1>1, <1>6, <2>1, RoleDistinct DEF Drained, ExitOK, Unbound
<1>7. CASE Stopped
  BY <1>1, <1>7, RoleDistinct DEF Stopped, ExitOK, Quiet, Unbound, loaderVars
<1>8. CASE Terminated \/ UNCHANGED vars
  BY <1>8 DEF Terminated, vars, ExitOK, Quiet, loaderVars
<1>9. QED
  BY <1>2, <1>3, <1>4, <1>5, <1>6, <1>7, <1>8 DEF Next, LifespanStep

(* A process that exits leaves no model, no lock and no lease behind and    *)
(* has answered everybody it let in, also after a failed startup or cleanup *)
(* (main.py 38-43, gemma4_loader.py 49-53).                                 *)
THEOREM ExitLeavesNothing == Spec => []ExitIsClean
<1>1. ASSUME Base, ExitOK PROVE ExitIsClean
  <2> SUFFICES ASSUME pc[Lifespan] = "stopped"
               PROVE  /\ model = None /\ processor = None
                      /\ loaderLock = None /\ loadLock = None /\ updateLock = None
                      /\ permits = MaxConcurrent
                      /\ \A r \in Reqs : pc[r] \in {"idle", "done"}
    BY DEF ExitIsClean
  <2>1. \A r \in Reqs : pc[r] \in {"idle", "done"}
    BY <1>1 DEF Base, LifespanAlone
  <2>2. \A t \in Actors : pc[t] \in {"idle", "done", "patched", "stopped"}
    BY <1>1, <2>1, RoleDistinct DEF ExitOK, Quiet
  <2>3. loaderLock = None /\ loadLock = None /\ updateLock = None
    BY <1>1, <2>2 DEF Base, IInv, LocksOK, LoaderMutex, LoadMutex, UpdateMutex,
       LoaderHolding, LoadHolding, UpdateHolding, ServiceTypeOK, ControllerTypeOK,
       RuntimeTypeOK, LoaderTypeOK
  <2>4. Held = {}
    BY <1>1, <2>1 DEF Base, IInv, LeaseBracketsWork, Admitted, RuntimeLabels, LoaderLabels
  <2>5. permits = MaxConcurrent
    BY <1>1, <2>4, FS_EmptySet DEF Base, IInv, PermitInv, PermitsAccounted, LockTypeOK
  <2>6. QED
    BY <1>1, <2>1, <2>3, <2>5 DEF ExitOK, Unbound
<1>2. QED
  BY <1>1, BaseInit, BaseNext, ExitInit, ExitNext, PTL DEF Spec

-----------------------------------------------------------------------------
(* The copies in memory. While a copy is bound, at most MaxConcurrent - 1   *)
(* admitted requests still generate on another one: whoever bound it was    *)
(* itself admitted, and had no copy of its own.                             *)
Fresh     == {"idle", "analyze", "acquire"} \union EnsureLabels
Elsewhere == {r \in Held : frame[r].model \notin {None, model}}

CopyOK == /\ \A r \in Reqs : pc[r] \in Fresh => frame[r].model = None
          /\ model # None => Cardinality(Elsewhere) <= MaxConcurrent - 1

LEMMA HeldIsSmall ==
    ASSUME IInv
    PROVE  /\ IsFiniteSet(Held) /\ Cardinality(Held) \in Nat
           /\ Cardinality(Held) <= MaxConcurrent /\ MaxConcurrent \in Nat \ {0}
BY FS_CardinalityType, MaxConcurrentAssumption DEF IInv, PermitInv, PermitsAccounted, LockTypeOK

(* A set of admitted requests without one of them has room for one more.    *)
LEMMA RoomForOne ==
    ASSUME IInv, NEW S \in SUBSET Held, NEW u \in Held \ S
    PROVE  IsFiniteSet(S) /\ Cardinality(S) \in Nat /\ Cardinality(S) <= MaxConcurrent - 1
<1>1. IsFiniteSet(Held \ {u}) /\ Cardinality(Held \ {u}) = Cardinality(Held) - 1
  BY HeldIsSmall, FS_RemoveElement
<1>2. S \in SUBSET (Held \ {u})
  OBVIOUS
<1>3. IsFiniteSet(S) /\ Cardinality(S) <= Cardinality(Held \ {u})
  BY <1>1, <1>2, FS_Subset
<1>4. QED
  BY <1>1, <1>3, HeldIsSmall, FS_CardinalityType

(* A builder is an admitted request without a copy, or the lifespan while   *)
(* nobody is admitted.                                                      *)
LEMMA BuilderKind ==
    ASSUME Base, CopyOK, NEW t \in Actors, pc[t] = "build"
    PROVE  \/ t \in Held /\ frame[t].model = None
           \/ t \notin Held /\ Held = {}
<1>1. CASE t \in Reqs
  BY <1>1 DEF Base, IInv, LeaseBracketsWork, Admitted, RuntimeLabels, LoaderLabels,
     CopyOK, Fresh, EnsureLabels
<1>2. CASE t = Lifespan
  <2>1. Held = {}
    BY <1>2 DEF Base, LifespanAlone, IInv, LeaseBracketsWork, Admitted, RuntimeLabels,
       LoaderLabels
  <2>2. QED
    BY <2>1
<1>3. CASE t \in Patches
  BY <1>3 DEF Base, IInv, RolesOK, UpdateLabels
<1>4. QED
  BY <1>1, <1>2, <1>3, RoleDistinct

LEMMA CopyInit == Init => CopyOK
<1> SUFFICES ASSUME Init PROVE CopyOK
  OBVIOUS
<1>1. model = None
  BY DEF Init, ControllerStart, RuntimeInit
<1>2. \A r \in Reqs : frame[r].model = None
  BY DEF Init, NoFrame
<1>3. QED
  BY <1>1, <1>2 DEF CopyOK

(* A step that binds no copy and lets no request join those elsewhere.      *)
LEMMA ElsewhereShrinks ==
    ASSUME IInv, CopyOK, model' \in {None, model},
           model' = model => Elsewhere' \subseteq Elsewhere
    PROVE  model' # None => Cardinality(Elsewhere') <= MaxConcurrent - 1
<1> SUFFICES ASSUME model' # None PROVE Cardinality(Elsewhere') <= MaxConcurrent - 1
  OBVIOUS
<1>1. IsFiniteSet(Elsewhere)
  BY HeldIsSmall, FS_Subset DEF Elsewhere
<1>2. IsFiniteSet(Elsewhere') /\ Cardinality(Elsewhere') <= Cardinality(Elsewhere)
  BY <1>1, FS_Subset
<1>3. QED
  BY <1>1, <1>2, HeldIsSmall, FS_CardinalityType DEF CopyOK

LEMMA CopyService ==
    ASSUME Base, CopyOK, NEW t \in Actors, ServiceStep(t)
    PROVE  CopyOK'
<1> USE DEF Goto
<1>1. /\ pc \in [Actors -> ServerLabels] /\ frame \in [Reqs -> Frames] /\ IInv
      /\ ControllerStep(t) /\ UNCHANGED lockVars
  BY DEF Base, IInv, ServiceTypeOK, RequestTypeOK, ServiceStep
<1>2. \A r \in Reqs : frame'[r] \in {NoFrame, frame[r]}
  BY <1>1 DEF ServiceStep, Collected
<1>3. ASSUME NEW r \in Reqs, pc'[r] \in Fresh PROVE frame'[r].model = None
  <2>1. PICK l \in EnsureLabels \union AfterLabels \union UpdateLabels :
              /\ pc' = [pc EXCEPT ![t] = l]
              /\ \/ pc[t] \in EnsureLabels /\ l \in EnsureLabels
                 \/ pc[t] \in AfterLabels /\ l \in AfterLabels
                 \/ pc[t] \in UpdateLabels /\ l \in UpdateLabels
    BY <1>1, ServiceMoves DEF IInv
  <2>2. pc[r] \in Fresh
    BY <1>1, <1>3, <2>1, RoleDistinct DEF Fresh, EnsureLabels, AfterLabels, UpdateLabels
  <2>3. QED
    BY <1>2, <2>2 DEF CopyOK, NoFrame
<1>4. model' # None => Cardinality(Elsewhere') <= MaxConcurrent - 1
  <2>1. Held' = Held
    BY <1>1 DEF lockVars, Held
  <2>2. CASE BindModel(t)
    <3>1. model' = t /\ pc[t] = "build" /\ frame' = frame
      BY <2>2 DEF BindModel, ServiceStep
    <3>2. CASE t \in Held /\ frame[t].model = None
      <4>1. Elsewhere' \in SUBSET Held /\ t \in Held \ Elsewhere'
        BY <2>1, <3>1, <3>2 DEF Elsewhere
      <4>2. QED
        BY <1>1, <4>1, RoomForOne
    <3>3. CASE Held = {}
      <4>1. Elsewhere' = {}
        BY <2>1, <3>3 DEF Elsewhere
      <4>2. QED
        BY <1>1, <4>1, FS_EmptySet, HeldIsSmall
    <3>4. QED
      BY <3>1, <3>2, <3>3, BuilderKind
  <2>3. CASE ~BindModel(t)
    <3>1. model' \in {None, model}
      BY <1>1, <2>3 DEF ControllerStep, RuntimeStep, LoaderStep, Load, LoadLock, BuildFails,
         BindProcessor, UnbindModel, UnbindProcessor, ReleaseTensors, Ensure, EnsureMark,
         EnsureWait, EnsureRemark, EnsureLoading, EnsureLoaded, EnsureFails, AfterMode,
         AfterFlag, UnloadMark, ConfigureMode, ConfigureRest, UpdateEnter, UpdateReturn,
         loaderVars
    <3>2. model' = model => Elsewhere' \subseteq Elsewhere
      BY <1>2, <2>1 DEF Elsewhere, NoFrame, Held
    <3>3. QED
      BY <1>1, <3>1, <3>2, ElsewhereShrinks
  <2>4. QED
    BY <2>2, <2>3
<1>5. QED
  BY <1>3, <1>4 DEF CopyOK

LEMMA CopyRequest ==
    ASSUME Base, CopyOK, NEW s \in Reqs, Arrive(s) \/ RequestStep(s) \/ Collect(s)
    PROVE  CopyOK'
<1> USE DEF Goto
<1>1. /\ pc \in [Actors -> ServerLabels] /\ frame \in [Reqs -> Frames] /\ IInv
      /\ lease \in [Reqs -> LeaseStates] /\ s \in Actors
  BY RoleDistinct DEF Base, IInv, ServiceTypeOK, RequestTypeOK, PermitInv, LockTypeOK
<1>2. model' = model
  BY DEF Arrive, RequestStep, Collect, Analyze, Acquire, LoadFailed, ReadModel,
     ReadProcessor, GenerateReturns, GenerateRaises, Finish, Reply, loaderVars
<1>3. CASE Acquire(s)
  <2>1. frame' = frame /\ pc'[s] \in {"ensure", "reply"} /\ frame[s].model = None
    BY <1>1, <1>3 DEF Acquire, requestVars, CopyOK, Fresh
  <2>2. \A r \in Reqs \ {s} : pc'[r] = pc[r]
    BY <1>1, <1>3, RoleDistinct DEF Acquire
  <2>3. Held' \subseteq Held \union {s}
    BY <1>1, <1>3 DEF Acquire, TryAcquire, Held
  <2>4. Elsewhere' \subseteq Elsewhere
    BY <1>2, <2>1, <2>3 DEF Elsewhere
  <2>5. QED
    BY <1>1, <1>2, <2>1, <2>2, <2>4, ElsewhereShrinks DEF CopyOK
<1>4. CASE ReadModel(s)
  <2>1. frame' = [frame EXCEPT ![s].model = model] /\ pc' = [pc EXCEPT ![s] = "read_processor"]
        /\ UNCHANGED lockVars
    BY <1>4 DEF ReadModel
  <2>2. Elsewhere' \subseteq Elsewhere
    BY <1>1, <1>2, <2>1 DEF Elsewhere, lockVars, Held, Frames
  <2>3. \A r \in Reqs : pc'[r] \in Fresh => r # s /\ pc[r] \in Fresh /\ frame'[r] = frame[r]
    BY <1>1, <2>1 DEF Fresh, EnsureLabels
  <2>4. QED
    BY <1>1, <1>2, <2>2, <2>3, ElsewhereShrinks DEF CopyOK
<1>5. CASE ~Acquire(s) /\ ~ReadModel(s)
  <2>1. \A r \in Reqs : frame'[r].model \in {None, frame[r].model}
    BY <1>1, <1>5 DEF Arrive, RequestStep, Collect, Analyze, LoadFailed, ReadProcessor,
       GenerateReturns, GenerateRaises, Finish, Reply, requestVars, NoFrame, Frames
  <2>2. Held' \subseteq Held
    BY <1>1, <1>5 DEF Arrive, RequestStep, Collect, Analyze, LoadFailed, ReadProcessor,
       GenerateReturns, GenerateRaises, Finish, Release, Reply, lockVars, Held
  <2>3. \A r \in Reqs : pc'[r] \in Fresh => pc[r] \in Fresh
    BY <1>1, <1>5, RoleDistinct DEF Arrive, RequestStep, Collect, Analyze, LoadFailed,
       ReadProcessor, GenerateReturns, GenerateRaises, Finish, Reply, Fresh, EnsureLabels
  <2>4. Elsewhere' \subseteq Elsewhere
    BY <1>2, <2>1, <2>2 DEF Elsewhere, Held
  <2>5. QED
    BY <1>1, <1>2, <2>1, <2>3, <2>4, ElsewhereShrinks DEF CopyOK
<1>6. QED
  BY <1>3, <1>4, <1>5

LEMMA CopyNext == Base /\ CopyOK /\ [Next]_vars => CopyOK'
<1> SUFFICES ASSUME Base, CopyOK, [Next]_vars PROVE CopyOK'
  OBVIOUS
<1>1. CASE \E t \in Actors : ServiceStep(t)
  BY <1>1, CopyService
<1>2. CASE \E r \in Reqs : Arrive(r) \/ RequestStep(r) \/ Collect(r)
  BY <1>2, CopyRequest
<1>3. CASE \/ \E p \in Patches : SendPatch(p)
           \/ LifespanStep \/ BeginShutdown \/ Terminated \/ UNCHANGED vars
  <2>1. pc \in [Actors -> ServerLabels]
    BY DEF Base, IInv, ServiceTypeOK
  <2>2. /\ \A r \in Reqs : pc'[r] = pc[r]
        /\ UNCHANGED <<frame, model, lease>>
    BY <1>3, <2>1, RoleDistinct DEF SendPatch, LifespanStep, Startup, StartupDone,
       StartupFailed, Drained, Stopped, BeginShutdown, Serving, Terminated, vars,
       requestVars, loaderVars, lockVars, Goto
  <2>3. QED
    BY <2>2 DEF CopyOK, Elsewhere, Held
<1>4. QED
  BY <1>1, <1>2, <1>3 DEF Next

(* The frames of a finite set of requests refer to at most as many copies.  *)
LEMMA CopiesOfFrames ==
    ASSUME NEW S, IsFiniteSet(S)
    PROVE  /\ IsFiniteSet({frame[r].model : r \in S})
           /\ Cardinality({frame[r].model : r \in S}) <= Cardinality(S)
<1> DEFINE T == {frame[r].model : r \in S}
           f == [r \in S |-> frame[r].model]
<1>1. f \in Surjection(S, T)
  BY DEF Surjection
<1>2. QED
  BY <1>1, FS_Surjection

(* One copy and the copies of at most MaxConcurrent - 1 requests.           *)
LEMMA OneMore ==
    ASSUME IInv, NEW S, IsFiniteSet(S), Cardinality(S) <= MaxConcurrent - 1, NEW x,
           CopiesOf(Held) \subseteq {frame[r].model : r \in S} \union {x}
    PROVE  CopiesWithinPermits
<1> DEFINE T == {frame[r].model : r \in S}
<1>1. IsFiniteSet(T) /\ Cardinality(T) <= Cardinality(S)
  BY CopiesOfFrames
<1>2. Cardinality(T) \in Nat /\ Cardinality(S) \in Nat
  BY <1>1, FS_CardinalityType
<1>3. IsFiniteSet(T \union {x}) /\ Cardinality(T \union {x}) <= Cardinality(T) + 1
  <2> HIDE DEF T
  <2>1. /\ IsFiniteSet(T \union {x})
        /\ Cardinality(T \union {x}) = IF x \in T THEN Cardinality(T) ELSE Cardinality(T) + 1
    BY <1>1, FS_AddElement
  <2>2. QED
    BY <1>2, <2>1
<1>4. IsFiniteSet(CopiesOf(Held)) /\ Cardinality(CopiesOf(Held)) <= Cardinality(T \union {x})
  BY <1>3, FS_Subset
<1>5. Cardinality(T \union {x}) \in Nat /\ Cardinality(CopiesOf(Held)) \in Nat
  BY <1>3, <1>4, FS_CardinalityType
<1>6. QED
  BY <1>1, <1>2, <1>3, <1>4, <1>5, HeldIsSmall DEF CopiesWithinPermits

LEMMA CopiesBounded == ASSUME Base, CopyOK PROVE CopiesWithinPermits
<1>1. IInv /\ IsFiniteSet(Held)
  BY HeldIsSmall DEF Base
<1>2. ASSUME NEW t \in Actors, pc[t] = "build" PROVE CopiesWithinPermits
  <2>1. model = None /\ \A u \in Actors : pc[u] = "build" => u = t
    BY <1>1, <1>2, LoaderAssumption DEF IInv, BindingOK, BuildsOnEmpty, LocksOK, LoaderMutex,
       LoaderHolding
  <2>2. CASE t \in Held /\ frame[t].model = None
    <3>1. CopiesOf(Held) \subseteq {frame[r].model : r \in Held \ {t}} \union {t}
      BY <2>1, <2>2 DEF CopiesOf
    <3>2. QED
      BY <1>1, <2>2, <3>1, RoomForOne, OneMore
  <2>3. CASE Held = {}
    <3>1. CopiesOf(Held) \subseteq {frame[r].model : r \in {}} \union {t}
      BY <2>1, <2>3 DEF CopiesOf
    <3>2. QED
      BY <1>1, <3>1, FS_EmptySet, HeldIsSmall, OneMore
  <2>4. QED
    BY <1>2, <2>2, <2>3, BuilderKind
<1>3. ASSUME \A t \in Actors : pc[t] # "build", model # None PROVE CopiesWithinPermits
  <2>1. IsFiniteSet(Elsewhere) /\ Cardinality(Elsewhere) <= MaxConcurrent - 1
    BY <1>1, <1>3, FS_Subset DEF Elsewhere, CopyOK
  <2>2. CopiesOf(Held) \subseteq {frame[r].model : r \in Elsewhere} \union {model}
    BY <1>3 DEF CopiesOf, Elsewhere
  <2>3. QED
    BY <1>1, <2>1, <2>2, OneMore
<1>4. ASSUME \A t \in Actors : pc[t] # "build", model = None PROVE CopiesWithinPermits
  <2> DEFINE T == {frame[r].model : r \in Held}
  <2>1. IsFiniteSet(T) /\ Cardinality(T) <= Cardinality(Held)
    BY <1>1, CopiesOfFrames
  <2>2. CopiesOf(Held) \in SUBSET T
    BY <1>4 DEF CopiesOf
  <2>3. IsFiniteSet(CopiesOf(Held)) /\ Cardinality(CopiesOf(Held)) <= Cardinality(T)
    BY <2>1, <2>2, FS_Subset
  <2>4. QED
    BY <1>1, <2>1, <2>3, HeldIsSmall, FS_CardinalityType DEF CopiesWithinPermits
<1>5. QED
  BY <1>2, <1>3, <1>4

(* However requests, unloads and loads interleave, memory never holds more  *)
(* copies of the model than requests may generate at once, a copy being     *)
(* built included (runtime.py 84-108, gemma4_provider.py 87-145).           *)
THEOREM CopiesStayWithinPermits == Spec => []CopiesWithinPermits
<1>1. Base /\ CopyOK => CopiesWithinPermits
  BY CopiesBounded
<1>2. QED
  BY <1>1, BaseInit, BaseNext, CopyInit, CopyNext, PTL DEF Spec

-----------------------------------------------------------------------------
(* Cold mode. Nothing changes the flags when there is no PATCH request. A   *)
(* copy that is bound is bound by, or left to, a request that has yet to    *)
(* unload; only before the first request has come so far may it be the one  *)
(* loaded at startup.                                                       *)
Cold == mode = "cold" /\ unloadAfter

WillUnload == EnsureLabels \union {"read_processor", "generate", "after", "after_flag", "unload"}
PastUnload == (AfterLabels \ {"after", "after_flag", "unload"})

NoneServed == \A r \in Reqs : lease[r] # "released" /\ pc[r] \notin PastUnload

ColdOK == /\ Cold /\ model # None => NoneServed \/ \E r \in Reqs : pc[r] \in WillUnload
          /\ pc[Lifespan] \in {"starting"} \union EnsureLabels => NoneServed

LEMMA ColdInit == Init => ColdOK
<1> SUFFICES ASSUME Init PROVE ColdOK
  OBVIOUS
<1>1. NoneServed
  BY RoleDistinct DEF Init, LockInit, NoneServed, PastUnload, AfterLabels
<1>2. QED
  BY <1>1 DEF ColdOK

(* A step that keeps the copy, serves nobody and sends nobody past unload.  *)
LEMMA ColdKept ==
    ASSUME ColdOK, Cold' => Cold, model' \in {None, model},
           pc'[Lifespan] \in {"starting"} \union EnsureLabels =>
              pc[Lifespan] \in {"starting"} \union EnsureLabels,
           Cold' /\ model' # None =>
              \A r \in Reqs : pc[r] \in WillUnload => pc'[r] \in WillUnload,
           (Cold' /\ model' # None) \/ pc'[Lifespan] \in {"starting"} \union EnsureLabels =>
              (NoneServed => NoneServed')
    PROVE  ColdOK'
BY DEF ColdOK

LEMMA FlagsStay ==
    ASSUME Base, Patches = {}, NEW t \in Actors, ControllerStep(t)
    PROVE  UNCHANGED flagVars
<1>1. pc[t] \notin UpdateLabels
  BY RoleDistinct DEF Base, IInv, RolesOK, RequestLabels, LifespanLabels, EnsureLabels,
     AfterLabels, UpdateLabels
<1>2. QED
  BY <1>1 DEF ControllerStep, RuntimeStep, Ensure, EnsureMark, EnsureWait, EnsureRemark,
     EnsureLoading, EnsureLoaded, EnsureFails, AfterMode, AfterFlag, UnloadMark,
     ConfigureMode, ConfigureRest, UpdateEnter, UpdateReturn, runtimeVars, flagVars,
     UpdateLabels

LEMMA ColdService ==
    ASSUME Base, ColdOK, Patches = {}, NEW t \in Actors, ServiceStep(t)
    PROVE  ColdOK'
<1> USE DEF Goto
<1>1. /\ pc \in [Actors -> ServerLabels] /\ IInv /\ LifespanAlone
      /\ ControllerStep(t) /\ lease' = lease
  BY DEF Base, IInv, ServiceTypeOK, ServiceStep, lockVars
<1>2. PICK l \in EnsureLabels \union AfterLabels \union UpdateLabels :
              /\ pc' = [pc EXCEPT ![t] = l]
              /\ \/ pc[t] \in EnsureLabels /\ l \in EnsureLabels
                 \/ pc[t] \in AfterLabels /\ l \in AfterLabels
                 \/ pc[t] \in UpdateLabels /\ l \in UpdateLabels
  BY <1>1, ServiceMoves DEF IInv
<1>3. UNCHANGED flagVars
  BY <1>1, FlagsStay
<1>4. pc'[Lifespan] \in {"starting"} \union EnsureLabels =>
         pc[Lifespan] \in {"starting"} \union EnsureLabels
  BY <1>1, <1>2, RoleDistinct DEF EnsureLabels, AfterLabels, UpdateLabels
<1>5. CASE BindModel(t)
  <2>1. pc[t] = "build" /\ l = "bind_processor"
    BY <1>1, <1>2, <1>5 DEF BindModel
  <2>2. NoneServed => NoneServed'
    BY <1>1, <1>2, <2>1, RoleDistinct DEF NoneServed, PastUnload, AfterLabels
  <2>3. CASE t \in Reqs
    <3>1. pc'[t] \in WillUnload
      BY <1>1, <1>2, <2>1 DEF WillUnload, EnsureLabels
    <3>2. QED
      BY <1>4, <2>2, <2>3, <3>1 DEF ColdOK
  <2>4. CASE t = Lifespan
    <3>1. NoneServed
      BY <2>1, <2>4 DEF ColdOK, EnsureLabels
    <3>2. QED
      BY <2>2, <3>1 DEF ColdOK
  <2>5. CASE t \in Patches
    BY <2>5
  <2>6. QED
    BY <2>3, <2>4, <2>5, RoleDistinct
<1>6. CASE UnbindModel(t)
  <2>1. model' = None /\ pc[t] = "unload" /\ l = "unbind_processor"
    BY <1>1, <1>2, <1>6 DEF UnbindModel
  <2>2. pc'[Lifespan] \in {"starting"} \union EnsureLabels => NoneServed'
    <3>1. SUFFICES ASSUME pc'[Lifespan] \in {"starting"} \union EnsureLabels
                   PROVE  FALSE
      OBVIOUS
    <3>2. pc[Lifespan] \in {"starting"} \union EnsureLabels
      BY <1>4, <3>1
    <3>3. t # Lifespan /\ pc[t] \notin {"idle", "done"}
      BY <2>1, <3>2 DEF EnsureLabels
    <3>4. pc[Lifespan] \notin {"serving", "draining"}
      BY <3>2 DEF EnsureLabels
    <3>5. QED
      BY <1>1, <3>3, <3>4, RoleDistinct DEF LifespanAlone
  <2>3. QED
    BY <2>1, <2>2 DEF ColdOK
<1>7. CASE ~BindModel(t) /\ ~UnbindModel(t)
  <2>1. model' = model
    BY <1>1, <1>7 DEF ControllerStep, RuntimeStep, LoaderStep, Load, LoadLock, BuildFails,
       BindProcessor, UnbindProcessor, ReleaseTensors, Ensure, EnsureMark, EnsureWait,
       EnsureRemark, EnsureLoading, EnsureLoaded, EnsureFails, AfterMode, AfterFlag,
       UnloadMark, ConfigureMode, ConfigureRest, UpdateEnter, UpdateReturn, loaderVars
  <2>2. Cold => (pc[t] \in WillUnload => l \in WillUnload)
    <3>1. CASE pc[t] \in EnsureLabels
      BY <1>2, <3>1 DEF WillUnload, EnsureLabels, AfterLabels, UpdateLabels
    <3>2. CASE AfterMode(t) \/ AfterFlag(t)
      BY <1>1, <1>2, <3>2 DEF AfterMode, AfterFlag, Cold, WillUnload
    <3>3. CASE pc[t] \notin EnsureLabels \union {"after", "after_flag"}
      <4>1. pc[t] # "unload" /\ pc[t] \notin {"read_processor", "generate"}
        BY <1>1, <1>7, <3>3 DEF ControllerStep, RuntimeStep, LoaderStep, Load, LoadLock,
           BindModel, BuildFails, BindProcessor, UnbindProcessor, ReleaseTensors, Ensure,
           EnsureMark, EnsureWait, EnsureRemark, EnsureLoading, EnsureLoaded, EnsureFails,
           AfterMode, AfterFlag, UnloadMark, ConfigureMode, ConfigureRest, UpdateEnter,
           UpdateReturn
      <4>2. QED
        BY <3>3, <4>1 DEF WillUnload
    <3>4. CASE pc[t] \in {"after", "after_flag"}
      <4>1. AfterMode(t) \/ AfterFlag(t)
        BY <1>1, <3>4 DEF ControllerStep, RuntimeStep, LoaderStep, Load, LoadLock,
           BindModel, BuildFails, BindProcessor, UnbindModel, UnbindProcessor,
           ReleaseTensors, Ensure, EnsureMark, EnsureWait, EnsureRemark, EnsureLoading,
           EnsureLoaded, EnsureFails, UnloadMark, ConfigureMode, ConfigureRest,
           UpdateEnter, UpdateReturn
      <4>2. QED
        BY <3>2, <4>1
    <3>5. QED
      BY <3>1, <3>3, <3>4
  <2>3. Cold => (l \in PastUnload => pc[t] \in PastUnload)
    <3>1. CASE pc[t] \in WillUnload
      BY <2>2, <3>1 DEF WillUnload, PastUnload, EnsureLabels, AfterLabels
    <3>2. CASE pc[t] \notin WillUnload
      BY <1>2, <3>2 DEF WillUnload, PastUnload, EnsureLabels, AfterLabels, UpdateLabels
    <3>3. QED
      BY <3>1, <3>2
  <2>4. pc'[Lifespan] \in {"starting"} \union EnsureLabels => t = Lifespan \/ t \in Patches
    BY <1>1, <1>2, <1>4, RoleDistinct DEF LifespanAlone, EnsureLabels, AfterLabels,
       UpdateLabels
  <2>5. \A r \in Reqs : pc'[r] = pc[r] \/ (r = t /\ pc'[r] = l)
    BY <1>1, <1>2, RoleDistinct
  <2>6. (Cold' /\ model' # None) \/ pc'[Lifespan] \in {"starting"} \union EnsureLabels =>
            (NoneServed => NoneServed')
    BY <1>1, <1>3, <2>3, <2>4, <2>5, RoleDistinct DEF NoneServed, Cold, flagVars
  <2>7. Cold' => \A r \in Reqs : pc[r] \in WillUnload => pc'[r] \in WillUnload
    BY <1>3, <2>2, <2>5 DEF Cold, flagVars
  <2>8. Cold' => Cold
    BY <1>3 DEF Cold, flagVars
  <2>9. QED
    BY <1>4, <2>1, <2>6, <2>7, <2>8, ColdKept
<1>8. QED
  BY <1>5, <1>6, <1>7

LEMMA ColdRequest ==
    ASSUME Base, ColdOK, NEW s \in Reqs, Arrive(s) \/ RequestStep(s) \/ Collect(s)
    PROVE  ColdOK'
<1> USE DEF Goto
<1>1. /\ pc \in [Actors -> ServerLabels] /\ lease \in [Reqs -> LeaseStates] /\ s \in Actors
      /\ LifespanAlone
  BY RoleDistinct DEF Base, IInv, ServiceTypeOK, PermitInv, LockTypeOK
<1>2. /\ UNCHANGED <<model, mode, unloadAfter>> /\ pc'[Lifespan] = pc[Lifespan]
      /\ \A r \in Reqs \ {s} : pc'[r] = pc[r] /\ lease'[r] = lease[r]
  BY <1>1, RoleDistinct DEF Arrive, RequestStep, Collect, Analyze, Acquire, TryAcquire,
     LoadFailed, ReadModel, ReadProcessor, GenerateReturns, GenerateRaises, Finish, Release,
     Reply, loaderVars, runtimeVars, flagVars, lockVars
<1>3. pc[s] \in WillUnload => pc'[s] \in WillUnload
  BY <1>1 DEF Arrive, RequestStep, Collect, Analyze, Acquire, LoadFailed, ReadModel,
     ReadProcessor, GenerateReturns, GenerateRaises, Finish, Reply, WillUnload, EnsureLabels
<1>4. NoneServed => NoneServed'
  <2> SUFFICES ASSUME NoneServed PROVE NoneServed'
    OBVIOUS
  <2>1. CASE Acquire(s)
    BY <1>1, <1>2, <2>1 DEF Acquire, TryAcquire, NoneServed, PastUnload, AfterLabels
  <2>2. CASE Finish(s)
    BY <2>2 DEF Finish, NoneServed, PastUnload, AfterLabels
  <2>3. CASE ~Acquire(s) /\ ~Finish(s)
    <3>1. lease' = lease /\ (pc'[s] = pc[s] \/ pc'[s] \notin PastUnload)
      BY <1>1, <2>3 DEF Arrive, RequestStep, Collect, Analyze, LoadFailed, ReadModel,
         ReadProcessor, GenerateReturns, GenerateRaises, Reply, PastUnload, AfterLabels,
         lockVars
    <3>2. QED
      BY <1>2, <3>1 DEF NoneServed
  <2>4. QED
    BY <2>1, <2>2, <2>3
<1>5. QED
  BY <1>2, <1>3, <1>4, ColdKept DEF Cold

LEMMA ColdOthers ==
    ASSUME Base, ColdOK,
           \/ \E p \in Patches : SendPatch(p)
           \/ LifespanStep \/ BeginShutdown \/ Terminated \/ UNCHANGED vars
    PROVE  ColdOK'
<1> USE DEF Goto
<1>1. pc \in [Actors -> ServerLabels]
  BY DEF Base, IInv, ServiceTypeOK
<1>2. /\ UNCHANGED <<model, mode, unloadAfter, lease>>
      /\ \A r \in Reqs : pc'[r] = pc[r]
      /\ pc'[Lifespan] \in {"starting"} \union EnsureLabels =>
            pc[Lifespan] \in {"starting"} \union EnsureLabels
  BY <1>1, RoleDistinct DEF SendPatch, LifespanStep, Startup, StartupDone, StartupFailed,
     Drained, Stopped, BeginShutdown, Serving, Terminated, vars, loaderVars, runtimeVars,
     flagVars, lockVars, EnsureLabels
<1>3. QED
  BY <1>2, ColdKept DEF Cold, NoneServed

LEMMA ColdNext == Patches = {} => (Base /\ ColdOK /\ [Next]_vars => ColdOK')
BY ColdService, ColdRequest, ColdOthers DEF Next

(* Without PATCH requests, a cold service that unloads after requests has   *)
(* nothing loaded whenever it served somebody and is at rest, for every     *)
(* number of concurrent requests and failures (runtime.py 102-108).         *)
THEOREM ColdIsEmptyAtRest == Patches = {} => (Spec => []ColdLeavesNothing)
<1> SUFFICES ASSUME Patches = {} PROVE Spec => []ColdLeavesNothing
  OBVIOUS
<1>1. Base /\ ColdOK => ColdLeavesNothing
  <2> SUFFICES ASSUME Base, ColdOK, AtRest, Cold, NEW r \in Reqs, lease[r] = "released"
               PROVE  model = None /\ processor = None
    BY DEF ColdLeavesNothing, Cold
  <2>1. \A u \in Reqs : pc[u] \notin WillUnload
    BY RoleDistinct DEF AtRest, WillUnload, EnsureLabels, RuntimeLabels, LoaderLabels
  <2>2. model = None
    BY <2>1 DEF ColdOK, NoneServed
  <2>3. loaderLock = None
    BY DEF AtRest, RuntimeLabels, LoaderLabels, LoaderHolding, Base, IInv, LocksOK,
       LoaderMutex, ServiceTypeOK, ControllerTypeOK, RuntimeTypeOK, LoaderTypeOK
  <2>4. QED
    BY <2>2, <2>3 DEF Base, IInv, BindingOK, BindingWhole
<1>2. Base /\ ColdOK /\ [Next]_vars => ColdOK'
  BY ColdNext
<1>3. QED
  BY <1>1, <1>2, BaseInit, BaseNext, ColdInit, PTL DEF Spec
=============================================================================
