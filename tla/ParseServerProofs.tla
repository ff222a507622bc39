------------------------- MODULE ParseServerProofs -------------------------
(***************************************************************************)
(* Safety of the service for every set of requests and PATCH requests,     *)
(* every limit of concurrent generations, every environment and every      *)
(* combination of faults.                                                  *)
(***************************************************************************)
EXTENDS ParseServer, GenerationLockProofs, RuntimeModeControllerProofs

USE LoaderAssumption, ControllerAssumption, ServerAssumption, MaxConcurrentAssumption

-----------------------------------------------------------------------------
(* Type correctness. The conjuncts of ServerTypeOK, action by action.       *)

LEMMA InitType == Init => ServerTypeOK
<1> SUFFICES ASSUME Init PROVE ServerTypeOK
    OBVIOUS
<1>1. PICK env \in Environments :
          /\ RuntimeInit(Settings(env))
          /\ snapshot = Settings(env)
          /\ updateLock = None
          /\ reply = [t \in Actors |-> Settings(env)]
    BY DEF Init, ControllerStart
<1>2. Settings(env) \in Config
    BY SettingsType
<1>3. RuntimeTypeOK
    BY <1>1, <1>2 DEF RuntimeInit, RuntimeTypeOK, LoaderTypeOK, Statuses, Config
<1>4. ControllerTypeOK
    BY <1>1, <1>2, <1>3 DEF RuntimeInit, ControllerTypeOK
<1>5. LockTypeOK
    BY DEF Init, LockInit, LockTypeOK, LeaseStates
<1>6. pc \in [Actors -> ServerLabels]
    BY DEF Init, ServerLabels
<1>7. exc \in [Actors -> ServerExceptions]
    BY <1>1 DEF RuntimeInit, ServerExceptions, Exceptions
<1>8. /\ frame \in [Reqs -> Frames]
      /\ output \subseteq Reqs
      /\ outcome \in [Reqs -> Outcomes]
    BY DEF Init, NoFrame, Frames, Outcomes
<1> QED
    BY <1>4, <1>5, <1>6, <1>7, <1>8 DEF ServerTypeOK

(* The part of the type invariant the loader's, the runtime's and the       *)
(* controller's statements touch.                                           *)
ServiceTypeOK == /\ ControllerTypeOK
                 /\ pc \in [Actors -> ServerLabels]
                 /\ exc \in [Actors -> ServerExceptions]

-----------------------------------------------------------------------------
(* Which statements which actor executes.                                   *)

RequestLabels  == {"idle", "analyze", "acquire", "read_processor", "generate",
                   "reply", "done"} \union EnsureLabels \union AfterLabels
LifespanLabels == {"starting", "serving", "draining", "stopped"}
                      \union EnsureLabels \union AfterLabels

RolesOK == /\ \A r \in Reqs : pc[r] \in RequestLabels
           /\ \A p \in Patches : pc[p] \in UpdateLabels \union {"idle"}
           /\ pc[Lifespan] \in LifespanLabels

-----------------------------------------------------------------------------
(* The inductive invariant of the service.                                  *)

RequestTypeOK == /\ frame \in [Reqs -> Frames]
                 /\ output \subseteq Reqs
                 /\ outcome \in [Reqs -> Outcomes]

IInv == /\ ServiceTypeOK
        /\ PermitInv
        /\ RequestTypeOK
        /\ RolesOK
        /\ LocksOK
        /\ BindingOK
        /\ LeaseBracketsWork

AdmittedLabels == RuntimeLabels \union {"read_processor", "generate"}
LockedLabels   == LoaderHolding \union LoadHolding \union UpdateHolding

LEMMA RoleDistinct ==
    /\ \A r \in Reqs : r \in Actors /\ r \notin Patches /\ r # Lifespan
    /\ \A p \in Patches : p \in Actors /\ p \notin Reqs /\ p # Lifespan
    /\ Lifespan \in Actors /\ Lifespan \notin Reqs /\ Lifespan \notin Patches
    /\ \A t \in Actors : t \in Reqs \/ t \in Patches \/ t = Lifespan
OBVIOUS

(* An actor moves between statements outside every with block, and nothing  *)
(* of the service changes.                                                  *)
LEMMA Hop ==
    ASSUME IInv, NEW t \in Actors, NEW l \in ServerLabels \ LockedLabels,
           pc[t] \notin LockedLabels, pc' = [pc EXCEPT ![t] = l],
           exc' \in [Actors -> ServerExceptions],
           UNCHANGED <<loaderVars, runtimeVars, controllerVars>>
    PROVE  ServiceTypeOK' /\ LocksOK' /\ BindingOK'
<1>1. ServiceTypeOK'
    BY DEF IInv, ServiceTypeOK, ControllerTypeOK, RuntimeTypeOK, LoaderTypeOK,
           loaderVars, runtimeVars, flagVars, controllerVars
<1>2. LocksOK' /\ BindingOK'
    BY OutsideLocks DEF IInv, ServiceTypeOK, LockedLabels, runtimeVars, controllerVars
<1> QED
    BY <1>1, <1>2

(* A step that leaves the leases alone and does not move a request into or  *)
(* out of the admitted part keeps the leases in step.                       *)
LEMMA LeasesKept ==
    ASSUME IInv, NEW t \in Actors, NEW l, pc' = [pc EXCEPT ![t] = l],
           t \in Reqs => (pc[t] \in AdmittedLabels <=> l \in AdmittedLabels),
           UNCHANGED lockVars
    PROVE  PermitInv' /\ LeaseBracketsWork'
<1>1. PermitInv'
    BY DEF IInv, PermitInv, LockTypeOK, PermitsAccounted, Held, lockVars
<1>2. LeaseBracketsWork'
    BY DEF IInv, LeaseBracketsWork, Admitted, Held, AdmittedLabels, lockVars,
           ServiceTypeOK
<1> QED
    BY <1>1, <1>2

LEMMA RequestMoves ==
    ASSUME IInv, NEW r \in Reqs, NEW l \in RequestLabels, pc' = [pc EXCEPT ![r] = l]
    PROVE  RolesOK'
BY RoleDistinct DEF IInv, RolesOK, ServiceTypeOK

LEMMA LifespanMoves ==
    ASSUME IInv, NEW l \in LifespanLabels, pc' = [pc EXCEPT ![Lifespan] = l]
    PROVE  RolesOK'
BY RoleDistinct DEF IInv, RolesOK, ServiceTypeOK

-----------------------------------------------------------------------------
LEMMA InitInv == Init => IInv
<1> SUFFICES ASSUME Init PROVE IInv
    OBVIOUS
<1>1. ServerTypeOK
    BY InitType
<1>2. LockInit
    BY DEF Init
<1>3. PermitInv
    BY <1>2, LockInitInv
<1>4. RolesOK
    BY RoleDistinct DEF Init, RolesOK, RequestLabels, LifespanLabels
<1>5. PICK env \in Environments :
          /\ RuntimeInit(Settings(env))
          /\ updateLock = None
    BY DEF Init, ControllerStart
<1>6. LocksOK /\ BindingOK
    BY <1>5 DEF Init, RuntimeInit, LocksOK, LoaderMutex, LoadMutex, UpdateMutex,
       LoaderHolding, LoadHolding, UpdateHolding, BindingOK, BindingWhole, BuildsOnEmpty
<1>7. LeaseBracketsWork
    BY <1>2, RoleDistinct DEF Init, LockInit, LeaseBracketsWork, Held, Admitted,
       RuntimeLabels, LoaderLabels
<1> QED
    BY <1>1, <1>3, <1>4, <1>6, <1>7 DEF IInv, ServerTypeOK, ServiceTypeOK, RequestTypeOK

(* The statements of the runtime, the loader and the controller.            *)
LEMMA ServiceStepInv ==
    ASSUME IInv, NEW t \in Actors, ServiceStep(t)
    PROVE  IInv'
<1>1. ControllerStep(t) /\ UNCHANGED lockVars
    BY DEF ServiceStep
<1>2. ServiceTypeOK' /\ LocksOK' /\ BindingOK'
    <2>1. ControllerLabels \subseteq ServerLabels /\ Exceptions \subseteq ServerExceptions
        BY DEF ServerLabels, ServerExceptions
    <2>2. Typed(ServerLabels, ServerExceptions)'
        BY <1>1, <2>1, ControllerStepType DEF IInv, ServiceTypeOK, Typed
    <2>3. LocksOK' /\ BindingOK'
        BY <1>1, ControllerStepLocks DEF IInv, ServiceTypeOK
    <2> QED
        BY <2>2, <2>3 DEF Typed, ServiceTypeOK
<1>3. PICK l \in EnsureLabels \union AfterLabels \union UpdateLabels :
              /\ pc' = [pc EXCEPT ![t] = l]
              /\ \/ pc[t] \in EnsureLabels /\ l \in EnsureLabels
                 \/ pc[t] \in AfterLabels /\ l \in AfterLabels
                 \/ pc[t] \in UpdateLabels /\ l \in UpdateLabels
    BY <1>1, ServiceMoves DEF IInv
<1>4. RequestTypeOK'
    BY DEF IInv, RequestTypeOK, ServiceStep, Collected, NoFrame, Frames
<1>5. CASE t \in Reqs
    <2>1. l \in RequestLabels /\ pc[t] \in AdmittedLabels /\ l \in AdmittedLabels
        BY <1>3, <1>5 DEF IInv, RolesOK, RequestLabels, EnsureLabels, AfterLabels,
           UpdateLabels, AdmittedLabels, RuntimeLabels, LoaderLabels
    <2>2. RolesOK'
        BY <1>3, <1>5, <2>1, RequestMoves
    <2>3. PermitInv' /\ LeaseBracketsWork'
        BY <1>1, <1>3, <2>1, LeasesKept
    <2> QED
        BY <1>2, <1>4, <2>2, <2>3 DEF IInv
<1>6. CASE t \in Patches
    <2>1. l \in UpdateLabels
        BY <1>3, <1>6 DEF IInv, RolesOK, EnsureLabels, AfterLabels, UpdateLabels
    <2>2. RolesOK'
        BY <1>3, <1>6, <2>1, RoleDistinct DEF IInv, RolesOK, ServiceTypeOK
    <2>3. PermitInv' /\ LeaseBracketsWork'
        BY <1>1, <1>3, <1>6, RoleDistinct, LeasesKept
    <2> QED
        BY <1>2, <1>4, <2>2, <2>3 DEF IInv
<1>7. CASE t = Lifespan
    <2>1. l \in LifespanLabels
        BY <1>3, <1>7 DEF IInv, RolesOK, LifespanLabels, EnsureLabels, AfterLabels,
           UpdateLabels
    <2>2. RolesOK'
        BY <1>3, <1>7, <2>1, LifespanMoves
    <2>3. PermitInv' /\ LeaseBracketsWork'
        BY <1>1, <1>3, <1>7, RoleDistinct, LeasesKept
    <2> QED
        BY <1>2, <1>4, <2>2, <2>3 DEF IInv
<1> QED
    BY <1>5, <1>6, <1>7, RoleDistinct

-----------------------------------------------------------------------------
(* A request step that touches neither the leases nor the service.          *)
LEMMA PlainRequestStep ==
    ASSUME IInv, NEW r \in Reqs,
           NEW l \in {"analyze", "acquire", "after", "read_processor", "generate",
                      "reply", "done"},
           pc[r] \notin LockedLabels, pc' = [pc EXCEPT ![r] = l],
           pc[r] \in AdmittedLabels <=> l \in AdmittedLabels,
           exc' \in [Actors -> ServerExceptions],
           UNCHANGED <<loaderVars, runtimeVars, controllerVars, lockVars>>,
           RequestTypeOK'
    PROVE  IInv'
<1>1. r \in Actors
    BY RoleDistinct
<1>2. l \in ServerLabels \ LockedLabels
    BY DEF ServerLabels, ControllerLabels, RuntimeLabels, LoaderLabels, LockedLabels,
       LoaderHolding, LoadHolding, UpdateHolding
<1>3. ServiceTypeOK' /\ LocksOK' /\ BindingOK'
    BY <1>1, <1>2, Hop
<1>4. PermitInv' /\ LeaseBracketsWork'
    BY <1>1, LeasesKept
<1>5. RolesOK'
    BY RequestMoves DEF RequestLabels, AfterLabels
<1> QED
    BY <1>3, <1>4, <1>5 DEF IInv

LEMMA RequestStepInv ==
    ASSUME IInv, NEW r \in Reqs, Arrive(r) \/ RequestStep(r) \/ Collect(r)
    PROVE  IInv'
<1> USE DEF Goto, LockedLabels, LoaderHolding, LoadHolding, UpdateHolding,
            AdmittedLabels, RuntimeLabels, LoaderLabels, requestVars, RequestTypeOK
<1>0. /\ r \in Actors
      /\ exc \in [Actors -> ServerExceptions]
      /\ model \in Actors \union {None}
      /\ processor \in Actors \union {None}
      /\ frame \in [Reqs -> Frames] /\ output \subseteq Reqs
      /\ outcome \in [Reqs -> Outcomes]
    BY RoleDistinct DEF IInv, ServiceTypeOK, ControllerTypeOK, RuntimeTypeOK, LoaderTypeOK
<1>1. CASE Arrive(r)
    BY <1>0, <1>1, PlainRequestStep DEF Arrive
<1>2. CASE Analyze(r)
    <2>1. exc' \in [Actors -> ServerExceptions]
        BY <1>0, <1>2 DEF Analyze, ServerExceptions
    <2>2. CASE pc' = [pc EXCEPT ![r] = "acquire"]
        BY <1>0, <1>2, <2>1, <2>2, PlainRequestStep DEF Analyze
    <2>3. CASE pc' = [pc EXCEPT ![r] = "reply"]
        BY <1>0, <1>2, <2>1, <2>3, PlainRequestStep DEF Analyze
    <2> QED
        BY <1>2, <2>2, <2>3 DEF Analyze
<1>3. CASE Acquire(r)
    <2> DEFINE l == IF lease'[r] = "held" THEN "ensure" ELSE "reply"
    <2>1. pc' = [pc EXCEPT ![r] = l] /\ exc' \in [Actors -> ServerExceptions]
        BY <1>0, <1>3 DEF Acquire, ServerExceptions
    <2>2. PermitInv'
        BY <1>3, TryAcquireInv DEF Acquire, IInv
    <2>3. \/ permits > 0 /\ Held' = Held \union {r} /\ l = "ensure"
          \/ ~(permits > 0) /\ Held' = Held /\ r \notin Held /\ l = "reply"
        BY <1>3 DEF Acquire, TryAcquire, MayAcquire, Held, IInv, PermitInv, LockTypeOK
    <2>4. LeaseBracketsWork'
        BY <1>0, <2>1, <2>3 DEF IInv, LeaseBracketsWork, Admitted, ServiceTypeOK
    <2>5. l \in ServerLabels \ LockedLabels /\ pc[r] \notin LockedLabels
        BY <1>3 DEF Acquire, ServerLabels, ControllerLabels
    <2>6. ServiceTypeOK' /\ LocksOK' /\ BindingOK'
        BY <1>0, <1>3, <2>1, <2>5, Hop DEF Acquire
    <2>7. RolesOK'
        BY <2>1, RequestMoves DEF RequestLabels, EnsureLabels
    <2>8. RequestTypeOK'
        BY <1>0, <1>3 DEF Acquire
    <2> QED
        BY <2>2, <2>4, <2>6, <2>7, <2>8 DEF IInv
<1>4. CASE LoadFailed(r)
    BY <1>0, <1>4, PlainRequestStep DEF LoadFailed
<1>5. CASE ReadModel(r)
    <2>1. frame' \in [Reqs -> Frames]
        BY <1>0, <1>5 DEF ReadModel, Frames
    <2> QED
        BY <1>0, <1>5, <2>1, PlainRequestStep DEF ReadModel
<1>6. CASE ReadProcessor(r)
    <2>1. frame' \in [Reqs -> Frames]
        BY <1>0, <1>6 DEF ReadProcessor, Frames
    <2>2. exc' \in [Actors -> ServerExceptions]
        BY <1>0, <1>6 DEF ReadProcessor, ServerExceptions
    <2> QED
        BY <1>0, <1>6, <2>1, <2>2, PlainRequestStep DEF ReadProcessor
<1>7. CASE GenerateReturns(r)
    <2>1. frame' \in [Reqs -> Frames]
        BY <1>0, <1>7 DEF GenerateReturns, Frames, NoFrame
    <2> QED
        BY <1>0, <1>7, <2>1, PlainRequestStep DEF GenerateReturns
<1>8. CASE GenerateRaises(r)
    <2>1. frame' \in [Reqs -> Frames]
        BY <1>0, <1>8 DEF GenerateRaises, Frames, NoFrame
    <2>2. exc' \in [Actors -> ServerExceptions]
        BY <1>0, <1>8 DEF GenerateRaises, ServerExceptions, Exceptions
    <2> QED
        BY <1>0, <1>8, <2>1, <2>2, PlainRequestStep DEF GenerateRaises
<1>9. CASE Finish(r)
    <2>1. lease[r] = "held"
        BY <1>0, <1>9 DEF Finish, IInv, LeaseBracketsWork, Held, Admitted
    <2>2. PermitInv' /\ Held' = Held \ {r}
        BY <1>9, <2>1, ReturnPermit DEF Finish, Release, IInv
    <2>3. pc' = [pc EXCEPT ![r] = "reply"]
        BY <1>9 DEF Finish
    <2>4. LeaseBracketsWork'
        BY <1>0, <2>2, <2>3 DEF IInv, LeaseBracketsWork, Admitted, ServiceTypeOK
    <2>5. "reply" \in ServerLabels \ LockedLabels /\ pc[r] \notin LockedLabels
        BY <1>9 DEF Finish, ServerLabels, ControllerLabels
    <2>6. ServiceTypeOK' /\ LocksOK' /\ BindingOK'
        BY <1>0, <1>9, <2>3, <2>5, Hop DEF Finish
    <2>7. RolesOK'
        BY <2>3, RequestMoves DEF RequestLabels
    <2>8. RequestTypeOK'
        BY <1>0, <1>9 DEF Finish
    <2> QED
        BY <2>2, <2>4, <2>6, <2>7, <2>8 DEF IInv
<1>10. CASE Reply(r)
    <2>1. Answer(exc[r]) \in Outcomes
        BY DEF Answer, Outcomes
    <2>2. RequestTypeOK'
        BY <1>0, <1>10, <2>1 DEF Reply
    <2> QED
        BY <1>0, <1>10, <2>2, PlainRequestStep DEF Reply
<1>11. CASE Collect(r)
    <2>1. frame' \in [Reqs -> Frames]
        BY <1>0, <1>11 DEF Collect, Frames, NoFrame
    <2>2. pc' = [pc EXCEPT ![r] = "done"]
        BY <1>0, <1>11 DEF Collect, IInv, ServiceTypeOK
    <2> QED
        BY <1>0, <1>11, <2>1, <2>2, PlainRequestStep DEF Collect
<1> QED
    BY <1>1, <1>2, <1>3, <1>4, <1>5, <1>6, <1>7, <1>8, <1>9, <1>10, <1>11 DEF RequestStep

LEMMA OtherStepInv ==
    ASSUME IInv,
           \/ \E p \in Patches : SendPatch(p)
           \/ LifespanStep
           \/ BeginShutdown
    PROVE  IInv'
<1> USE DEF Goto, LockedLabels, LoaderHolding, LoadHolding, UpdateHolding
<1>1. RequestTypeOK' /\ exc' \in [Actors -> ServerExceptions]
      /\ UNCHANGED <<loaderVars, runtimeVars, controllerVars, lockVars>>
    BY DEF IInv, RequestTypeOK, ServiceTypeOK, requestVars, SendPatch, LifespanStep,
           Startup, StartupDone, StartupFailed, Drained, Stopped, BeginShutdown
<1>2. ASSUME NEW p \in Patches, SendPatch(p)
      PROVE  IInv'
    <2>1. p \in Actors /\ p \notin Reqs
        BY RoleDistinct
    <2>2. ServiceTypeOK' /\ LocksOK' /\ BindingOK'
        BY <1>1, <1>2, <2>1, Hop DEF SendPatch, ServerLabels, ControllerLabels
    <2>3. PermitInv' /\ LeaseBracketsWork'
        BY <1>1, <1>2, <2>1, LeasesKept DEF SendPatch
    <2>4. RolesOK'
        BY <1>2, RoleDistinct DEF SendPatch, IInv, RolesOK, ServiceTypeOK, UpdateLabels
    <2> QED
        BY <1>1, <2>2, <2>3, <2>4 DEF IInv
<1>3. CASE LifespanStep \/ BeginShutdown
    <2>1. PICK l \in {"ensure", "serving", "unload", "draining", "stopped"} :
              pc' = [pc EXCEPT ![Lifespan] = l]
        BY <1>3 DEF LifespanStep, Startup, StartupDone, StartupFailed, Drained,
           Stopped, BeginShutdown
    <2>2. pc[Lifespan] \notin LockedLabels
        BY <1>3 DEF LifespanStep, Startup, StartupDone, StartupFailed, Drained,
           Stopped, BeginShutdown, Serving
    <2>3. l \in ServerLabels \ LockedLabels
        BY DEF ServerLabels, ControllerLabels, RuntimeLabels, LoaderLabels
    <2>4. ServiceTypeOK' /\ LocksOK' /\ BindingOK'
        BY <1>1, <2>1, <2>2, <2>3, RoleDistinct, Hop
    <2>5. PermitInv' /\ LeaseBracketsWork'
        BY <1>1, <2>1, RoleDistinct, LeasesKept
    <2>6. RolesOK'
        BY <2>1, LifespanMoves DEF LifespanLabels, EnsureLabels, AfterLabels
    <2> QED
        BY <1>1, <2>4, <2>5, <2>6 DEF IInv
<1> QED
    BY <1>2, <1>3

LEMMA StutterInv ==
    ASSUME IInv, UNCHANGED vars
    PROVE  IInv'
BY DEF IInv, vars, ServiceTypeOK, ControllerTypeOK, RuntimeTypeOK, LoaderTypeOK,
       PermitInv, LockTypeOK, PermitsAccounted, Held, RequestTypeOK, RolesOK, LocksOK,
       LoaderMutex, LoadMutex, UpdateMutex, BindingOK, BindingWhole, BuildsOnEmpty,
       LeaseBracketsWork, Admitted, loaderVars, runtimeVars, flagVars, controllerVars,
       lockVars, requestVars

LEMMA NextInv == IInv /\ [Next]_vars => IInv'
<1> SUFFICES ASSUME IInv, [Next]_vars PROVE IInv'
    OBVIOUS
<1>1. CASE \E r \in Reqs : Arrive(r) \/ RequestStep(r) \/ Collect(r)
    BY <1>1, RequestStepInv
<1>2. CASE (\E p \in Patches : SendPatch(p)) \/ LifespanStep \/ BeginShutdown
    BY <1>2, OtherStepInv
<1>3. CASE \E t \in Actors : ServiceStep(t)
    BY <1>3, ServiceStepInv
<1>4. CASE Terminated \/ UNCHANGED vars
    BY <1>4, StutterInv DEF Terminated
<1> QED
    BY <1>1, <1>2, <1>3, <1>4 DEF Next

LEMMA Invariance == Spec => []IInv
BY InitInv, NextInv, PTL DEF Spec

-----------------------------------------------------------------------------
(* Every variable of the service keeps its type; in particular the          *)
(* semaphore never exceeds max_concurrent_generations, which BoundedSemaphore*)
(* would answer with a ValueError (generation_lock.py 13-17, 31).           *)
THEOREM TypeCorrect == Spec => []ServerTypeOK
<1>1. IInv => ServerTypeOK
    BY DEF IInv, ServiceTypeOK, RequestTypeOK, PermitInv, ServerTypeOK
<1> QED
    BY <1>1, Invariance, PTL

(* Loads are single-flight and no configuration changes under a load: the   *)
(* runtime's lock, the loader's lock and the controller's lock exclude      *)
(* what they are there to exclude (runtime.py 76-100, gemma4_loader.py      *)
(* 43-52, runtime_mode.py 41-61).                                           *)
THEOREM LocksExclude == Spec => [](LoaderMutex /\ LoadMutex /\ UpdateMutex)
<1>1. IInv => LoaderMutex /\ LoadMutex /\ UpdateMutex
    BY DEF IInv, LocksOK
<1> QED
    BY <1>1, Invariance, PTL

(* A copy of the model is built only while none is bound, and outside the   *)
(* loader's with blocks model and processor stem from one build             *)
(* (gemma4_loader.py 40-53).                                                *)
THEOREM BindingIsWhole == Spec => [](BindingWhole /\ BuildsOnEmpty)
<1>1. IInv => BindingWhole /\ BuildsOnEmpty
    BY DEF IInv, BindingOK
<1> QED
    BY <1>1, Invariance, PTL

(* A lease is held exactly while its request is between admission and the   *)
(* end of the provider's finally clause, and all permits are accounted for  *)
(* (gemma4_provider.py 92-131, generation_lock.py 13-45).                   *)
THEOREM LeasesFollowRequests == Spec => [](LeaseBracketsWork /\ PermitsAccounted)
<1>1. IInv => LeaseBracketsWork /\ PermitsAccounted
    BY DEF IInv, PermitInv
<1> QED
    BY <1>1, Invariance, PTL

-----------------------------------------------------------------------------
(* Steps of the service on the abstract admission control.                  *)
LEMMA AdmissionStep ==
    ASSUME IInv, [Next]_vars
    PROVE  [Admission!Next]_<<Held, Busy>>
<1>1. ASSUME NEW r \in Reqs, Acquire(r)
      PROVE  Admission!Next
    BY <1>1, TryAcquireInv DEF Acquire, IInv
<1>2. ASSUME NEW r \in Reqs, Finish(r)
      PROVE  Admission!Next \/ UNCHANGED lockVars
    BY <1>2, ReleaseInv DEF Finish, IInv
<1>3. CASE UNCHANGED lockVars
    BY <1>3 DEF lockVars, Held, Busy
<1>4. ASSUME NEW r \in Reqs, Arrive(r) \/ RequestStep(r) \/ Collect(r),
             ~Acquire(r), ~Finish(r)
      PROVE  UNCHANGED lockVars
    BY <1>4 DEF Arrive, RequestStep, Collect, Analyze, LoadFailed, ReadModel,
       ReadProcessor, GenerateReturns, GenerateRaises, Reply
<1>5. ASSUME \/ \E p \in Patches : SendPatch(p)
             \/ \E t \in Actors : ServiceStep(t)
             \/ LifespanStep
             \/ BeginShutdown
             \/ Terminated
             \/ UNCHANGED vars
      PROVE  UNCHANGED lockVars
    BY <1>5 DEF SendPatch, ServiceStep, LifespanStep, Startup, StartupDone,
       StartupFailed, Drained, Stopped, BeginShutdown, Terminated, vars, lockVars
<1> QED
    BY <1>1, <1>2, <1>3, <1>4, <1>5 DEF Next

(* The service as a whole keeps the lock's promise: never more requests     *)
(* admitted than max_concurrent_generations, and PARSER_BUSY only when that *)
(* many are (gemma4_provider.py 92-101, 129-131).                           *)
THEOREM ServerImplementsAdmission == Spec => AdmissionSpec
<1>1. Init => Admission!Init
    BY DEF Init, LockInit, Admission!Init, Held
<1>2. IInv /\ [Next]_vars => [Admission!Next]_(Admission!vars)
    BY AdmissionStep DEF Admission!vars, Busy
<1> QED
    BY <1>1, <1>2, Invariance, PTL DEF Spec, AdmissionSpec, Admission!Spec
-----------------------------------------------------------------------------
(* Steps of the service on the abstract holder of the model.                *)
LEMMA HolderStep ==
    ASSUME IInv, [Next]_vars
    PROVE  [Holder!Next]_<<Bound, Builder>>
<1>1. pc \in [Actors -> ServerLabels] /\ LoaderMutex /\ BindingOK
    BY DEF IInv, ServiceTypeOK, LocksOK
<1>2. ASSUME NEW t \in Actors, ServiceStep(t)
      PROVE  Holder!Next \/ UNCHANGED <<Bound, Builder>>
    BY <1>1, <1>2, ControllerStepHolder DEF ServiceStep
<1>3. ASSUME NEW r \in Reqs, Arrive(r) \/ RequestStep(r)
      PROVE  UNCHANGED <<Bound, Builder>>
    <2>1. PICK l : pc' = [pc EXCEPT ![r] = l] /\ pc[r] \notin LoaderHolding
                   /\ UNCHANGED loaderVars
        BY <1>3 DEF Arrive, RequestStep, Analyze, Acquire, LoadFailed, ReadModel, ReadProcessor,
           GenerateReturns, GenerateRaises, Finish, Reply, Goto, LoaderHolding
    <2> QED
        BY <1>1, <2>1, RoleDistinct, HolderKept
<1>4. ASSUME NEW p \in Patches, SendPatch(p)
      PROVE  UNCHANGED <<Bound, Builder>>
    <2>1. pc' = [pc EXCEPT ![p] = "update"] /\ pc[p] \notin LoaderHolding
          /\ UNCHANGED loaderVars
        BY <1>4 DEF SendPatch, Goto, LoaderHolding
    <2> QED
        BY <1>1, <2>1, RoleDistinct, HolderKept
<1>5. CASE LifespanStep \/ BeginShutdown
    <2>1. PICK l : pc' = [pc EXCEPT ![Lifespan] = l] /\ pc[Lifespan] \notin LoaderHolding
                   /\ UNCHANGED loaderVars
        BY <1>5 DEF LifespanStep, Startup, StartupDone, StartupFailed, Drained, Stopped,
           BeginShutdown, Serving, Goto, LoaderHolding
    <2> QED
        BY <1>1, <2>1, RoleDistinct, HolderKept
<1>6. CASE (\E r \in Reqs : Collect(r)) \/ Terminated \/ UNCHANGED vars
    BY <1>6 DEF Collect, Terminated, vars, loaderVars, Bound, Builder, Loaded
<1> QED
    BY <1>2, <1>3, <1>4, <1>5, <1>6 DEF Next

(* In the service, too, whatever requests, PATCH requests and the shutdown  *)
(* do to each other, the loader is a holder of one copy that is built in an *)
(* empty place, shown whole and never dropped under a build                 *)
(* (gemma4_loader.py 35-55, gemma4_provider.py 133-145).                    *)
THEOREM ServerImplementsHolder == Spec => HolderSpec
<1>1. Init => Holder!Init
    BY DEF Init, ControllerStart, RuntimeInit, Holder!Init, Bound, Builder, Loaded
<1>2. IInv /\ [Next]_vars => [Holder!Next]_(Holder!vars)
    BY HolderStep DEF Holder!vars
<1> QED
    BY <1>1, <1>2, Invariance, PTL DEF Spec, HolderSpec, Holder!Spec
=============================================================================
