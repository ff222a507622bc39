------------------------- MODULE ProbesAndPoolProofs -------------------------
(***************************************************************************)
(* What surrounds the service. A 200 of readyz in resident mode is kept:   *)
(* what a probe read as ready was a loaded model, and that stays loaded    *)
(* while nobody patches the mode. With one generation at a time no probe   *)
(* makes up a status. On the thread pool the owners of the locks have the  *)
(* threads they need, and the order in which locks are taken has no circle.*)
(***************************************************************************)
EXTENDS StatusProbes, ThreadPool, ParseServerModelProofs

ViewSteady(p) ==
    /\ stage[p] \in {"snapshot", "answered"} /\ view[p].status = "ready" => Loaded
    /\ stage[p] = "answered" => view[p].mode = "resident"

ProbesInv == /\ IInv
             /\ ProbeTypeOK
             /\ Unpatched => snapshot.mode = mode
             /\ Steady => ServiceSteady /\ \A p \in Probes : ViewSteady(p)

-----------------------------------------------------------------------------
(* Every step of the probes' system is a step of the service or none.       *)
LEMMA ProbesStep ==
    ASSUME [ProbesNext]_<<vars, probeVars>>
    PROVE  [Next]_vars
BY DEF ProbesNext, ServerStep

LEMMA ProbesTypeStep ==
    ASSUME IInv, ProbeTypeOK, [ProbesNext]_<<vars, probeVars>>
    PROVE  ProbeTypeOK'
<1>1. IInv'
    BY ProbesStep, NextInv
<1>2. status \in Statuses /\ snapshot \in Config
    BY DEF IInv, ServiceTypeOK, ControllerTypeOK, RuntimeTypeOK
<1>3. Instant' \in View
    BY <1>1 DEF IInv, ServiceTypeOK, ControllerTypeOK, RuntimeTypeOK, Instant,
       ReportedStatus, View, Statuses, Config
<1>4. CASE UNCHANGED <<vars, probeVars>>
    BY <1>4 DEF ProbeTypeOK, probeVars
<1>5. CASE ProbesNext
    <2>1. seen' \in [Probes -> SUBSET View]
        BY <1>3, <1>5 DEF ProbesNext, Observe, ProbeTypeOK
    <2>2. stage' \in [Probes -> Stages]
        BY <1>5 DEF ProbesNext, ServerStep, ProbeStep, ProbeArrives, ReadLoaded,
           ReadStatus, ReadSnapshot, Advance, ProbeTypeOK, Stages
    <2>3. view' \in [Probes -> View]
        BY <1>2, <1>5 DEF ProbesNext, ServerStep, ProbeStep, ProbeArrives, ReadLoaded,
           ReadStatus, ReadSnapshot, ProbeTypeOK, View, Statuses, Config
    <2> QED
        BY <2>1, <2>2, <2>3 DEF ProbeTypeOK
<1> QED
    BY <1>4, <1>5

LEMMA ProbesInitInv == ProbesInit => ProbesInv
<1> SUFFICES ASSUME ProbesInit PROVE ProbesInv
    OBVIOUS
<1>1. IInv
    BY InitInv DEF ProbesInit
<1>2. PICK env \in Environments : RuntimeInit(Settings(env)) /\ snapshot = Settings(env)
    BY DEF ProbesInit, Init, ControllerStart
<1>3. snapshot.mode = mode /\ status = "not_loaded"
    BY <1>2 DEF RuntimeInit
<1>4. ProbeTypeOK
    <2>1. Instant \in View
        BY <1>1 DEF IInv, ServiceTypeOK, ControllerTypeOK, RuntimeTypeOK, Instant,
           ReportedStatus, View, Statuses, Config
    <2> QED
        BY <2>1 DEF ProbesInit, ProbeTypeOK, Stages
<1>5. ServiceSteady
    BY <1>3, RoleDistinct DEF ProbesInit, Init, ServiceSteady, NoUnload, OnLoaded,
       AfterLabels
<1>6. \A p \in Probes : ViewSteady(p)
    BY DEF ProbesInit, ViewSteady
<1> QED
    BY <1>1, <1>3, <1>4, <1>5, <1>6 DEF ProbesInv

LEMMA ViewStep ==
    ASSUME ProbesInv, [ProbesNext]_<<vars, probeVars>>, Steady, ServiceSteady,
           Loaded => Loaded', NEW p \in Probes, ViewSteady(p)
    PROVE  ViewSteady(p)'
<1>1. stage \in [Probes -> Stages] /\ view \in [Probes -> View]
    BY DEF ProbesInv, ProbeTypeOK
<1>2. CASE stage'[p] = stage[p] /\ view'[p] = view[p]
    BY <1>2 DEF ViewSteady
<1>3. CASE ProbeArrives(p)
    BY <1>1, <1>3 DEF ProbeArrives, Advance, ViewSteady
<1>4. CASE ReadLoaded(p)
    BY <1>1, <1>4 DEF ReadLoaded, Advance, ViewSteady
<1>5. CASE ReadStatus(p)
    BY <1>1, <1>5 DEF ReadStatus, Advance, ViewSteady, ServiceSteady, View
<1>6. CASE ReadSnapshot(p)
    <2>1. snapshot.mode = "resident"
        BY DEF ProbesInv, Steady
    <2> QED
        BY <1>1, <1>6, <2>1 DEF ReadSnapshot, Advance, ViewSteady, View
<1>7. ASSUME NEW q \in Probes, ProbeStep(q), q # p
      PROVE  stage'[p] = stage[p] /\ view'[p] = view[p]
    BY <1>1, <1>7 DEF ProbeStep, ProbeArrives, ReadLoaded, ReadStatus, ReadSnapshot,
       Advance
<1>8. CASE ServerStep \/ UNCHANGED <<vars, probeVars>>
    BY <1>2, <1>8 DEF ServerStep, probeVars
<1> QED
    BY <1>2, <1>3, <1>4, <1>5, <1>6, <1>7, <1>8 DEF ProbesNext, ProbeStep

LEMMA ProbesNextInv == ProbesInv /\ [ProbesNext]_<<vars, probeVars>> => ProbesInv'
<1> SUFFICES ASSUME ProbesInv, [ProbesNext]_<<vars, probeVars>> PROVE ProbesInv'
    OBVIOUS
<1>1. [Next]_vars /\ IInv
    BY ProbesStep DEF ProbesInv
<1>2. IInv'
    BY <1>1, NextInv
<1>3. ProbeTypeOK'
    BY ProbesTypeStep DEF ProbesInv
<1>4. Unpatched' => (snapshot.mode = mode)'
    BY <1>1, UnpatchedBack DEF ProbesInv
<1>5. ASSUME Steady'
      PROVE  ServiceSteady' /\ \A p \in Probes : ViewSteady(p)'
    <2>1. Steady /\ ServiceSteady /\ \A p \in Probes : ViewSteady(p)
        BY <1>1, <1>5, SteadyBack DEF ProbesInv
    <2>2. ServiceSteady' /\ (Loaded => Loaded')
        BY <1>1, <1>5, <2>1, SteadyNext
    <2> QED
        BY <2>1, <2>2, ViewStep
<1> QED
    BY <1>2, <1>3, <1>4, <1>5 DEF ProbesInv

-----------------------------------------------------------------------------
(* A 200 of readyz in resident mode is kept until shutdown or until a PATCH *)
(* is sent, for every number of requests and every limit                    *)
(* (routes/status.py 28-46, 84-91).                                         *)
THEOREM ReadyIsAPromise == ProbesSpec => [](ProbeTypeOK /\ ReadyIsKept)
<1>1. ProbesInv => ProbeTypeOK /\ ReadyIsKept
    <2>1. ASSUME ProbesInv, Unpatched, mode = "resident",
                 pc[Lifespan] \in {"serving", "draining"},
                 NEW p \in Probes, stage[p] = "answered", ProcessReady(view[p])
          PROVE  Loaded
        <3>1. Steady
            BY <2>1 DEF Steady, AfterLabels
        <3> QED
            BY <2>1, <3>1 DEF ProbesInv, ViewSteady, ProcessReady, StateLoaded
    <2> QED
        BY <2>1 DEF ProbesInv, ReadyIsKept
<1> QED
    BY <1>1, ProbesInitInv, ProbesNextInv, PTL DEF ProbesSpec

-----------------------------------------------------------------------------
(* One generation at a time. What is still to be answered was the truth at  *)
(* a moment since the probe came in: while it is between its two reads, the *)
(* status it is going to read is the one shown at the last change, and      *)
(* LOADING, ERROR and NOT_LOADED are written only while nothing is loaded.  *)
SeenStatus(p, value) == \E s \in seen[p] : s.status = value

Honest(p) ==
    /\ stage[p] = "loaded" => Instant \in seen[p]
    /\ stage[p] = "status" => SeenStatus(p, status)
    /\ stage[p] \in {"snapshot", "answered"} => SeenStatus(p, view[p].status)

HonestInv == /\ SerialInv
             /\ LoadedOK
             /\ ProbeTypeOK
             /\ \A p \in Probes : Honest(p)

LEMMA StatusShows ==
    ASSUME LoadedOK, [Next]_vars, status' # status
    PROVE  ReportedStatus' = status'
<1>1. PICK t \in Actors : ServiceStep(t)
    BY DEF Next, Arrive, RequestStep, Collect, Analyze, Acquire, LoadFailed, ReadModel,
       ReadProcessor, GenerateReturns, GenerateRaises, Finish, Reply, SendPatch,
       LifespanStep, Startup, StartupDone, StartupFailed, Drained, Stopped, BeginShutdown,
       Terminated, vars, runtimeVars
<1>2. \/ EnsureMark(t) \/ EnsureRemark(t) \/ EnsureLoaded(t)
      \/ EnsureLoading(t) \/ EnsureFails(t) \/ UnloadMark(t)
    BY <1>1 DEF ServiceStep, ControllerStep, RuntimeStep, Ensure, EnsureWait, AfterMode,
       AfterFlag, ConfigureMode, ConfigureRest, UpdateEnter, UpdateReturn, runtimeVars
<1>3. CASE EnsureMark(t) \/ EnsureRemark(t) \/ EnsureLoaded(t)
    BY <1>3 DEF EnsureMark, EnsureRemark, EnsureLoaded, ReportedStatus
<1>4. CASE EnsureLoading(t) \/ EnsureFails(t) \/ UnloadMark(t)
    <2>1. ~Loaded /\ UNCHANGED <<model, processor>>
        BY <1>4 DEF EnsureLoading, EnsureFails, UnloadMark, LoadedOK, FoundEmpty, loaderVars
    <2> QED
        BY <2>1 DEF ReportedStatus, Loaded
<1> QED
    BY <1>2, <1>3, <1>4

LEMMA HonestInit == ProbesInit => HonestInv
<1> SUFFICES ASSUME ProbesInit PROVE HonestInv
    OBVIOUS
<1>1. \A p \in Probes : Honest(p)
    BY DEF ProbesInit, Honest
<1> QED
    BY <1>1, SerialInit, LoadedInit, ProbesInitInv DEF ProbesInit, ProbesInv, HonestInv

LEMMA HonestStep ==
    ASSUME HonestInv, ProbesNext, NEW p \in Probes
    PROVE  Honest(p)'
<1>1. /\ Honest(p) /\ stage \in [Probes -> Stages] /\ view \in [Probes -> View]
      /\ LoadedOK
    BY DEF HonestInv, ProbeTypeOK
<1>2. /\ seen[p] \subseteq seen'[p]
      /\ stage'[p] \in {"loaded", "status", "snapshot"} => Instant' \in seen'[p]
    BY DEF ProbesNext, Observe, Underway
<1>3. \A value : SeenStatus(p, value) => SeenStatus(p, value)'
    BY <1>2 DEF SeenStatus
<1>4. CASE ServerStep
    <2>1. stage' = stage /\ view' = view /\ [Next]_vars
        BY <1>4 DEF ServerStep
    <2>2. stage[p] = "status" => SeenStatus(p, status)'
        <3>1. CASE status' = status
            BY <1>1, <1>3, <3>1 DEF Honest, SeenStatus
        <3>2. CASE status' # status
            <4>1. Instant'.status = status'
                BY <1>1, <2>1, <3>2, StatusShows DEF Instant
            <4> QED
                BY <1>2, <2>1, <4>1 DEF SeenStatus
        <3> QED
            BY <3>1, <3>2
    <2>3. stage[p] \in {"snapshot", "answered"} => SeenStatus(p, view[p].status)'
        BY <1>1, <1>2, <2>1 DEF Honest, SeenStatus
    <2> QED
        BY <1>2, <2>1, <2>2, <2>3 DEF Honest
<1>5. CASE \E q \in Probes : ProbeStep(q) /\ UNCHANGED vars
    <2>1. PICK q \in Probes : ProbeStep(q) /\ UNCHANGED vars
        BY <1>5
    <2>2. status' = status /\ UNCHANGED <<model, processor, snapshot>>
        BY <2>1 DEF vars, loaderVars, runtimeVars, controllerVars
    <2>3. CASE q # p
        <3>1. stage'[p] = stage[p] /\ view'[p] = view[p]
            BY <1>1, <2>1, <2>3 DEF ProbeStep, ProbeArrives, ReadLoaded, ReadStatus,
               ReadSnapshot, Advance
        <3> QED
            BY <1>1, <1>2, <2>2, <3>1 DEF Honest, SeenStatus
    <2>4. CASE q = p /\ ProbeArrives(p)
        BY <1>1, <1>2, <2>4 DEF ProbeArrives, Advance, Honest
    <2>5. CASE q = p /\ ReadLoaded(p)
        <3>1. Instant \in seen'[p] /\ Instant.status = ReportedStatus
            BY <1>1, <1>2, <2>5 DEF ReadLoaded, Honest, Instant
        <3>2. CASE Loaded
            BY <1>1, <2>5, <3>1, <3>2 DEF ReadLoaded, Advance, Honest, SeenStatus,
               ReportedStatus, View
        <3>3. CASE ~Loaded
            BY <1>1, <2>2, <2>5, <3>1, <3>3 DEF ReadLoaded, Advance, Honest, SeenStatus,
               ReportedStatus
        <3> QED
            BY <3>2, <3>3
    <2>6. CASE q = p /\ ReadStatus(p)
        BY <1>1, <1>2, <2>6 DEF ReadStatus, Advance, Honest, SeenStatus, View
    <2>7. CASE q = p /\ ReadSnapshot(p)
        BY <1>1, <1>2, <2>7 DEF ReadSnapshot, Advance, Honest, SeenStatus, View
    <2> QED
        BY <2>1, <2>3, <2>4, <2>5, <2>6, <2>7 DEF ProbeStep
<1> QED
    BY <1>4, <1>5 DEF ProbesNext

LEMMA HonestNext ==
    MaxConcurrent = 1 /\ HonestInv /\ [ProbesNext]_<<vars, probeVars>> => HonestInv'
<1> SUFFICES ASSUME MaxConcurrent = 1, HonestInv, [ProbesNext]_<<vars, probeVars>>
             PROVE  HonestInv'
    OBVIOUS
<1>1. [Next]_vars
    BY ProbesStep
<1>2. SerialInv' /\ LoadedOK'
    BY <1>1, SerialNext, LoadedNext DEF HonestInv
<1>3. ProbeTypeOK'
    BY ProbesTypeStep DEF HonestInv, SerialInv
<1>4. ASSUME NEW p \in Probes PROVE Honest(p)'
    <2>1. CASE ProbesNext
        BY <2>1, HonestStep
    <2>2. CASE UNCHANGED <<vars, probeVars>>
        BY <2>2 DEF HonestInv, Honest, SeenStatus, Instant, ReportedStatus, Loaded, vars,
           probeVars, loaderVars, runtimeVars, controllerVars
    <2> QED
        BY <2>1, <2>2
<1> QED
    BY <1>2, <1>3, <1>4 DEF HonestInv

(* With one generation at a time, every status a probe answers was the      *)
(* status at some moment while it was underway, for any number of probes,   *)
(* requests, PATCH requests and failures (runtime.py 47-51).                *)
THEOREM ProbesAreHonest == ProbesSpec => []ProbeIsHonest
<1>1. CASE MaxConcurrent = 1
    <2>1. HonestInv => ProbeIsHonest
        BY DEF HonestInv, Honest, SeenStatus, ProbeIsHonest
    <2>2. HonestInv /\ [ProbesNext]_<<vars, probeVars>> => HonestInv'
        BY <1>1, HonestNext
    <2> QED
        BY <2>1, <2>2, HonestInit, PTL DEF ProbesSpec
<1>2. CASE MaxConcurrent # 1
    <2>1. ProbeIsHonest
        BY <1>2 DEF ProbeIsHonest
    <2> QED
        BY <2>1, PTL
<1> QED
    BY <1>1, <1>2

-----------------------------------------------------------------------------
(* The thread pool.                                                         *)

(* The pool delays steps of the service and adds none, so what holds of the *)
(* service holds on the pool.                                               *)
LEMMA PoolStepIsStep ==
    ASSUME [PoolNext]_<<vars, poolVars>>
    PROVE  [Next]_vars
BY DEF PoolNext, Pooled, GetsThread, VisitEnds, StatusCallArrives

LEMMA PoolServes == PoolSpec => Spec
<1>1. PoolInit => Init
    BY DEF PoolInit
<1>2. [PoolNext]_<<vars, poolVars>> => [Next]_vars
    BY PoolStepIsStep
<1> QED
    BY <1>1, <1>2, PTL DEF PoolSpec, Spec

(* Only update() itself leads into the controller's with block.             *)
LEMMA UpdateIsEntered ==
    ASSUME IInv, [Next]_vars, NEW p \in Patches,
           pc'[p] \in UpdateHolding, pc[p] \notin UpdateHolding
    PROVE  pc[p] = "update"
<1> USE RoleDistinct DEF Goto, UpdateHolding
<1>1. pc \in [Actors -> ServerLabels]
    BY DEF IInv, ServiceTypeOK
<1>2. ASSUME NEW t \in Actors, ServiceStep(t)
      PROVE  pc[p] = "update"
    <2>1. p = t /\ pc[t] \in EnsureLabels \union AfterLabels \union UpdateLabels
        <3>1. PICK l \in EnsureLabels \union AfterLabels \union UpdateLabels :
              /\ pc' = [pc EXCEPT ![t] = l]
              /\ \/ pc[t] \in EnsureLabels /\ l \in EnsureLabels
                 \/ pc[t] \in AfterLabels /\ l \in AfterLabels
                 \/ pc[t] \in UpdateLabels /\ l \in UpdateLabels
            BY <1>2, ServiceMoves DEF ServiceStep, IInv
        <3> QED
            BY <1>1, <3>1
    <2>2. pc[p] \in UpdateLabels \union {"idle"}
        BY DEF IInv, RolesOK
    <2>3. pc[p] \in {"update", "patched"}
        BY <2>1, <2>2 DEF UpdateLabels, EnsureLabels, AfterLabels
    <2>4. pc[p] # "patched"
        BY <1>2, <2>1 DEF ServiceStep, ControllerStep, RuntimeStep, LoaderStep, Load, LoadLock,
           BindModel, BuildFails, BindProcessor, UnbindModel, UnbindProcessor, ReleaseTensors,
           Ensure, EnsureMark, EnsureWait, EnsureRemark, EnsureLoading, EnsureLoaded,
           EnsureFails, AfterMode, AfterFlag, UnloadMark, ConfigureMode, ConfigureRest,
           UpdateEnter, UpdateReturn
    <2> QED
        BY <2>3, <2>4
<1>3. ASSUME NEW r \in Reqs, Arrive(r) \/ RequestStep(r) \/ Collect(r)
      PROVE  FALSE
    BY <1>1, <1>3 DEF Arrive, RequestStep, Collect, Analyze, Acquire, LoadFailed, ReadModel,
       ReadProcessor, GenerateReturns, GenerateRaises, Finish, Reply
<1>4. ASSUME NEW q \in Patches, SendPatch(q)
      PROVE  FALSE
    BY <1>1, <1>4 DEF SendPatch
<1>5. CASE LifespanStep \/ BeginShutdown \/ Terminated \/ UNCHANGED vars
    BY <1>1, <1>5 DEF LifespanStep, Startup, StartupDone, StartupFailed, Drained, Stopped,
       BeginShutdown, Serving, Terminated, vars
<1> QED
    BY <1>2, <1>3, <1>4, <1>5 DEF Next

\* The labels at which a client has visits of its own to make.
VisitLabels == {"analyze", "done", "update", "patched"}

(* Only there a client has visits ahead of it, and the owner of the         *)
(* controller's lock keeps the thread on which it entered update().         *)
PoolInv == /\ ahead \in [PoolClients -> Nat]
           /\ \A t \in Reqs \union Patches : ahead[t] > 0 => pc[t] \in VisitLabels
           /\ updateLock # None => updateLock \in workers

LEMMA PoolStarts == PoolInit => PoolInv
BY DEF PoolInit, PoolInv, Init, ControllerStart, PoolClients

(* A step of the service: whoever moved has the visits of the place it came *)
(* to, and whoever entered the with block did so on a thread.               *)
LEMMA PooledKeepsInv ==
    ASSUME IInv, PoolInv, Pooled(Next)
    PROVE  PoolInv'
<1>1. IInv' /\ [Next]_vars
    BY NextInv DEF Pooled
<1> DEFINE moved == {t \in Reqs \union Patches : pc'[t] # pc[t]}
<1>2. /\ \A t \in moved : ahead[t] = 0 /\ (InPool(t) => t \in workers)
      /\ ahead' = [t \in PoolClients |-> IF t \in moved THEN Owed(t)' ELSE ahead[t]]
      /\ workers' = workers \ {t \in moved : pc'[t] \notin UpdateHolding}
    BY DEF Pooled
<1>3. \A t \in Reqs \union Patches : Owed(t)' \in Nat /\ (Owed(t)' > 0 => pc'[t] \in VisitLabels)
    BY DEF Owed, VisitLabels, ParseDependencies, AfterParse, PatchDependencies
<1>4. ahead' \in [PoolClients -> Nat]
    BY <1>2, <1>3 DEF PoolInv
<1>5. ASSUME NEW t \in Reqs \union Patches, ahead'[t] > 0
      PROVE  pc'[t] \in VisitLabels
    BY <1>2, <1>3, <1>5 DEF PoolInv, PoolClients
<1>6. ASSUME updateLock' # None PROVE updateLock' \in workers'
    <2>0. PICK p : p = updateLock'
        OBVIOUS
    <2>1. p \in Actors /\ pc'[p] \in UpdateHolding
        BY <1>1, <1>6, <2>0 DEF IInv, ServiceTypeOK, ControllerTypeOK, LocksOK, UpdateMutex
    <2>2. p \in Patches
        BY <1>1, <2>1, RoleDistinct DEF IInv, RolesOK, RequestLabels, LifespanLabels,
           EnsureLabels, AfterLabels, UpdateHolding
    <2>3. p \in workers
        <3>1. CASE pc[p] \in UpdateHolding
            <4>1. updateLock = p /\ p # None
                BY <2>1, <3>1, LoaderAssumption DEF IInv, LocksOK, UpdateMutex
            <4> QED
                BY <4>1 DEF PoolInv
        <3>2. CASE pc[p] \notin UpdateHolding
            <4>1. pc[p] = "update"
                BY <1>1, <2>1, <2>2, <3>2, UpdateIsEntered
            <4>2. p \notin StatusCalls
                BY <2>1, PoolAssumption
            <4>3. InPool(p) /\ pc'[p] # pc[p]
                BY <2>1, <3>2, <4>1, <4>2 DEF InPool, Blocking
            <4> QED
                BY <1>2, <2>2, <4>3
        <3> QED
            BY <3>1, <3>2
    <2> QED
        BY <1>2, <2>0, <2>1, <2>3
<1> QED
    BY <1>4, <1>5, <1>6 DEF PoolInv

(* A step of the pool: a thread that is given back is not the owner's, who  *)
(* has no visit ahead.                                                      *)
LEMMA VisitKeepsInv ==
    ASSUME IInv, PoolInv, NEW t \in PoolClients,
           \/ GetsThread(t)
           \/ VisitEnds(t)
           \/ t \in StatusCalls /\ StatusCallArrives(t)
    PROVE  PoolInv'
<1>1. UNCHANGED <<pc, updateLock>>
    BY DEF GetsThread, VisitEnds, StatusCallArrives, vars, controllerVars
<1>2. /\ ahead' \in [PoolClients -> Nat]
      /\ \A u \in Reqs \union Patches : ahead'[u] > 0 => ahead[u] > 0
    <2>1. CASE GetsThread(t)
        BY <2>1 DEF GetsThread, PoolInv
    <2>2. CASE VisitEnds(t)
        BY <2>2 DEF VisitEnds, PoolInv, PoolClients
    <2>3. CASE t \in StatusCalls /\ StatusCallArrives(t)
        <3>1. PICK visits \in {HealthVisits, StatusVisits} : ahead' = [ahead EXCEPT ![t] = visits]
            BY <2>3 DEF StatusCallArrives
        <3>2. t \notin Reqs \union Patches
            BY <2>3, PoolAssumption, RoleDistinct
        <3> QED
            BY <3>1, <3>2 DEF PoolInv, PoolClients, HealthVisits, StatusVisits
    <2> QED
        BY <2>1, <2>2, <2>3
<1>3. ASSUME updateLock # None PROVE updateLock \in workers'
    <2>1. updateLock \in Patches /\ pc[updateLock] \in UpdateHolding
        BY <1>3, RoleDistinct DEF IInv, ServiceTypeOK, ControllerTypeOK, LocksOK,
           UpdateMutex, RolesOK, RequestLabels, LifespanLabels, EnsureLabels, AfterLabels,
           UpdateHolding
    <2>2. ~(ahead[updateLock] > 0)
        BY <2>1 DEF PoolInv, VisitLabels, UpdateHolding
    <2> QED
        BY <1>3, <2>2 DEF PoolInv, GetsThread, VisitEnds, StatusCallArrives
<1> QED
    BY <1>1, <1>2, <1>3 DEF PoolInv

LEMMA PoolNextInv ==
    IInv /\ PoolInv /\ [PoolNext]_<<vars, poolVars>> => PoolInv'
<1> SUFFICES ASSUME IInv, PoolInv, [PoolNext]_<<vars, poolVars>> PROVE PoolInv'
    OBVIOUS
<1>1. CASE UNCHANGED <<vars, poolVars>>
    BY <1>1 DEF PoolInv, vars, poolVars, controllerVars
<1> QED
    BY <1>1, PooledKeepsInv, VisitKeepsInv DEF PoolNext, PoolClients

(* Who owns which lock, and what it may be waiting for.                     *)
LEMMA OwnersAhead ==
    ASSUME IInv, PoolInv
    PROVE  /\ loaderLock # None => /\ loaderLock \in Actors
                                   /\ Awaited(loaderLock) = None
           /\ loadLock # None => /\ loadLock \in Actors
                                 /\ Awaited(loadLock) \in {None, loaderLock}
           /\ updateLock # None => /\ updateLock \in Actors
                                   /\ Awaited(updateLock) \in {None, loadLock}
           /\ \A t \in {loaderLock, loadLock} \ {None} :
                 t \in PoolClients /\ InPool(t) => t = updateLock
<1> USE DEF LoaderHolding, LoadHolding, UpdateHolding
<1>1. /\ loaderLock # None => loaderLock \in Actors /\ pc[loaderLock] \in LoaderHolding
      /\ loadLock # None => loadLock \in Actors /\ pc[loadLock] \in LoadHolding
      /\ updateLock # None => updateLock \in Actors /\ pc[updateLock] \in UpdateHolding
    BY DEF IInv, ServiceTypeOK, ControllerTypeOK, RuntimeTypeOK, LoaderTypeOK, LocksOK,
       LoaderMutex, LoadMutex, UpdateMutex
<1>2. ASSUME NEW t \in {loaderLock, loadLock} \ {None}, t \in PoolClients, InPool(t)
      PROVE  t = updateLock
    <2>1. t \in Actors /\ pc[t] \in LoaderHolding \union LoadHolding
        BY <1>1, <1>2
    <2>2. t \notin StatusCalls /\ t \in Reqs \union Patches
        BY <1>2, <2>1, PoolAssumption DEF PoolClients
    <2>3. ~(ahead[t] > 0)
        BY <2>1, <2>2 DEF PoolInv, VisitLabels
    <2>4. pc[t] \in UpdateHolding
        BY <1>2, <2>1, <2>3 DEF InPool, Blocking
    <2> QED
        BY <2>1, <2>4 DEF IInv, LocksOK, UpdateMutex
<1> QED
    BY <1>1, <1>2 DEF Awaited

(* Whatever lock is taken, its owner has the thread it needs, and the queue *)
(* before it ends at an owner that waits for no lock: for any size of the   *)
(* pool and any number of requests and PATCH requests the threads that wait *)
(* never wait for each other (routes/status.py 68-77, runtime_mode.py       *)
(* 41-61, runtime.py 76-108, gemma4_loader.py 39-55).                       *)
THEOREM OwnersNeverStick == PoolSpec => []OwnersGoOn
<1>1. ASSUME IInv, PoolInv PROVE OwnersGoOn
    <2> SUFFICES ASSUME NEW t \in {updateLock, loadLock, loaderLock} \ {None}
                 PROVE  /\ t \in PoolClients /\ InPool(t) => t \in workers
                        /\ Awaited(InFrontOf(InFrontOf(t))) = None
        BY DEF OwnersGoOn
    <2>1. t \in PoolClients /\ InPool(t) => t \in workers
        BY <1>1, OwnersAhead DEF PoolInv
    <2>2. Awaited(InFrontOf(InFrontOf(t))) = None
        BY <1>1, OwnersAhead DEF InFrontOf
    <2> QED
        BY <2>1, <2>2
<1> QED
    BY <1>1, PoolStarts, PoolNextInv, PoolServes, Invariance, PTL DEF PoolSpec
=============================================================================
