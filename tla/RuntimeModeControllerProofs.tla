--------------------- MODULE RuntimeModeControllerProofs ---------------------
(***************************************************************************)
(* The loader, the runtime and the mode controller for any number of       *)
(* threads that call them in any order, any environment, any PATCH bodies  *)
(* and any combination of faults: types, locks, what the references are    *)
(* bound to, the status and the configuration.                             *)
(*                                                                         *)
(* The lemmas about one statement (ControllerStep) do not say who calls:   *)
(* L and E stand for the labels and the exceptions of the callers, so      *)
(* ParseServerProofs uses them for the service.                            *)
(***************************************************************************)
EXTENDS RuntimeModeController, TLAPS

USE LoaderAssumption, ControllerAssumption

(* A value resolved from an optional field and a default has their type.   *)
LEMMA OrElseType ==
    ASSUME NEW S, NEW option \in Optional(S), NEW default \in S
    PROVE  OrElse(option, default) \in S
<1>1. CASE option = {}
    BY <1>1 DEF OrElse
<1>2. CASE option # {}
    <2>1. PICK v \in S : option = {v}
        BY <1>2 DEF Optional
    <2>2. (CHOOSE w \in option : TRUE) = v
        BY <2>1
    <2> QED
        BY <1>2, <2>2 DEF OrElse
<1> QED
    BY <1>1, <1>2

(* Every environment resolves to a configuration of the runtime.           *)
LEMMA SettingsType ==
    ASSUME NEW env \in Environments
    PROVE  Settings(env) \in Config
<1> DEFINE vlm_mode == OrElse(env.vlm_mode, "resident")
<1>1. env \in Environment
    OBVIOUS
<1>2. vlm_mode \in Modes
    BY <1>1, OrElseType DEF Environment, Modes
<1>3. OrElse(env.model_load_on_startup, vlm_mode = "resident") \in BOOLEAN
    BY <1>1, OrElseType DEF Environment
<1>4. OrElse(env.unload_after_request, FALSE) \in BOOLEAN
    BY <1>1, OrElseType DEF Environment
<1> QED
    BY <1>2, <1>3, <1>4 DEF Settings, Config

(* Every PATCH body turns the snapshot into a configuration.               *)
LEMMA UpdatedType ==
    ASSUME NEW body \in PatchBodies, snapshot \in Config
    PROVE  Updated(body) \in Config
<1> DEFINE m == NormalizeHotAlias(body.mode)
<1>1. body \in PatchBody
    OBVIOUS
<1>2. m \in Modes
    BY <1>1 DEF PatchBody, Modes, NormalizeHotAlias
<1>3. OrElse(body.load_on_startup, m = "resident") \in BOOLEAN
    BY <1>1, OrElseType DEF PatchBody
<1>4. OrElse(body.unload_after_request, snapshot.unload_after_request) \in BOOLEAN
    BY <1>1, OrElseType DEF PatchBody, Config
<1> QED
    BY <1>2, <1>3, <1>4 DEF Updated, Config

-----------------------------------------------------------------------------
(* Type correctness: everything the statements of the loader, the runtime   *)
(* and the controller touch.                                                *)
Typed(L, E) == /\ ControllerTypeOK
               /\ pc \in [Actors -> L]
               /\ exc \in [Actors -> E]

LEMMA LoaderStepType ==
    ASSUME NEW L, ControllerLabels \subseteq L, NEW E, Exceptions \subseteq E, Typed(L, E),
           NEW t \in Actors, LoaderStep(t),
           UNCHANGED <<runtimeVars, controllerVars>>
    PROVE  Typed(L, E)'
<1> USE DEF Typed, ControllerTypeOK, RuntimeTypeOK, LoaderTypeOK, Goto,
            loaderVars, runtimeVars, flagVars, controllerVars,
            ControllerLabels, RuntimeLabels, LoaderLabels
<1>1. CASE Load(t)
    BY <1>1 DEF Load
<1>2. CASE LoadLock(t)
    BY <1>2 DEF LoadLock
<1>3. CASE BindModel(t)
    BY <1>3 DEF BindModel
<1>4. CASE BuildFails(t)
    BY <1>4 DEF BuildFails, Exceptions
<1>5. CASE BindProcessor(t)
    BY <1>5 DEF BindProcessor
<1>6. CASE UnbindModel(t)
    BY <1>6 DEF UnbindModel
<1>7. CASE UnbindProcessor(t)
    BY <1>7 DEF UnbindProcessor
<1>8. CASE ReleaseTensors(t)
    BY <1>8 DEF ReleaseTensors
<1> QED
    BY <1>1, <1>2, <1>3, <1>4, <1>5, <1>6, <1>7, <1>8 DEF LoaderStep

LEMMA ControllerStepType ==
    ASSUME NEW L, ControllerLabels \subseteq L, NEW E, Exceptions \subseteq E, Typed(L, E),
           NEW t \in Actors, ControllerStep(t)
    PROVE  Typed(L, E)'
<1> USE DEF Typed, ControllerTypeOK, RuntimeTypeOK, LoaderTypeOK, Goto,
            loaderVars, runtimeVars, flagVars, controllerVars,
            ControllerLabels, RuntimeLabels, LoaderLabels
<1>1. CASE RuntimeStep(t) /\ UNCHANGED controllerVars
    <2>1. CASE LoaderStep(t) /\ UNCHANGED runtimeVars
        BY <1>1, <2>1, LoaderStepType
    <2>2. CASE Ensure(t)
        BY <1>1, <2>2 DEF Ensure
    <2>3. CASE EnsureMark(t)
        BY <1>1, <2>3 DEF EnsureMark, Statuses
    <2>4. CASE EnsureWait(t)
        BY <1>1, <2>4 DEF EnsureWait
    <2>5. CASE EnsureRemark(t)
        BY <1>1, <2>5 DEF EnsureRemark, Statuses
    <2>6. CASE EnsureLoading(t)
        BY <1>1, <2>6 DEF EnsureLoading, Statuses
    <2>7. CASE EnsureLoaded(t)
        BY <1>1, <2>7 DEF EnsureLoaded, Statuses
    <2>8. CASE EnsureFails(t)
        BY <1>1, <2>8 DEF EnsureFails, Statuses
    <2>9. CASE AfterMode(t)
        BY <1>1, <2>9 DEF AfterMode
    <2>10. CASE AfterFlag(t)
        BY <1>1, <2>10 DEF AfterFlag
    <2>11. CASE UnloadMark(t)
        BY <1>1, <2>11 DEF UnloadMark, Statuses
    <2>12. CASE ConfigureMode(t)
        BY <1>1, <2>12 DEF ConfigureMode, Config
    <2>13. CASE ConfigureRest(t)
        BY <1>1, <2>13 DEF ConfigureRest, Config
    <2> QED
        BY <1>1, <2>1, <2>2, <2>3, <2>4, <2>5, <2>6, <2>7, <2>8, <2>9, <2>10,
           <2>11, <2>12, <2>13 DEF RuntimeStep
<1>2. CASE UpdateEnter(t)
    <2>1. snapshot' \in Config
        BY <1>2, UpdatedType DEF UpdateEnter
    <2> QED
        BY <1>2, <2>1 DEF UpdateEnter
<1>3. CASE UpdateReturn(t)
    BY <1>3 DEF UpdateReturn
<1> QED
    BY <1>1, <1>2, <1>3 DEF ControllerStep

-----------------------------------------------------------------------------
(* Which statements follow which: the runtime's statements form three        *)
(* families that no call leaves, ensure_loaded, after_request with unload,  *)
(* and update with configure.                                               *)
EnsureLabels == {"ensure", "ensure_mark", "ensure_wait", "ensure_remark",
                 "ensure_loading", "load", "load_lock", "build", "bind_processor",
                 "load_returned", "load_raised", "ensure_ok", "ensure_raise"}
AfterLabels  == {"after", "after_flag", "after_ok", "unload", "unbind_processor",
                 "release_tensors", "unload_returned", "unload_raised", "unloaded"}
UpdateLabels == {"update", "configure", "configure_rest", "configured", "patched"}

(* A statement moves its own actor only, inside one family.  *)
LEMMA ServiceMoves ==
    ASSUME NEW t \in Actors, ControllerStep(t)
    PROVE  \E l \in EnsureLabels \union AfterLabels \union UpdateLabels :
              /\ pc' = [pc EXCEPT ![t] = l]
              /\ \/ pc[t] \in EnsureLabels /\ l \in EnsureLabels
                 \/ pc[t] \in AfterLabels /\ l \in AfterLabels
                 \/ pc[t] \in UpdateLabels /\ l \in UpdateLabels
<1> USE DEF Goto, EnsureLabels, AfterLabels, UpdateLabels
<1>1. CASE LoaderStep(t)
    BY <1>1 DEF LoaderStep, Load, LoadLock, BindModel, BuildFails, BindProcessor,
                UnbindModel, UnbindProcessor, ReleaseTensors
<1>2. CASE Ensure(t) \/ EnsureMark(t) \/ EnsureWait(t) \/ EnsureRemark(t)
              \/ EnsureLoading(t) \/ EnsureLoaded(t) \/ EnsureFails(t)
    BY <1>2 DEF Ensure, EnsureMark, EnsureWait, EnsureRemark, EnsureLoading,
                EnsureLoaded, EnsureFails
<1>3. CASE AfterMode(t) \/ AfterFlag(t) \/ UnloadMark(t)
    BY <1>3 DEF AfterMode, AfterFlag, UnloadMark
<1>4. CASE ConfigureMode(t) \/ ConfigureRest(t) \/ UpdateEnter(t) \/ UpdateReturn(t)
    BY <1>4 DEF ConfigureMode, ConfigureRest, UpdateEnter, UpdateReturn
<1> QED
    BY <1>1, <1>2, <1>3, <1>4 DEF ControllerStep, RuntimeStep

-----------------------------------------------------------------------------
(* Locks: the owner of each of the three locks is the one actor inside its  *)
(* with block.                                                              *)

UpdateMutex == \A t \in Actors : updateLock = t <=> pc[t] \in UpdateHolding

LocksOK == LoaderMutex /\ LoadMutex /\ UpdateMutex

(* What the references are bound to while the loader's lock is held and     *)
(* while it is free.                                                        *)
BindingOK == /\ BindingWhole
             /\ BuildsOnEmpty
             /\ \A t \in Actors : pc[t] = "bind_processor" => model = t
             /\ \A t \in Actors : pc[t] = "unbind_processor" => model = None

(* Alone, the loader needs no other lock than its own.                      *)
LEMMA LoaderStepMutex ==
    ASSUME NEW L, LoaderLabels \subseteq L, pc \in [Actors -> L], LoaderMutex,
           NEW t \in Actors, LoaderStep(t)
    PROVE  LoaderMutex' /\ pc' \in [Actors -> L]
<1> USE DEF Goto, LoaderMutex, loaderVars, LoaderHolding, LoaderLabels
<1>1. CASE Load(t)
    BY <1>1 DEF Load
<1>2. CASE LoadLock(t)
    BY <1>2 DEF LoadLock
<1>3. CASE BindModel(t)
    BY <1>3 DEF BindModel
<1>4. CASE BuildFails(t)
    BY <1>4 DEF BuildFails
<1>5. CASE BindProcessor(t)
    BY <1>5 DEF BindProcessor
<1>6. CASE UnbindModel(t)
    BY <1>6 DEF UnbindModel
<1>7. CASE UnbindProcessor(t)
    BY <1>7 DEF UnbindProcessor
<1>8. CASE ReleaseTensors(t)
    BY <1>8 DEF ReleaseTensors
<1> QED
    BY <1>1, <1>2, <1>3, <1>4, <1>5, <1>6, <1>7, <1>8 DEF LoaderStep

(* ... and its statements take and drop neither of the other two.           *)
LEMMA LoaderStepLocks ==
    ASSUME NEW L, pc \in [Actors -> L], LocksOK, NEW t \in Actors, LoaderStep(t),
           UNCHANGED <<runtimeVars, controllerVars>>
    PROVE  LocksOK'
<1> USE DEF Goto, LocksOK, LoaderMutex, LoadMutex, UpdateMutex,
            loaderVars, runtimeVars, flagVars, controllerVars,
            LoaderHolding, LoadHolding, UpdateHolding
<1>1. CASE Load(t)
    BY <1>1 DEF Load
<1>2. CASE LoadLock(t)
    BY <1>2 DEF LoadLock
<1>3. CASE BindModel(t)
    BY <1>3 DEF BindModel
<1>4. CASE BuildFails(t)
    BY <1>4 DEF BuildFails
<1>5. CASE BindProcessor(t)
    BY <1>5 DEF BindProcessor
<1>6. CASE UnbindModel(t)
    BY <1>6 DEF UnbindModel
<1>7. CASE UnbindProcessor(t)
    BY <1>7 DEF UnbindProcessor
<1>8. CASE ReleaseTensors(t)
    BY <1>8 DEF ReleaseTensors
<1> QED
    BY <1>1, <1>2, <1>3, <1>4, <1>5, <1>6, <1>7, <1>8 DEF LoaderStep

LEMMA LoaderStepBinding ==
    ASSUME NEW L, pc \in [Actors -> L], LoaderMutex, BindingOK, NEW t \in Actors, LoaderStep(t)
    PROVE  BindingOK'
<1> USE DEF Goto, LoaderMutex, LoaderHolding, loaderVars,
            BindingOK, BindingWhole, BuildsOnEmpty, Loaded
<1>1. CASE Load(t)
    BY <1>1 DEF Load
<1>2. CASE LoadLock(t)
    BY <1>2 DEF LoadLock
<1>3. CASE BindModel(t)
    BY <1>3 DEF BindModel
<1>4. CASE BuildFails(t)
    BY <1>4 DEF BuildFails
<1>5. CASE BindProcessor(t)
    BY <1>5 DEF BindProcessor
<1>6. CASE UnbindModel(t)
    BY <1>6 DEF UnbindModel
<1>7. CASE UnbindProcessor(t)
    BY <1>7 DEF UnbindProcessor
<1>8. CASE ReleaseTensors(t)
    BY <1>8 DEF ReleaseTensors
<1> QED
    BY <1>1, <1>2, <1>3, <1>4, <1>5, <1>6, <1>7, <1>8 DEF LoaderStep

(* The steps of the loader on the abstract holder. Where the code takes     *)
(* several statements, one of them is the step the holder takes and the     *)
(* others are not seen.                                                     *)
LEMMA LoaderStepHolder ==
    ASSUME NEW L, pc \in [Actors -> L], LoaderMutex, BindingOK, NEW t \in Actors, LoaderStep(t)
    PROVE  Holder!Next \/ UNCHANGED <<Bound, Builder>>
<1> USE LoaderAssumption DEF Goto, LoaderMutex, LoaderHolding, loaderVars, BindingOK,
        BuildsOnEmpty, Loaded, Bound, Builder
<1>1. CASE Load(t)
    BY <1>1 DEF Load
<1>2. CASE LoadLock(t)
    <2>1. CASE Loaded
        BY <1>2, <2>1 DEF LoadLock
    <2>2. CASE ~Loaded
        <3>1. Holder!Start(t)
            BY <1>2, <2>2 DEF LoadLock, Holder!Start
        <3> QED
            BY <3>1 DEF Holder!Next
    <2> QED
        BY <2>1, <2>2
<1>3. CASE BindModel(t)
    BY <1>3 DEF BindModel
<1>4. CASE BuildFails(t)
    BY <1>4 DEF BuildFails, Holder!Next, Holder!Fail
<1>5. CASE BindProcessor(t)
    BY <1>5 DEF BindProcessor, Holder!Next, Holder!Finish
<1>6. CASE UnbindModel(t)
    BY <1>6 DEF UnbindModel, Holder!Next, Holder!Drop
<1>7. CASE UnbindProcessor(t)
    BY <1>7 DEF UnbindProcessor
<1>8. CASE ReleaseTensors(t)
    BY <1>8 DEF ReleaseTensors
<1> QED
    BY <1>1, <1>2, <1>3, <1>4, <1>5, <1>6, <1>7, <1>8 DEF LoaderStep

(* An actor outside the loader's with blocks does not disturb who builds.   *)
LEMMA HolderKept ==
    ASSUME NEW L, pc \in [Actors -> L], LoaderMutex, NEW t \in Actors, NEW l,
           pc[t] \notin LoaderHolding, pc' = [pc EXCEPT ![t] = l], UNCHANGED loaderVars
    PROVE  UNCHANGED <<Bound, Builder>>
BY LoaderAssumption DEF LoaderMutex, Bound, Builder, Loaded, loaderVars

LEMMA ControllerStepHolder ==
    ASSUME NEW L, pc \in [Actors -> L], LoaderMutex, BindingOK, NEW t \in Actors, ControllerStep(t)
    PROVE  Holder!Next \/ UNCHANGED <<Bound, Builder>>
<1>1. CASE LoaderStep(t)
    BY <1>1, LoaderStepHolder
<1>2. CASE ~LoaderStep(t)
    <2>1. PICK l : pc' = [pc EXCEPT ![t] = l] /\ pc[t] \notin LoaderHolding
                   /\ UNCHANGED loaderVars
        BY <1>2 DEF ControllerStep, RuntimeStep, Ensure, EnsureMark, EnsureWait, EnsureRemark,
           EnsureLoading, EnsureLoaded, EnsureFails, AfterMode, AfterFlag, UnloadMark,
           ConfigureMode, ConfigureRest, UpdateEnter, UpdateReturn, Goto, LoaderHolding
    <2> QED
        BY <2>1, HolderKept
<1> QED
    BY <1>1, <1>2

(* A statement that takes and drops no lock, moving between statements      *)
(* outside every with block, keeps all of this.                             *)
LEMMA OutsideLocks ==
    ASSUME NEW L, pc \in [Actors -> L], LocksOK, BindingOK, NEW t \in Actors, NEW l,
           l \notin LoaderHolding \union LoadHolding \union UpdateHolding,
           pc[t] \notin LoaderHolding \union LoadHolding \union UpdateHolding,
           pc' = [pc EXCEPT ![t] = l],
           UNCHANGED <<loaderVars, loadLock, updateLock>>
    PROVE  LocksOK' /\ BindingOK'
BY DEF LocksOK, LoaderMutex, LoadMutex, UpdateMutex, BindingOK,
       BindingWhole, BuildsOnEmpty, loaderVars, LoaderHolding

LEMMA ControllerStepLocks ==
    ASSUME NEW L, pc \in [Actors -> L], LocksOK, BindingOK, NEW t \in Actors, ControllerStep(t)
    PROVE  LocksOK' /\ BindingOK'
<1> USE DEF Goto, LoaderHolding, LoadHolding, UpdateHolding,
            loaderVars, runtimeVars, flagVars, controllerVars
<1>1. CASE LoaderStep(t) /\ UNCHANGED runtimeVars /\ UNCHANGED controllerVars
    BY <1>1, LoaderStepLocks, LoaderStepBinding DEF LocksOK
<1>2. CASE \/ Ensure(t) /\ UNCHANGED controllerVars
           \/ EnsureMark(t) /\ UNCHANGED controllerVars
           \/ AfterMode(t) /\ UNCHANGED controllerVars
           \/ AfterFlag(t) /\ UNCHANGED controllerVars
           \/ UnloadMark(t) /\ UNCHANGED controllerVars
    BY <1>2, OutsideLocks DEF Ensure, EnsureMark, AfterMode, AfterFlag, UnloadMark
<1>3. CASE \/ EnsureWait(t) /\ UNCHANGED controllerVars
           \/ EnsureRemark(t) /\ UNCHANGED controllerVars
           \/ EnsureLoading(t) /\ UNCHANGED controllerVars
           \/ EnsureLoaded(t) /\ UNCHANGED controllerVars
           \/ EnsureFails(t) /\ UNCHANGED controllerVars
           \/ ConfigureMode(t) /\ UNCHANGED controllerVars
           \/ ConfigureRest(t) /\ UNCHANGED controllerVars
           \/ UpdateEnter(t)
           \/ UpdateReturn(t)
    <2>1. LocksOK'
        BY <1>3 DEF LocksOK, LoaderMutex, LoadMutex, UpdateMutex,
            EnsureWait, EnsureRemark, EnsureLoading, EnsureLoaded, EnsureFails,
            ConfigureMode, ConfigureRest, UpdateEnter, UpdateReturn
    <2>2. BindingOK'
        BY <1>3 DEF BindingOK, BindingWhole, BuildsOnEmpty,
            EnsureWait, EnsureRemark, EnsureLoading, EnsureLoaded, EnsureFails,
            ConfigureMode, ConfigureRest, UpdateEnter, UpdateReturn
    <2> QED
        BY <2>1, <2>2
<1> QED
    BY <1>1, <1>2, <1>3 DEF ControllerStep, RuntimeStep

-----------------------------------------------------------------------------
(* The configuration. Between UpdateEnter and UpdateReturn the snapshot is  *)
(* ahead of the runtime; what the owner of the controller's lock has done   *)
(* so far says by how much.                                                 *)
ConfigOK ==
    /\ SnapshotAgrees
    /\ \A t \in Actors : pc[t] = "configure" => arg[t] = snapshot
    /\ \A t \in Actors : pc[t] = "configure_rest" =>
                            arg[t] = snapshot /\ mode = snapshot.mode
    /\ \A t \in Actors : pc[t] = "configured" => arg[t] = snapshot /\ snapshot = RuntimeConfig
    /\ ReplyIsOwn

(* A statement that leaves the flags and the controller alone.              *)
LEMMA ConfigKept ==
    ASSUME ConfigOK,
           UNCHANGED <<flagVars, arg, controllerVars>>,
           \A u \in Actors :
              pc'[u] = pc[u]
              \/ pc'[u] \notin {"configure", "configure_rest", "configured", "patched"}
    PROVE  ConfigOK'
BY DEF ConfigOK, SnapshotAgrees, ReplyIsOwn, RuntimeConfig, flagVars, controllerVars

LEMMA ConfigService ==
    ASSUME NEW L, NEW E, Typed(L, E), UpdateMutex, ConfigOK, NEW t \in Actors, ControllerStep(t)
    PROVE  ConfigOK'
<1> USE DEF Goto
<1>1. /\ pc \in [Actors -> L]
      /\ arg \in [Actors -> Config] /\ reply \in [Actors -> Config] /\ snapshot \in Config
      /\ \A u \in Actors : updateLock = u <=> pc[u] \in UpdateHolding
  BY DEF Typed, ControllerTypeOK, UpdateMutex
<1>2. CASE LoaderStep(t) /\ UNCHANGED runtimeVars /\ UNCHANGED controllerVars
  <2>1. pc'[t] \notin {"configure", "configure_rest", "configured", "patched"}
        /\ \A u \in Actors \ {t} : pc'[u] = pc[u]
    BY <1>1, <1>2 DEF LoaderStep, Load, LoadLock, BindModel, BuildFails, BindProcessor,
       UnbindModel, UnbindProcessor, ReleaseTensors
  <2>2. QED
    BY <1>2, <2>1, ConfigKept DEF runtimeVars
<1>3. CASE /\ \/ Ensure(t) \/ EnsureMark(t) \/ EnsureWait(t) \/ EnsureRemark(t)
              \/ EnsureLoading(t) \/ EnsureLoaded(t) \/ EnsureFails(t)
              \/ AfterMode(t) \/ AfterFlag(t) \/ UnloadMark(t)
           /\ UNCHANGED controllerVars
  <2>1. pc'[t] \notin {"configure", "configure_rest", "configured", "patched"}
        /\ \A u \in Actors \ {t} : pc'[u] = pc[u]
    BY <1>1, <1>3 DEF Ensure, EnsureMark, EnsureWait, EnsureRemark, EnsureLoading,
       EnsureLoaded, EnsureFails, AfterMode, AfterFlag, UnloadMark
  <2>2. UNCHANGED <<flagVars, arg>>
    BY <1>3 DEF Ensure, EnsureMark, EnsureWait, EnsureRemark, EnsureLoading,
       EnsureLoaded, EnsureFails, AfterMode, AfterFlag, UnloadMark, runtimeVars, flagVars
  <2>3. QED
    BY <1>3, <2>1, <2>2, ConfigKept
<1>4. CASE ConfigureMode(t) /\ UNCHANGED controllerVars
  <2>1. updateLock = t /\ t # None /\ \A u \in Actors \ {t} : pc[u] \notin UpdateHolding
    BY <1>1, <1>4, LoaderAssumption DEF ConfigureMode, UpdateHolding
  <2>2. QED
    BY <1>1, <1>4, <2>1 DEF ConfigureMode, ConfigOK, SnapshotAgrees, ReplyIsOwn,
       controllerVars, UpdateHolding
<1>5. CASE ConfigureRest(t) /\ UNCHANGED controllerVars
  <2>1. updateLock = t /\ t # None /\ \A u \in Actors \ {t} : pc[u] \notin UpdateHolding
    BY <1>1, <1>5, LoaderAssumption DEF ConfigureRest, UpdateHolding
  <2>2. arg[t] = snapshot /\ mode = snapshot.mode
    BY <1>5 DEF ConfigureRest, ConfigOK
  <2>3. RuntimeConfig' = snapshot
    BY <1>1, <1>5, <2>2 DEF ConfigureRest, RuntimeConfig, Config
  <2>4. QED
    BY <1>1, <1>5, <2>1, <2>2, <2>3 DEF ConfigureRest, ConfigOK, SnapshotAgrees, ReplyIsOwn,
       controllerVars, UpdateHolding
<1>6. CASE UpdateEnter(t)
  <2>1. /\ updateLock' = t /\ t # None /\ \A u \in Actors : pc[u] \notin UpdateHolding
        /\ arg' = [arg EXCEPT ![t] = snapshot'] /\ reply' = reply
        /\ pc' = [pc EXCEPT ![t] = "configure"]
    BY <1>1, <1>6, LoaderAssumption DEF UpdateEnter
  <2>2. QED
    BY <1>1, <2>1 DEF ConfigOK, SnapshotAgrees, ReplyIsOwn, UpdateHolding
<1>7. CASE UpdateReturn(t)
  <2>1. \A u \in Actors \ {t} : pc[u] \notin UpdateHolding
    BY <1>1, <1>7 DEF UpdateReturn, UpdateHolding
  <2>2. RuntimeConfig' = RuntimeConfig /\ arg' = arg
    BY <1>7 DEF UpdateReturn, RuntimeConfig, runtimeVars, flagVars
  <2>3. QED
    BY <1>1, <1>7, <2>1, <2>2 DEF UpdateReturn, ConfigOK, SnapshotAgrees, ReplyIsOwn,
       UpdateHolding
<1>8. QED
  BY <1>2, <1>3, <1>4, <1>5, <1>6, <1>7 DEF ControllerStep, RuntimeStep

-----------------------------------------------------------------------------
(* The status. ERROR is never stored while a load is running, so a load     *)
(* that binds a model never finds it there.                                 *)
StatusOK ==
    /\ HonestProgress
    /\ \A t \in Actors : Loading(t) => status # "error"
    /\ \A t \in Actors : pc[t] = "load_raised" => ~Loaded

(* The load in progress is the only one.                                    *)
LEMMA OneLoading ==
    ASSUME LoadMutex, NEW t \in Actors, pc[t] \in LoadHolding, NEW u \in Actors, Loading(u)
    PROVE  u = t
BY LoaderAssumption DEF LoadMutex, Loading, LoadHolding

(* A statement that stores no status and lets nobody start or end a load.   *)
LEMMA StatusKept ==
    ASSUME StatusOK, status' = status, Loaded' => Loaded,
           \A u \in Actors : pc'[u] = pc[u] \/ (~Loading(u) /\ ~Loading(u)')
    PROVE  StatusOK'
BY DEF StatusOK, HonestProgress, Loading

LEMMA StatusService ==
    ASSUME NEW L, pc \in [Actors -> L], LoadMutex, BuildsOnEmpty, StatusOK, NEW t \in Actors, ControllerStep(t)
    PROVE  StatusOK'
<1> USE DEF Goto
<1>1. pc \in [Actors -> L] /\ \A u \in Actors : u # None
  BY LoaderAssumption
<1>2. CASE (Load(t) \/ LoadLock(t)) /\ UNCHANGED runtimeVars
  <2>1. /\ Loading(t) /\ Loading(t)' /\ pc'[t] # "load_raised"
        /\ \A u \in Actors \ {t} : pc'[u] = pc[u]
        /\ UNCHANGED <<status, model, processor>>
    BY <1>1, <1>2 DEF Load, LoadLock, Loading, runtimeVars, loaderVars
  <2>2. QED
    BY <2>1 DEF StatusOK, HonestProgress, Loading, Loaded
<1>3. CASE (BindModel(t) \/ BuildFails(t)) /\ UNCHANGED runtimeVars
  <2>1. /\ Loading(t) /\ Loading(t)' /\ status' = status
        /\ \A u \in Actors \ {t} : pc'[u] = pc[u]
    BY <1>1, <1>3 DEF BindModel, BuildFails, Loading, runtimeVars
  <2>2. ~Loaded'
    BY <1>3 DEF BindModel, BuildFails, BuildsOnEmpty, Loaded
  <2>3. QED
    BY <2>1, <2>2 DEF StatusOK, HonestProgress, Loading
<1>4. CASE BindProcessor(t) /\ UNCHANGED runtimeVars
  <2>1. /\ Loading(t) /\ Loading(t)' /\ pc'[t] = "load_returned" /\ status' = status
        /\ pc[t] \in LoadHolding
        /\ \A u \in Actors \ {t} : pc'[u] = pc[u]
    BY <1>1, <1>4 DEF BindProcessor, Loading, LoadHolding, runtimeVars
  <2>2. \A u \in Actors : Loading(u) => u = t
    BY <2>1, OneLoading
  <2>3. QED
    BY <2>1, <2>2 DEF StatusOK, HonestProgress, Loading
<1>5. CASE (UnbindModel(t) \/ UnbindProcessor(t) \/ ReleaseTensors(t)) /\ UNCHANGED runtimeVars
  <2>1. /\ ~Loading(t) /\ ~Loading(t)' /\ status' = status
        /\ \A u \in Actors \ {t} : pc'[u] = pc[u]
        /\ Loaded' => Loaded
    BY <1>1, <1>5 DEF UnbindModel, UnbindProcessor, ReleaseTensors, Loading, Loaded,
       runtimeVars, loaderVars
  <2>2. QED
    BY <2>1, StatusKept
<1>6. CASE EnsureLoading(t)
  <2>1. /\ Loading(t)' /\ pc'[t] = "load" /\ status' = "loading"
        /\ \A u \in Actors \ {t} : pc'[u] = pc[u]
        /\ UNCHANGED <<model, processor>>
    BY <1>1, <1>6 DEF EnsureLoading, Loading, loaderVars
  <2>2. QED
    BY <2>1 DEF StatusOK, HonestProgress, Loading, Loaded
<1>7. CASE EnsureFails(t)
  <2>1. /\ pc[t] = "load_raised" /\ pc'[t] = "ensure_raise" /\ pc[t] \in LoadHolding
        /\ \A u \in Actors \ {t} : pc'[u] = pc[u]
        /\ UNCHANGED <<model, processor>>
    BY <1>1, <1>7 DEF EnsureFails, LoadHolding, loaderVars
  <2>2. \A u \in Actors : ~Loading(u)'
    BY <2>1, OneLoading DEF Loading
  <2>3. ~Loaded'
    BY <2>1 DEF StatusOK, Loaded
  <2>4. QED
    BY <1>7, <2>2, <2>3 DEF EnsureFails, StatusOK, HonestProgress, Loading
<1>8. CASE EnsureMark(t) \/ EnsureRemark(t) \/ EnsureLoaded(t) \/ UnloadMark(t)
  <2>1. /\ status' \in {"ready", "not_loaded"}
        /\ pc'[t] \in {"ensure_ok", "unloaded"}
        /\ \A u \in Actors \ {t} : pc'[u] = pc[u]
        /\ UNCHANGED <<model, processor>>
    BY <1>1, <1>8 DEF EnsureMark, EnsureRemark, EnsureLoaded, UnloadMark, loaderVars
  <2>2. QED
    BY <2>1 DEF StatusOK, HonestProgress, Loading, Loaded
<1>9. CASE \/ Ensure(t) \/ EnsureWait(t) \/ AfterMode(t) \/ AfterFlag(t)
           \/ ConfigureMode(t) \/ ConfigureRest(t) \/ UpdateEnter(t) \/ UpdateReturn(t)
  <2>1. /\ ~Loading(t) /\ ~Loading(t)' /\ status' = status
        /\ \A u \in Actors \ {t} : pc'[u] = pc[u]
        /\ UNCHANGED <<model, processor>>
    BY <1>1, <1>9 DEF Ensure, EnsureWait, AfterMode, AfterFlag, ConfigureMode,
       ConfigureRest, UpdateEnter, UpdateReturn, Loading, runtimeVars, loaderVars
  <2>2. QED
    BY <2>1, StatusKept DEF Loaded
<1>10. QED
  BY <1>2, <1>3, <1>4, <1>5, <1>6, <1>7, <1>8, <1>9 DEF ControllerStep, RuntimeStep, LoaderStep

-----------------------------------------------------------------------------
(* The loader alone: threads that call load() and unload() in any order.    *)
LoaderClientLabels == LoaderLabels \union {"idle"}

LoaderInv == /\ pc \in [Actors -> LoaderClientLabels]
             /\ LoaderMutex
             /\ BindingOK

LEMMA LoaderStarts == LoaderInit => LoaderInv
BY DEF LoaderInit, LoaderInv, LoaderClientLabels, LoaderMutex, LoaderHolding, BindingOK,
       BindingWhole, BuildsOnEmpty

LEMMA LoaderStepKeepsInv == LoaderInv /\ [LoaderNext]_<<loaderVars, pc, exc>> => LoaderInv'
<1> SUFFICES ASSUME LoaderInv, [LoaderNext]_<<loaderVars, pc, exc>>
             PROVE  LoaderInv'
    OBVIOUS
<1>1. LoaderLabels \subseteq LoaderClientLabels
    BY DEF LoaderClientLabels
<1>2. ASSUME NEW t \in Actors, LoaderStep(t)
      PROVE  LoaderInv'
    BY <1>1, <1>2, LoaderStepMutex, LoaderStepBinding DEF LoaderInv
<1>3. ASSUME NEW t \in Actors, CallLoader(t) \/ LoaderCallEnds(t)
      PROVE  LoaderInv'
    BY <1>3 DEF CallLoader, LoaderCallEnds, Goto, loaderVars, LoaderInv, LoaderClientLabels,
       LoaderLabels, LoaderMutex, LoaderHolding, BindingOK, BindingWhole, BuildsOnEmpty
<1>4. CASE UNCHANGED <<loaderVars, pc, exc>>
    BY <1>4 DEF loaderVars, LoaderInv, LoaderMutex, BindingOK, BindingWhole, BuildsOnEmpty
<1> QED
    BY <1>2, <1>3, <1>4 DEF LoaderNext

(* Whatever threads call load() and unload() in whatever order, the bodies  *)
(* of the with blocks exclude each other, a copy is built only while none   *)
(* is bound, and outside the blocks model and processor stem from one build *)
(* (gemma4_loader.py 40-53).                                                *)
THEOREM LoaderKeepsOneCopy ==
    LoaderSpec => [](LoaderMutex /\ BuildsOnEmpty /\ BindingWhole)
<1>1. LoaderInv => LoaderMutex /\ BuildsOnEmpty /\ BindingWhole
    BY DEF LoaderInv, BindingOK
<1> QED
    BY <1>1, LoaderStarts, LoaderStepKeepsInv, PTL DEF LoaderSpec

(* Behind the loader's two attributes, the two looks at loaded and the      *)
(* readers that take no lock there is one holder of one copy, which is      *)
(* built in an empty place, shown whole and never dropped under a build     *)
(* (gemma4_loader.py 35-55).                                                *)
THEOREM LoaderImplementsHolder == LoaderSpec => HolderSpec
<1>1. LoaderInit => Holder!Init
    BY LoaderAssumption DEF LoaderInit, Holder!Init, Bound, Builder, Loaded
<1>2. LoaderInv /\ [LoaderNext]_<<loaderVars, pc, exc>> => [Holder!Next]_(Holder!vars)
    <2> SUFFICES ASSUME LoaderInv, [LoaderNext]_<<loaderVars, pc, exc>>
                 PROVE  Holder!Next \/ UNCHANGED <<Bound, Builder>>
        BY DEF Holder!vars
    <2>1. ASSUME NEW t \in Actors, LoaderStep(t)
          PROVE  Holder!Next \/ UNCHANGED <<Bound, Builder>>
        BY <2>1, LoaderStepHolder DEF LoaderInv
    <2>2. ASSUME NEW t \in Actors, CallLoader(t) \/ LoaderCallEnds(t)
          PROVE  UNCHANGED <<Bound, Builder>>
        <3>1. PICK l : pc' = [pc EXCEPT ![t] = l] /\ pc[t] \notin LoaderHolding
                       /\ UNCHANGED loaderVars
            BY <2>2 DEF CallLoader, LoaderCallEnds, Goto, LoaderHolding
        <3> QED
            BY <3>1, HolderKept DEF LoaderInv
    <2>3. CASE UNCHANGED <<loaderVars, pc, exc>>
        BY <2>3 DEF loaderVars, Bound, Builder, Loaded
    <2> QED
        BY <2>1, <2>2, <2>3 DEF LoaderNext
<1> QED
    BY <1>1, <1>2, LoaderStarts, LoaderStepKeepsInv, PTL DEF LoaderSpec, HolderSpec, Holder!Spec

-----------------------------------------------------------------------------
(* The controller and the runtime alone: threads that call ensure_loaded,   *)
(* after_request, unload and update in any order.                           *)
ClientLabels == ControllerLabels \union {"idle"}

ControllerInv == /\ Typed(ClientLabels, Exceptions)
                 /\ LocksOK
                 /\ BindingOK
                 /\ ConfigOK
                 /\ StatusOK

LEMMA ControllerStarts == ControllerInit => ControllerInv
<1> SUFFICES ASSUME ControllerInit PROVE ControllerInv
    OBVIOUS
<1>1. PICK env \in Environments :
          /\ RuntimeInit(Settings(env))
          /\ snapshot = Settings(env)
          /\ updateLock = None
          /\ reply = [t \in Actors |-> Settings(env)]
    BY DEF ControllerInit, ControllerStart
<1>2. Settings(env) \in Config
    BY SettingsType
<1>3. pc = [t \in Actors |-> "idle"]
    BY DEF ControllerInit
<1>4. Typed(ClientLabels, Exceptions)
    BY <1>1, <1>2, <1>3 DEF RuntimeInit, Typed, ControllerTypeOK, RuntimeTypeOK, LoaderTypeOK,
       Statuses, Config, ClientLabels, Exceptions
<1>5. LocksOK /\ BindingOK
    BY <1>1, <1>3 DEF RuntimeInit, LocksOK, LoaderMutex, LoadMutex, UpdateMutex,
       LoaderHolding, LoadHolding, UpdateHolding, BindingOK, BindingWhole, BuildsOnEmpty
<1>6. ConfigOK
    BY <1>1, <1>2, <1>3 DEF RuntimeInit, ConfigOK, SnapshotAgrees, RuntimeConfig, ReplyIsOwn, Config
<1>7. StatusOK
    BY <1>1, <1>3 DEF RuntimeInit, StatusOK, HonestProgress, Loading
<1> QED
    BY <1>4, <1>5, <1>6, <1>7 DEF ControllerInv

(* A call that begins or ends moves its thread between statements outside   *)
(* every with block, and outside every load and update.                     *)
LEMMA CallKeepsInv ==
    ASSUME ControllerInv, NEW t \in Actors, CallRuntime(t) \/ RuntimeCallEnds(t)
    PROVE  ControllerInv'
<1> USE DEF ControllerInv
<1>1. /\ pc \in [Actors -> ClientLabels] /\ exc \in [Actors -> Exceptions]
      /\ arg \in [Actors -> Config] /\ reply \in [Actors -> Config] /\ snapshot \in Config
    BY DEF Typed, ControllerTypeOK
<1>2. PICK l \in {"idle", "ensure", "after", "unload", "update"} :
          /\ pc' = [pc EXCEPT ![t] = l]
          /\ pc[t] \in {"idle", "ensure_ok", "ensure_raise", "after_ok", "unloaded",
                        "unload_raised", "patched"}
    BY DEF CallRuntime, RuntimeCallEnds, Goto
<1>3. UNCHANGED <<loaderVars, status, loadLock, flagVars, snapshot, updateLock>>
    BY DEF CallRuntime, RuntimeCallEnds, runtimeVars, controllerVars
<1>4. Typed(ClientLabels, Exceptions)'
    <2>1. pc' \in [Actors -> ClientLabels]
        BY <1>1, <1>2 DEF ClientLabels, ControllerLabels, RuntimeLabels, LoaderLabels
    <2>2. /\ exc' \in [Actors -> Exceptions]
          /\ arg' \in [Actors -> Config] /\ reply' \in [Actors -> Config]
        BY <1>1 DEF CallRuntime, RuntimeCallEnds, runtimeVars, controllerVars, Exceptions
    <2> QED
        BY <1>3, <2>1, <2>2 DEF Typed, ControllerTypeOK, RuntimeTypeOK, LoaderTypeOK,
           loaderVars, flagVars
<1>5. LocksOK' /\ BindingOK'
    BY <1>1, <1>2, <1>3, OutsideLocks DEF LoaderHolding, LoadHolding, UpdateHolding
<1>6. ConfigOK'
    <2>1. \A u \in Actors \ {t} : pc'[u] = pc[u] /\ arg'[u] = arg[u] /\ reply'[u] = reply[u]
        BY <1>1, <1>2 DEF CallRuntime, RuntimeCallEnds, runtimeVars, controllerVars
    <2>2. pc'[t] \notin {"configure", "configure_rest", "configured", "patched"}
        BY <1>1, <1>2
    <2> QED
        BY <1>3, <2>1, <2>2 DEF ConfigOK, SnapshotAgrees, ReplyIsOwn, RuntimeConfig, flagVars
<1>7. StatusOK'
    BY <1>1, <1>2, <1>3, StatusKept DEF Loading, Loaded, loaderVars
<1> QED
    BY <1>4, <1>5, <1>6, <1>7

LEMMA ControllerStepKeepsInv ==
    ControllerInv /\ [ControllerNext]_<<loaderVars, runtimeVars, controllerVars, pc, exc>>
        => ControllerInv'
<1> SUFFICES ASSUME ControllerInv,
                    [ControllerNext]_<<loaderVars, runtimeVars, controllerVars, pc, exc>>
             PROVE  ControllerInv'
    OBVIOUS
<1>1. ASSUME NEW t \in Actors, ControllerStep(t)
      PROVE  ControllerInv'
    <2>1. Typed(ClientLabels, Exceptions)'
        BY <1>1, ControllerStepType DEF ControllerInv, ClientLabels
    <2>2. LocksOK' /\ BindingOK'
        BY <1>1, ControllerStepLocks DEF ControllerInv, Typed
    <2>3. ConfigOK'
        BY <1>1, ConfigService DEF ControllerInv, LocksOK
    <2>4. StatusOK'
        BY <1>1, StatusService DEF ControllerInv, Typed, LocksOK, BindingOK
    <2> QED
        BY <2>1, <2>2, <2>3, <2>4 DEF ControllerInv
<1>2. ASSUME NEW t \in Actors, CallRuntime(t) \/ RuntimeCallEnds(t)
      PROVE  ControllerInv'
    BY <1>2, CallKeepsInv
<1>3. CASE UNCHANGED <<loaderVars, runtimeVars, controllerVars, pc, exc>>
    BY <1>3 DEF ControllerInv, Typed, ControllerTypeOK, RuntimeTypeOK, LoaderTypeOK, LocksOK,
       LoaderMutex, LoadMutex, UpdateMutex, BindingOK, BindingWhole, BuildsOnEmpty, ConfigOK,
       SnapshotAgrees, ReplyIsOwn, RuntimeConfig, StatusOK, HonestProgress, Loading, Loaded,
       loaderVars, runtimeVars, flagVars, controllerVars
<1> QED
    BY <1>1, <1>2, <1>3 DEF ControllerNext

LEMMA ControllerInvHolds == ControllerSpec => []ControllerInv
BY ControllerStarts, ControllerStepKeepsInv, PTL DEF ControllerSpec

(* Every variable of the loader, the runtime and the controller keeps its   *)
(* type, whoever calls what (gemma4_loader.py, runtime.py, runtime_mode.py).*)
THEOREM ControllerTypeCorrect == ControllerSpec => []ControllerClientTypeOK
<1>1. ControllerInv => ControllerClientTypeOK
    BY DEF ControllerInv, Typed, ControllerClientTypeOK, ClientLabels
<1> QED
    BY <1>1, ControllerInvHolds, PTL

(* For any number of threads that load, unload, finish requests and patch   *)
(* the mode: loads are single-flight and keep one copy, and no flag changes *)
(* under a load (runtime.py 76-100, gemma4_loader.py 40-53).                *)
THEOREM ControllerLocksExclude ==
    ControllerSpec => [](LoadMutex /\ LoaderMutex /\ UpdateMutex /\ BindingWhole /\ BuildsOnEmpty)
<1>1. ControllerInv => LoadMutex /\ LoaderMutex /\ UpdateMutex /\ BindingWhole /\ BuildsOnEmpty
    BY DEF ControllerInv, LocksOK, BindingOK
<1> QED
    BY <1>1, ControllerInvHolds, PTL

(* The status is honest under any calls, not only the ones the service      *)
(* makes: LOADING means somebody is loading, ERROR that nothing is loaded   *)
(* (runtime.py 81-108).                                                     *)
THEOREM ControllerStatusIsHonest == ControllerSpec => []HonestProgress
<1>1. ControllerInv => HonestProgress
    BY DEF ControllerInv, StatusOK
<1> QED
    BY <1>1, ControllerInvHolds, PTL

(* Overlapping updates end with the snapshot and the runtime's flags from   *)
(* one and the same update, and each is answered with its own               *)
(* configuration (runtime_mode.py 41-61, runtime.py 76-79).                 *)
THEOREM UpdatesAreAtomic == ControllerSpec => [](SnapshotAgrees /\ ReplyIsOwn)
<1>1. ControllerInv => SnapshotAgrees /\ ReplyIsOwn
    BY DEF ControllerInv, ConfigOK
<1> QED
    BY <1>1, ControllerInvHolds, PTL

(* With ensure_loaded, after_request, unload and configure around it the    *)
(* loader is the same holder of one copy (runtime.py 76-108,                *)
(* gemma4_loader.py 35-55).                                                 *)
THEOREM RuntimeImplementsHolder == ControllerSpec => HolderSpec
<1>1. ControllerInit => Holder!Init
    BY LoaderAssumption DEF ControllerInit, ControllerStart, RuntimeInit, Holder!Init, Bound,
       Builder, Loaded
<1>2. ControllerInv /\ [ControllerNext]_<<loaderVars, runtimeVars, controllerVars, pc, exc>>
          => [Holder!Next]_(Holder!vars)
    <2> SUFFICES ASSUME ControllerInv,
                        [ControllerNext]_<<loaderVars, runtimeVars, controllerVars, pc, exc>>
                 PROVE  Holder!Next \/ UNCHANGED <<Bound, Builder>>
        BY DEF Holder!vars
    <2>1. ASSUME NEW t \in Actors, ControllerStep(t)
          PROVE  Holder!Next \/ UNCHANGED <<Bound, Builder>>
        BY <2>1, ControllerStepHolder DEF ControllerInv, Typed, LocksOK
    <2>2. ASSUME NEW t \in Actors, CallRuntime(t) \/ RuntimeCallEnds(t)
          PROVE  UNCHANGED <<Bound, Builder>>
        <3>1. PICK l : pc' = [pc EXCEPT ![t] = l] /\ pc[t] \notin LoaderHolding
                       /\ UNCHANGED loaderVars
            BY <2>2 DEF CallRuntime, RuntimeCallEnds, Goto, LoaderHolding
        <3> QED
            BY <3>1, HolderKept DEF ControllerInv, Typed, LocksOK
    <2>3. CASE UNCHANGED <<loaderVars, runtimeVars, controllerVars, pc, exc>>
        BY <2>3 DEF loaderVars, Bound, Builder, Loaded
    <2> QED
        BY <2>1, <2>2, <2>3 DEF ControllerNext
<1> QED
    BY <1>1, <1>2, ControllerStarts, ControllerStepKeepsInv, PTL
       DEF ControllerSpec, HolderSpec, Holder!Spec
=============================================================================
