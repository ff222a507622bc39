----------------------- MODULE RuntimeModeController -----------------------
(***************************************************************************)
(* app/services/runtime_mode.py, with the settings and the request schema  *)
(* it starts from: the runtime-mode snapshot that PATCH                    *)
(* /v1/model/runtime-mode replaces and passes on to VLMRuntime.configure.  *)
(*                                                                         *)
(*   update: update -> configure ... configured -> patched                 *)
(*                                                                         *)
(* An optional field of a body or of the environment is a set: {} when it  *)
(* is absent, {v} when it is given.                                        *)
(***************************************************************************)
EXTENDS VLMRuntime

CONSTANTS Environments,    \* the settings the process may start with
          PatchBodies      \* the request bodies of PATCH /v1/model/runtime-mode

Optional(S) == {{}} \union {{v} : v \in S}
OrElse(option, default) == IF option = {} THEN default ELSE CHOOSE v \in option : TRUE

Environment == [vlm_mode : Optional(Modes), model_load_on_startup : Optional(BOOLEAN),
                unload_after_request : Optional(BOOLEAN)]
PatchBody   == [mode : Modes \union {"hot"}, load_on_startup : Optional(BOOLEAN),
                unload_after_request : Optional(BOOLEAN)]

ASSUME ControllerAssumption == /\ Environments \subseteq Environment
                               /\ PatchBodies \subseteq PatchBody

VARIABLES snapshot,        \* RuntimeModeController._snapshot
          updateLock,      \* who holds RuntimeModeController._lock
          reply            \* what each actor's update() returned last

controllerVars == <<snapshot, updateLock, reply>>

\* The statements executed inside "with self._lock".
UpdateHolding == {"configure", "configure_rest", "configured"}

ControllerLabels == RuntimeLabels \union {"update", "patched"}

ControllerTypeOK == /\ RuntimeTypeOK
                    /\ arg \in [Actors -> Config]
                    /\ snapshot \in Config
                    /\ updateLock \in Actors \union {None}
                    /\ reply \in [Actors -> Config]

-----------------------------------------------------------------------------
\* Settings.apply_runtime_mode_defaults: without an explicit switch the model
\* is loaded at startup exactly in resident mode.
Settings(env) ==
    LET vlm_mode == OrElse(env.vlm_mode, "resident") IN
    [mode |-> vlm_mode,
     load_on_startup |-> OrElse(env.model_load_on_startup, vlm_mode = "resident"),
     unload_after_request |-> OrElse(env.unload_after_request, FALSE)]

\* Mutated NormalizeHotAlias: the alias goes through to the runtime.
HotAliasKept(m) == m

\* RuntimeModeUpdateRequest.normalize_hot_alias
NormalizeHotAlias(m) == IF m = "hot" THEN "resident" ELSE m

\* The snapshot update() builds: an absent load_on_startup is derived from the
\* new mode, an absent unload_after_request keeps its present value.
Updated(body) ==
    LET m == NormalizeHotAlias(body.mode) IN
    [mode |-> m,
     load_on_startup |-> OrElse(body.load_on_startup, m = "resident"),
     unload_after_request |->
         OrElse(body.unload_after_request, snapshot.unload_after_request)]

\* Mutated UpdateEnter: updates are not serialized.
UpdateEnterUnlocked(t) ==
    /\ pc[t] = "update"
    /\ updateLock' = t
    /\ \E body \in PatchBodies : snapshot' = Updated(body)
    /\ arg' = [arg EXCEPT ![t] = snapshot']
    /\ Goto(t, "configure")
    /\ UNCHANGED <<loaderVars, status, loadLock, flagVars, exc, reply>>

\* update(): the lock is taken, the snapshot replaced, configure called.
UpdateEnter(t) ==
    /\ pc[t] = "update"
    /\ updateLock = None
    /\ updateLock' = t
    /\ \E body \in PatchBodies : snapshot' = Updated(body)
    /\ arg' = [arg EXCEPT ![t] = snapshot']
    /\ Goto(t, "configure")
    /\ UNCHANGED <<loaderVars, status, loadLock, flagVars, exc, reply>>

\* return self._snapshot, and the end of the with block.
UpdateReturn(t) ==
    /\ pc[t] = "configured"
    /\ reply' = [reply EXCEPT ![t] = snapshot]
    /\ updateLock' = None
    /\ Goto(t, "patched")
    /\ UNCHANGED <<loaderVars, runtimeVars, exc, snapshot>>

ControllerStep(t) == \/ RuntimeStep(t) /\ UNCHANGED controllerVars
                     \/ UpdateEnter(t)
                     \/ UpdateReturn(t)

ControllerStart ==
    \E env \in Environments :
        /\ RuntimeInit(Settings(env))
        /\ snapshot = Settings(env)
        /\ updateLock = None
        /\ reply = [t \in Actors |-> Settings(env)]

-----------------------------------------------------------------------------
\* The controller and the runtime alone: threads that call ensure_loaded,
\* after_request, unload and update in any order, again and again.
CallRuntime(t) ==
    /\ pc[t] = "idle"
    /\ \E entry \in {"ensure", "after", "unload", "update"} : Goto(t, entry)
    /\ UNCHANGED <<loaderVars, runtimeVars, controllerVars, exc>>

RuntimeCallEnds(t) ==
    /\ pc[t] \in {"ensure_ok", "ensure_raise", "after_ok", "unloaded",
                  "unload_raised", "patched"}
    /\ Goto(t, "idle")
    /\ exc' = [exc EXCEPT ![t] = "none"]
    /\ arg' = [arg EXCEPT ![t] = snapshot]
    /\ reply' = [reply EXCEPT ![t] = snapshot]
    /\ UNCHANGED <<loaderVars, status, loadLock, flagVars, snapshot, updateLock>>

ControllerInit == ControllerStart /\ pc = [t \in Actors |-> "idle"]

ControllerNext == \E t \in Actors : ControllerStep(t) \/ CallRuntime(t) \/ RuntimeCallEnds(t)

ControllerSpec ==
    ControllerInit /\ [][ControllerNext]_<<loaderVars, runtimeVars, controllerVars, pc, exc>>

-----------------------------------------------------------------------------
ControllerClientTypeOK == /\ ControllerTypeOK
                          /\ pc \in [Actors -> ControllerLabels \union {"idle"}]
                          /\ exc \in [Actors -> Exceptions]

RuntimeConfig == [mode |-> mode, load_on_startup |-> loadOnStartup,
                  unload_after_request |-> unloadAfter]

(* Between updates the snapshot the status endpoints show is what the       *)
(* runtime acts on: no interleaving of PATCH requests leaves one flag from  *)
(* one request and another flag from another (runtime_mode.py 41-60,        *)
(* runtime.py 76-79).                                                       *)
SnapshotAgrees == updateLock = None => snapshot = RuntimeConfig

(* A PATCH request is answered with the configuration it asked for, not     *)
(* with that of a request that came in meanwhile (runtime_mode.py 41-61).   *)
ReplyIsOwn == \A t \in Actors : pc[t] = "patched" => reply[t] = arg[t]
=============================================================================
