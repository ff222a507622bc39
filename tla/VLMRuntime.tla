----------------------------- MODULE VLMRuntime -----------------------------
(***************************************************************************)
(* app/model/runtime.py: the status of the model, the mode switches, and   *)
(* the calls that load and unload it. The loader's steps are those of      *)
(* Gemma4Loader; this module adds what the runtime does around them.       *)
(*                                                                         *)
(*   ensure_loaded: ensure -> ensure_mark -> ensure_ok                     *)
(*                     \-> ensure_wait -> ensure_remark -> ensure_ok       *)
(*                              \-> ensure_loading -> load ...             *)
(*                                     load_returned -> ensure_ok          *)
(*                                     load_raised   -> ensure_raise       *)
(*   after_request: after -> after_flag -> unload ...                      *)
(*                     \----------\-> after_ok                             *)
(*   unload:        unload ... unload_returned -> unloaded                 *)
(*                             unload_raised (nothing more is written)     *)
(*   configure:     configure -> configure_rest -> configured              *)
(*                                                                         *)
(* mode, loadOnStartup and unloadAfter are the runtime's public attributes.*)
(* after_request reads two of them with no lock; configure writes them     *)
(* one after the other under _load_lock. arg[t] is the argument of t's     *)
(* configure call.                                                         *)
(***************************************************************************)
EXTENDS Gemma4Loader

VARIABLES status,          \* VLMRuntime._status
          loadLock,        \* who holds VLMRuntime._load_lock
          mode, loadOnStartup, unloadAfter,
          arg

flagVars    == <<mode, loadOnStartup, unloadAfter>>
runtimeVars == <<status, loadLock, flagVars, arg>>

Modes  == {"resident", "cold"}
Config == [mode : Modes, load_on_startup : BOOLEAN, unload_after_request : BOOLEAN]

\* The statuses the runtime ever stores; nothing in the service stores "degraded".
Statuses == {"not_loaded", "loading", "ready", "error"}

RuntimeLabels == LoaderLabels \union
    {"ensure", "ensure_mark", "ensure_wait", "ensure_remark", "ensure_loading",
     "ensure_ok", "ensure_raise", "after", "after_flag", "after_ok", "unloaded",
     "configure", "configure_rest", "configured"}

\* The statements executed inside "with self._load_lock" of the runtime.
LoadHolding == {"ensure_remark", "ensure_loading", "load", "load_lock", "build",
                "bind_processor", "load_returned", "load_raised", "configure_rest"}

RuntimeTypeOK == /\ LoaderTypeOK
                 /\ status \in Statuses
                 /\ loadLock \in Actors \union {None}
                 /\ mode \in Modes
                 /\ loadOnStartup \in BOOLEAN
                 /\ unloadAfter \in BOOLEAN

\* The property status: what readyz and the model status endpoint are told.
ReportedStatus == IF Loaded THEN "ready" ELSE status

-----------------------------------------------------------------------------
\* ensure_loaded(): the first look at loaded, without the lock.
Ensure(t) ==
    /\ pc[t] = "ensure"
    /\ Goto(t, IF Loaded THEN "ensure_mark" ELSE "ensure_wait")
    /\ UNCHANGED <<loaderVars, runtimeVars, exc>>

\* ... and the READY written after it, still without the lock.
EnsureMark(t) ==
    /\ pc[t] = "ensure_mark"
    /\ status' = "ready"
    /\ Goto(t, "ensure_ok")
    /\ UNCHANGED <<loaderVars, loadLock, flagVars, arg, exc>>

\* Mutated EnsureWait: the load runs without the runtime's lock.
EnsureWaitUnlocked(t) ==
    /\ pc[t] = "ensure_wait"
    /\ Goto(t, IF Loaded THEN "ensure_remark" ELSE "ensure_loading")
    /\ UNCHANGED <<loaderVars, runtimeVars, exc>>

\* The lock is taken and loaded is read again.
EnsureWait(t) ==
    /\ pc[t] = "ensure_wait"
    /\ loadLock = None
    /\ loadLock' = t
    /\ Goto(t, IF Loaded THEN "ensure_remark" ELSE "ensure_loading")
    /\ UNCHANGED <<loaderVars, status, flagVars, arg, exc>>

\* Somebody else loaded the model meanwhile.
EnsureRemark(t) ==
    /\ pc[t] = "ensure_remark"
    /\ status' = "ready"
    /\ loadLock' = None
    /\ Goto(t, "ensure_ok")
    /\ UNCHANGED <<loaderVars, flagVars, arg, exc>>

\* mark_loading(), then loader.load() is called.
EnsureLoading(t) ==
    /\ pc[t] = "ensure_loading"
    /\ status' = "loading"
    /\ Goto(t, "load")
    /\ UNCHANGED <<loaderVars, loadLock, flagVars, arg, exc>>

\* loader.load() returned: READY, and the lock is dropped.
EnsureLoaded(t) ==
    /\ pc[t] = "load_returned"
    /\ status' = "ready"
    /\ loadLock' = None
    /\ Goto(t, "ensure_ok")
    /\ UNCHANGED <<loaderVars, flagVars, arg, exc>>

\* Mutated EnsureFails: no except clause, so LOADING stays behind.
EnsureFailsUnmarked(t) ==
    /\ pc[t] = "load_raised"
    /\ loadLock' = None
    /\ Goto(t, "ensure_raise")
    /\ UNCHANGED <<loaderVars, status, flagVars, arg, exc>>

\* Mutated EnsureFails: the exception skips the release of the lock.
EnsureFailsLocked(t) ==
    /\ pc[t] = "load_raised"
    /\ status' = "error"
    /\ Goto(t, "ensure_raise")
    /\ UNCHANGED <<loaderVars, loadLock, flagVars, arg, exc>>

\* loader.load() raised: ERROR, and the exception leaves the with block.
EnsureFails(t) ==
    /\ pc[t] = "load_raised"
    /\ status' = "error"
    /\ loadLock' = None
    /\ Goto(t, "ensure_raise")
    /\ UNCHANGED <<loaderVars, flagVars, arg, exc>>

\* Mutated AfterMode: only a request that succeeded cleans up.
AfterModeOnSuccess(t) ==
    /\ pc[t] = "after"
    /\ Goto(t, IF mode = "cold" /\ exc[t] = "none" THEN "after_flag" ELSE "after_ok")
    /\ UNCHANGED <<loaderVars, runtimeVars, exc>>

\* Mutated AfterMode: the mode is not looked at, only unload_after_request.
AfterModeIgnored(t) ==
    /\ pc[t] = "after"
    /\ Goto(t, "after_flag")
    /\ UNCHANGED <<loaderVars, runtimeVars, exc>>

\* after_request(): self.mode is read ...
AfterMode(t) ==
    /\ pc[t] = "after"
    /\ Goto(t, IF mode = "cold" THEN "after_flag" ELSE "after_ok")
    /\ UNCHANGED <<loaderVars, runtimeVars, exc>>

\* ... and then self.unload_after_request.
AfterFlag(t) ==
    /\ pc[t] = "after_flag"
    /\ Goto(t, IF unloadAfter THEN "unload" ELSE "after_ok")
    /\ UNCHANGED <<loaderVars, runtimeVars, exc>>

\* Mutated UnloadMark: NOT_LOADED is not written.
UnloadUnmarked(t) ==
    /\ pc[t] = "unload_returned"
    /\ Goto(t, "unloaded")
    /\ UNCHANGED <<loaderVars, runtimeVars, exc>>

\* unload(): the loader is done; NOT_LOADED is written with no lock held.
UnloadMark(t) ==
    /\ pc[t] = "unload_returned"
    /\ status' = "not_loaded"
    /\ Goto(t, "unloaded")
    /\ UNCHANGED <<loaderVars, loadLock, flagVars, arg, exc>>

\* configure(): the lock is taken and mode is written; after_request may read
\* before the other flags follow.
ConfigureMode(t) ==
    /\ pc[t] = "configure"
    /\ loadLock = None
    /\ loadLock' = t
    /\ mode' = arg[t].mode
    /\ Goto(t, "configure_rest")
    /\ UNCHANGED <<loaderVars, status, loadOnStartup, unloadAfter, arg, exc>>

ConfigureRest(t) ==
    /\ pc[t] = "configure_rest"
    /\ loadOnStartup' = arg[t].load_on_startup
    /\ unloadAfter' = arg[t].unload_after_request
    /\ loadLock' = None
    /\ Goto(t, "configured")
    /\ UNCHANGED <<loaderVars, status, mode, arg, exc>>

RuntimeStep(t) == \/ LoaderStep(t) /\ UNCHANGED runtimeVars
                  \/ Ensure(t)
                  \/ EnsureMark(t)
                  \/ EnsureWait(t)
                  \/ EnsureRemark(t)
                  \/ EnsureLoading(t)
                  \/ EnsureLoaded(t)
                  \/ EnsureFails(t)
                  \/ AfterMode(t)
                  \/ AfterFlag(t)
                  \/ UnloadMark(t)
                  \/ ConfigureMode(t)
                  \/ ConfigureRest(t)

RuntimeInit(config) ==
    /\ model = None
    /\ processor = None
    /\ loaderLock = None
    /\ status = "not_loaded"
    /\ loadLock = None
    /\ mode = config.mode
    /\ loadOnStartup = config.load_on_startup
    /\ unloadAfter = config.unload_after_request
    /\ arg = [t \in Actors |-> config]
    /\ exc = [t \in Actors |-> "none"]

-----------------------------------------------------------------------------
(* The owner of _load_lock is the one actor loading or configuring: loads   *)
(* are single-flight, and no flag changes while a load is running           *)
(* (runtime.py 76-79, 89-100).                                              *)
LoadMutex == \A t \in Actors : loadLock = t <=> pc[t] \in LoadHolding

(* LOADING and ERROR are honest whoever races with the load: LOADING is     *)
(* stored only while some call is inside loader.load (never left behind by  *)
(* a load that raised or was overtaken), and after ERROR nothing is loaded  *)
(* (runtime.py 81-100, 106-108).                                            *)
Loading(t) == pc[t] \in {"load", "load_lock", "build", "bind_processor",
                         "load_returned", "load_raised"}

HonestProgress == /\ status = "loading" => \E t \in Actors : Loading(t)
                  /\ status = "error"   => ~Loaded
=============================================================================
