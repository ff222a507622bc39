---------------------------- MODULE ParseServer ----------------------------
(***************************************************************************)
(* The service of app/main.py put together: the lifespan that loads and    *)
(* unloads the model, parse requests going through                         *)
(* CompactParseService.parse_image and Gemma4CompactProvider.__call__, and *)
(* PATCH requests for the runtime mode, all on one VLMRuntime, one         *)
(* Gemma4Loader, one GenerationLock and one RuntimeModeController.         *)
(*                                                                         *)
(*   request:  idle -> analyze -> acquire -> ensure ... ensure_ok          *)
(*                  -> read_processor -> generate -> after ...             *)
(*                  -> reply -> done                                       *)
(*   patch:    idle -> update ... patched                                  *)
(*   lifespan: starting -> ensure ... -> serving -> draining -> unload ... *)
(*                  -> stopped                                             *)
(*                                                                         *)
(* Every await in the provider hands one synchronous call to a worker      *)
(* thread, so requests interleave statement by statement inside those      *)
(* calls. The response an HTTP client gets is outcome[r].                  *)
(*                                                                         *)
(* frame[r] is what the locals model and processor of r's                  *)
(* _generate_and_parse call still refer to. The frame of a call that       *)
(* raised lives as long as the exception: primary_error and the traceback  *)
(* form a reference cycle, which only the garbage collector undoes, and    *)
(* not before the request was answered.                                    *)
(***************************************************************************)
EXTENDS RuntimeModeController, GenerationLock

CONSTANTS Patches,            \* the PATCH requests; the parse requests are Reqs
          Lifespan,           \* the lifespan task
          GenerationFaults    \* what generating and parsing may raise

ASSUME ServerAssumption ==
    /\ Actors = Reqs \union Patches \union {Lifespan}
    /\ Reqs \intersect Patches = {}
    /\ Lifespan \notin Reqs \union Patches
    /\ GenerationFaults \subseteq {"timeout", "oom", "other", "invalid_json"}

VARIABLES frame,
          output,             \* the requests whose generation gave a valid VLM output
          outcome             \* what each request was answered

requestVars == <<frame, output, outcome>>
vars == <<loaderVars, runtimeVars, controllerVars, lockVars, requestVars, pc, exc>>

NoFrame == [model |-> None, processor |-> None]
Frames  == [model : Actors \union {None}, processor : Actors \union {None}]

ServerExceptions == Exceptions \union {"rejected", "busy", "not_ready", "invalid_json"}

\* AppError codes, "fused" for a completed parse, "fallback" for the
\* deterministic response with the warning "vlm enrichment failed".
Outcomes == {"none", "fused", "fallback", "rejected", "PARSER_BUSY",
             "MODEL_NOT_READY", "VLM_TIMEOUT", "VLM_OOM", "VLM_INVALID_JSON"}

ServerLabels == ControllerLabels \union
    {"idle", "analyze", "acquire", "read_processor", "generate", "reply", "done",
     "starting", "serving", "draining", "stopped"}

ServerTypeOK == /\ ControllerTypeOK
                /\ LockTypeOK
                /\ pc \in [Actors -> ServerLabels]
                /\ exc \in [Actors -> ServerExceptions]
                /\ frame \in [Reqs -> Frames]
                /\ output \subseteq Reqs
                /\ outcome \in [Reqs -> Outcomes]

Serving == pc[Lifespan] = "serving"

-----------------------------------------------------------------------------
\* A client posts an image; uvicorn accepts connections while it is serving.
Arrive(r) ==
    /\ pc[r] = "idle"
    /\ Serving
    /\ Goto(r, "analyze")
    /\ UNCHANGED <<loaderVars, runtimeVars, controllerVars, lockVars, requestVars, exc>>

\* analyze_image in the thread pool: the image is accepted, or an AppError.
Analyze(r) ==
    /\ pc[r] = "analyze"
    /\ \/ Goto(r, "acquire") /\ UNCHANGED exc
       \/ Goto(r, "reply") /\ exc' = [exc EXCEPT ![r] = "rejected"]
    /\ UNCHANGED <<loaderVars, runtimeVars, controllerVars, lockVars, requestVars>>

\* acquire(blocking=False); without a lease the request is turned away.
Acquire(r) ==
    /\ pc[r] = "acquire"
    /\ TryAcquire(r)
    /\ IF lease'[r] = "held"
         THEN Goto(r, "ensure") /\ UNCHANGED exc
         ELSE Goto(r, "reply") /\ exc' = [exc EXCEPT ![r] = "busy"]
    /\ UNCHANGED <<loaderVars, runtimeVars, controllerVars, requestVars>>

\* ensure_loaded raised: the except clauses, then after_request.
LoadFailed(r) ==
    /\ pc[r] = "ensure_raise"
    /\ Goto(r, "after")
    /\ UNCHANGED <<loaderVars, runtimeVars, controllerVars, lockVars, requestVars, exc>>

\* _generate_and_parse: model = self._loader.model ...
ReadModel(r) ==
    /\ pc[r] = "ensure_ok"
    /\ frame' = [frame EXCEPT ![r].model = model]
    /\ Goto(r, "read_processor")
    /\ UNCHANGED <<loaderVars, runtimeVars, controllerVars, lockVars, output, outcome, exc>>

\* ... processor = self._loader.processor, and MODEL_NOT_READY if either is None.
ReadProcessor(r) ==
    /\ pc[r] = "read_processor"
    /\ frame' = [frame EXCEPT ![r].processor = processor]
    /\ IF frame[r].model = None \/ processor = None
         THEN Goto(r, "after") /\ exc' = [exc EXCEPT ![r] = "not_ready"]
         ELSE Goto(r, "generate") /\ UNCHANGED exc
    /\ UNCHANGED <<loaderVars, runtimeVars, controllerVars, lockVars, output, outcome>>

\* Mutated GenerateReturns: the lease is given back before the cleanup.
GenerateReturnsAndReleases(r) ==
    /\ pc[r] = "generate"
    /\ Release(r)
    /\ output' = output \union {r}
    /\ frame' = [frame EXCEPT ![r] = NoFrame]
    /\ Goto(r, "after")
    /\ UNCHANGED <<loaderVars, runtimeVars, controllerVars, outcome, exc>>

\* The generation gives a valid output; the call returns and its frame is gone.
GenerateReturns(r) ==
    /\ pc[r] = "generate"
    /\ output' = output \union {r}
    /\ frame' = [frame EXCEPT ![r] = NoFrame]
    /\ Goto(r, "after")
    /\ UNCHANGED <<loaderVars, runtimeVars, controllerVars, lockVars, outcome, exc>>

\* The generation, or parsing its output, raises. asyncio may replace a
\* TimeoutError by one without the traceback, which frees the frame.
GenerateRaises(r) ==
    /\ pc[r] = "generate"
    /\ \E f \in GenerationFaults :
          /\ exc' = [exc EXCEPT ![r] = f]
          /\ \E freed \in {FALSE, f = "timeout"} :
                frame' = IF freed THEN [frame EXCEPT ![r] = NoFrame] ELSE frame
    /\ Goto(r, "after")
    /\ UNCHANGED <<loaderVars, runtimeVars, controllerVars, lockVars, output, outcome>>

\* Mutated Finish: a cleanup that raised skips the release of the lease.
FinishUnlessCleanupFailed(r) ==
    /\ pc[r] \in {"after_ok", "unloaded", "unload_raised"}
    /\ IF pc[r] = "unload_raised" THEN UNCHANGED lockVars ELSE Release(r)
    /\ Goto(r, "reply")
    /\ UNCHANGED <<loaderVars, runtimeVars, controllerVars, requestVars, exc>>

\* Mutated Finish: the exception of the cleanup replaces the result.
FinishMasking(r) ==
    /\ pc[r] \in {"after_ok", "unloaded", "unload_raised"}
    /\ Release(r)
    /\ Goto(r, "reply")
    /\ exc' = IF pc[r] = "unload_raised" THEN [exc EXCEPT ![r] = "other"] ELSE exc
    /\ UNCHANGED <<loaderVars, runtimeVars, controllerVars, requestVars>>

\* after_request returned, or raised and was only logged: lock_lease.release().
Finish(r) ==
    /\ pc[r] \in {"after_ok", "unloaded", "unload_raised"}
    /\ Release(r)
    /\ Goto(r, "reply")
    /\ UNCHANGED <<loaderVars, runtimeVars, controllerVars, requestVars, exc>>

\* Mutated Answer: the exception is handed on as it is.
AnswerUnmapped(e) == IF e = "busy" THEN "PARSER_BUSY" ELSE e

\* _map_vlm_runtime_error, then parse_image: an AppError becomes an error
\* response, any other exception the deterministic response with a warning.
Answer(e) == CASE e = "none"         -> "fused"
               [] e = "rejected"     -> "rejected"
               [] e = "busy"         -> "PARSER_BUSY"
               [] e = "not_ready"    -> "MODEL_NOT_READY"
               [] e = "timeout"      -> "VLM_TIMEOUT"
               [] e = "oom"          -> "VLM_OOM"
               [] e = "invalid_json" -> "VLM_INVALID_JSON"
               [] OTHER              -> "fallback"

Reply(r) ==
    /\ pc[r] = "reply"
    /\ outcome' = [outcome EXCEPT ![r] = Answer(exc[r])]
    /\ Goto(r, "done")
    /\ UNCHANGED <<loaderVars, runtimeVars, controllerVars, lockVars, frame, output, exc>>

RequestStep(r) == \/ Analyze(r)
                  \/ Acquire(r)
                  \/ LoadFailed(r)
                  \/ ReadModel(r)
                  \/ ReadProcessor(r)
                  \/ GenerateReturns(r)
                  \/ GenerateRaises(r)
                  \/ Finish(r)
                  \/ Reply(r)

-----------------------------------------------------------------------------
\* The interpreter's own garbage collection reaches an answered request.
Collect(r) ==
    /\ pc[r] = "done"
    /\ frame[r] # NoFrame
    /\ frame' = [frame EXCEPT ![r] = NoFrame]
    /\ UNCHANGED <<loaderVars, runtimeVars, controllerVars, lockVars, output, outcome, pc, exc>>

\* gc.collect() in _release_cached_tensors.
Collected == [r \in Reqs |-> IF pc[r] = "done" THEN NoFrame ELSE frame[r]]

\* A statement of the runtime, the loader or the controller, run for actor t.
ServiceStep(t) ==
    /\ ControllerStep(t)
    /\ frame' = IF pc[t] = "release_tensors" THEN Collected ELSE frame
    /\ UNCHANGED <<lockVars, output, outcome>>

\* A client sends PATCH /v1/model/runtime-mode.
SendPatch(p) ==
    /\ pc[p] = "idle"
    /\ Serving
    /\ Goto(p, "update")
    /\ UNCHANGED <<loaderVars, runtimeVars, controllerVars, lockVars, requestVars, exc>>

-----------------------------------------------------------------------------
\* lifespan: runtime.startup(), then the application serves.
Startup ==
    /\ pc[Lifespan] = "starting"
    /\ Goto(Lifespan, IF loadOnStartup THEN "ensure" ELSE "serving")
    /\ UNCHANGED <<loaderVars, runtimeVars, controllerVars, lockVars, requestVars, exc>>

StartupDone ==
    /\ pc[Lifespan] = "ensure_ok"
    /\ Goto(Lifespan, "serving")
    /\ UNCHANGED <<loaderVars, runtimeVars, controllerVars, lockVars, requestVars, exc>>

\* startup() raised: the finally clause unloads and the process exits.
StartupFailed ==
    /\ pc[Lifespan] = "ensure_raise"
    /\ Goto(Lifespan, "unload")
    /\ UNCHANGED <<loaderVars, runtimeVars, controllerVars, lockVars, requestVars, exc>>

\* uvicorn is told to stop: no new connections ...
BeginShutdown ==
    /\ Serving
    /\ Goto(Lifespan, "draining")
    /\ UNCHANGED <<loaderVars, runtimeVars, controllerVars, lockVars, requestVars, exc>>

\* ... and the lifespan goes on once the requests in progress are answered.
Drained ==
    /\ pc[Lifespan] = "draining"
    /\ \A t \in Reqs \union Patches : pc[t] \in {"idle", "done", "patched"}
    /\ Goto(Lifespan, "unload")
    /\ UNCHANGED <<loaderVars, runtimeVars, controllerVars, lockVars, requestVars, exc>>

Stopped ==
    /\ pc[Lifespan] \in {"unloaded", "unload_raised"}
    /\ Goto(Lifespan, "stopped")
    /\ UNCHANGED <<loaderVars, runtimeVars, controllerVars, lockVars, requestVars, exc>>

LifespanStep == Startup \/ StartupDone \/ StartupFailed \/ Drained \/ Stopped

\* The process has exited.
Terminated == pc[Lifespan] = "stopped" /\ UNCHANGED vars

-----------------------------------------------------------------------------
Init == /\ ControllerStart
        /\ pc = [t \in Actors |-> IF t = Lifespan THEN "starting" ELSE "idle"]
        /\ LockInit
        /\ frame = [r \in Reqs |-> NoFrame]
        /\ output = {}
        /\ outcome = [r \in Reqs |-> "none"]

Next == \/ \E r \in Reqs : Arrive(r) \/ RequestStep(r) \/ Collect(r)
        \/ \E p \in Patches : SendPatch(p)
        \/ \E t \in Actors : ServiceStep(t)
        \/ LifespanStep
        \/ BeginShutdown
        \/ Terminated

Spec == Init /\ [][Next]_vars

(* Threads and tasks that can go on do go on. Clients need not come, the    *)
(* operator need not stop the service, and no garbage collection is due.    *)
Fairness == /\ \A r \in Reqs : WF_vars(RequestStep(r))
            /\ \A t \in Actors : WF_vars(ServiceStep(t))
            /\ WF_vars(LifespanStep)

FairSpec == Spec /\ Fairness

(* The same, except that model.generate may take for ever.                  *)
Generate(r) == GenerateReturns(r) \/ GenerateRaises(r)

SlowModelSpec ==
    /\ Spec
    /\ \A r \in Reqs : WF_vars(RequestStep(r) /\ pc[r] # "generate")
    /\ \A t \in Actors : WF_vars(ServiceStep(t))
    /\ WF_vars(LifespanStep)

-----------------------------------------------------------------------------
\* The requests between acquiring their lease and releasing it.
Admitted == {r \in Reqs : pc[r] \in RuntimeLabels \union {"read_processor", "generate"}}

(* The lease is held exactly from admission to Finish, on every path: busy, *)
(* failed load, failed generation, failed cleanup (gemma4_provider.py       *)
(* 92-131).                                                                 *)
LeaseBracketsWork == Held = Admitted

\* The copies of the model in memory: bound, being built, or referenced by a
\* call of _generate_and_parse.
CopiesOf(S) == ({model} \union {frame[r].model : r \in S}
                        \union {t \in Actors : pc[t] = "build"}) \ {None}

(* Counting the bound copy, one being built, and those that admitted        *)
(* requests still generate on, memory never holds more copies of the model  *)
(* than max_concurrent_generations, although cold mode unloads a copy other *)
(* requests are using and the next request builds another (runtime.py       *)
(* 84-108, gemma4_provider.py 87-145).                                      *)
CopiesWithinPermits == Cardinality(CopiesOf(Held)) <= MaxConcurrent

(* With one generation at a time a request that loaded the model generates  *)
(* on that very copy: nobody unloads it between its ensure_loaded and the   *)
(* end of its generation, and it never gets MODEL_NOT_READY or a model and  *)
(* a processor of two loads (gemma4_provider.py 107-145).                   *)
SoleRequestKeepsItsModel ==
    MaxConcurrent = 1 =>
        \A r \in Reqs : /\ exc[r] # "not_ready"
                        /\ pc[r] = "generate" =>
                              /\ frame[r].model = model
                              /\ frame[r].processor = model

(* A request is answered with its fused result exactly when the VLM gave a  *)
(* valid output: a cleanup that fails in the finally clause neither hides a *)
(* completed parse nor turns a failure into one (gemma4_provider.py         *)
(* 104-131, compact_parse.py 43-49).                                        *)
CleanupMasksNothing ==
    \A r \in Reqs : pc[r] = "done" => (outcome[r] = "fused" <=> r \in output)

\* No PATCH request has been sent yet.
Unpatched == \A p \in Patches : pc[p] = "idle"

\* No request, patch or lifespan call is inside the runtime.
AtRest == \A t \in Actors : pc[t] \notin RuntimeLabels \union {"read_processor", "generate"}

(* In cold mode with unload_after_request, once an admitted request was     *)
(* served and none is in progress, no model is bound: concurrent requests   *)
(* cannot leave each other's model behind (runtime.py 102-108).             *)
ColdLeavesNothing ==
    (/\ AtRest
     /\ Patches = {}
     /\ mode = "cold" /\ unloadAfter
     /\ \E r \in Reqs : lease[r] = "released") => model = None /\ processor = None

(* With nothing in progress, READY is reported only for a loaded model      *)
(* (runtime.py 47-51, 84-87, 106-108). The code does not keep this: neither *)
(* when the cleanup of an unload raises, nor, with two generations at once  *)
(* and a PATCH, when a READY is written late.                               *)
ReadyMeansLoaded == AtRest /\ ReportedStatus = "ready" => Loaded

(* What it does keep. While nobody patches the mode, at every limit, and    *)
(* across PATCH requests with one generation at a time, a cleanup that      *)
(* succeeds leaves no READY without a model behind: whoever writes READY    *)
(* late, without the lock, for a model that another request has unloaded,   *)
(* writes NOT_LOADED after its own generation (runtime.py 84-87, 102-108).  *)
ReadyIsTrue ==
    ~CleanupMayFail /\ (Unpatched \/ MaxConcurrent = 1) => ReadyMeansLoaded

(* In resident mode the model, once loaded, is kept until shutdown; a PATCH *)
(* in progress excepted (runtime.py 102-108, runtime_mode.py 41-61).        *)
ResidentKeepsModel ==
    [][(/\ pc[Lifespan] \in {"serving", "draining"}
        /\ mode = "resident"
        /\ updateLock = None
        /\ model # None) => model' # None]_vars

(* When the process exits nothing is bound, no lease and no lock is held    *)
(* and every client that was let in has its answer, also when startup or    *)
(* the cleanup failed (main.py 38-43, gemma4_loader.py 49-53).              *)
ExitIsClean ==
    pc[Lifespan] = "stopped" =>
        /\ model = None /\ processor = None
        /\ loaderLock = None /\ loadLock = None /\ updateLock = None
        /\ permits = MaxConcurrent
        /\ \A r \in Reqs : pc[r] \in {"idle", "done"}

(* The number of model copies in memory, those pinned by the exceptions of  *)
(* answered requests included, is at most one.                              *)
SingleCopy == Cardinality(CopiesOf(Reqs)) <= 1

(* Every request that was let in is answered.                               *)
EveryRequestAnswered == \A r \in Reqs : pc[r] = "analyze" ~> pc[r] = "done"

(* A shutdown comes to its end: no order of the load lock, the loader's     *)
(* lock and the controller's lock makes the threads that it waits for wait  *)
(* for each other, also when loads fail (main.py 38-43, runtime.py 81-108). *)
ShutdownCompletes == pc[Lifespan] = "draining" ~> pc[Lifespan] = "stopped"
=============================================================================
