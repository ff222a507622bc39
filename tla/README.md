# A specification of the image parsing server

The service takes an image over HTTP, analyses it deterministically, asks a
Gemma 4 vision model for a compact description, fuses the two and answers with
JSON. What is hard about it is not the analysis. It is one large object, the
model, that several threads load, use and unload while requests, mode changes,
failures and a shutdown happen around it, in a process that is sized for a
single copy of it. That is what most of the modules here are about. Two further
groups model the data of one request, where the order of the checks and the
reading of the model's text decide what a client is told, and the smoke script
that operates a whole service as its child process.

Paths below are relative to the repository's root; a number after a path is a line.

## 1. The system

| part | code | state it keeps | operations |
|---|---|---|---|
| generation lock | `app/model/generation_lock.py` | a bounded semaphore; `acquired` of each lease | `acquire` (non-blocking, blocking, timed), `release` |
| model loader | `app/model/gemma4_loader.py` | `model`, `processor`, `_load_lock` | `load`, `unload`, `loaded` |
| VLM runtime | `app/model/runtime.py` | `_status`, `_load_lock`, `mode`, `load_on_startup`, `unload_after_request` | `startup`, `ensure_loaded`, `after_request`, `unload`, `configure`, `status` |
| runtime mode controller | `app/services/runtime_mode.py`, `app/routes/status.py`, `app/schemas/status.py` | `_snapshot`, `_lock` | `update`, `snapshot` |
| settings | `app/core/config.py` | the environment, read once | the validator that derives `model_load_on_startup` |
| parse request | `app/routes/parse.py`, `app/services/compact_parse.py`, `app/model/gemma4_provider.py` | the locals of the coroutine and of the worker-thread call | `parse_image`, `__call__`, `_generate_and_parse` |
| application lifespan | `app/main.py` | which phase the process is in | startup load, serving, draining, unload at exit |
| status probes | `app/routes/status.py`, `app/services/model_state.py` | none | `healthz`, `readyz`, `model_status` |
| image validation | `app/parsers/image_validation.py` | none | `decode_image_upload` |
| deterministic analysis | `app/parsers/deterministic.py` | none | `analyze_image` |
| VLM output parsing | `app/parsers/vlm_compact.py` | none | `parse_vlm_compact_output` |
| fusion | `app/parsers/fusion.py` | none | `fuse_deterministic_with_vlm` |
| error contract | `app/core/errors.py`, `app/schemas/errors.py` | none | the AppError codes, the screen of details |
| thread pool | FastAPI's, used by `app/main.py`, `app/routes/` and `app/services/compact_parse.py` | the threads in use | runs synchronous dependencies, handlers and validation, `_app_error_handler` and `analyze_image` |
| GPU status | `app/model/gpu_status.py` | none | parses `nvidia-smi`; not called by the service |
| smoke script | `scripts/gpu_http_smoke.py` | the child process, the deadlines, the reports | start, wait until ready, post, watch the memory, close |
| packaging | `Dockerfile`, `compose.yaml` | none | one uvicorn worker |

**How they interact.** Everything happens in one process with one event loop.
`lifespan` (`app/main.py` 37-43) calls `runtime.startup` in a worker thread,
serves, and calls `runtime.unload` when uvicorn has drained. A parse request is a
coroutine. It runs `analyze_image` in the thread pool, takes a lease without
waiting, and then makes three hops to worker threads: `ensure_loaded`,
`_generate_and_parse` and `after_request`. At each hop, and at each statement
inside one, other requests may run. A PATCH of the runtime mode is a synchronous
handler in the thread pool: it holds the controller's lock while `configure`
waits for the runtime's lock, which a load holds for as long as it lasts.
`unload` takes only the loader's lock. The flags `mode` and
`unload_after_request` are written under the runtime's lock and read without it.

Everything synchronous that the web framework calls shares its thread pool, which
has a fixed number of threads: the dependencies of every endpoint, the synchronous
handlers and the validation of what they return, `_app_error_handler`, through
which every AppError goes, and the image analysis. The provider's worker threads
come from another executor.

**What makes each part correct, and what is hard about it.**

* *Generation lock*: permits are never lost or duplicated on any order of
  acquire, refusal, timeout, release and repeated release; a refusal happens only
  when every place is taken.
* *Loader*: one build at a time, never beside a bound copy; `model` and
  `processor` always from one build; a build that fails binds nothing and frees
  the lock.
* *Runtime*: loads are single-flight; LOADING and ERROR are honest although
  READY and NOT_LOADED are also written outside the lock; a failing load frees
  the lock for `configure` and for the next request.
* *Controller*: what it remembers and what the runtime does agree; each PATCH is
  answered with its own result.
* *Parse request*: the lease brackets the work on every path; a failing cleanup
  neither hides a result nor an error; with one generation at a time the model a
  request loaded is the one it generates on; memory never holds more copies than
  generations are allowed; cold mode leaves nothing loaded, resident mode keeps
  the model.
* *Thread pool*: handlers that wait for a load on a thread do not starve the
  load, nor each other, nor the calls that need the pool several times.
* *Image validation and analysis*: no work before the check that limits it; the
  palette shows the most frequent colours.
* *VLM output*: an object that the prompt asked for is read, and nothing is read
  out of the prompt, of a truncated object or of halves of two.
* *Fusion and error contract*: each field of an answer comes from the side that has
  precedence there; an error names something that is really wrong, and the
  service's own error details never fail its own screen.
* *Smoke script*: it ends whatever its child does, leaves no service behind that
  holds GPU memory, and passes only when everything it was asked for was seen.
* *Lifespan*: a stop at any moment, and a startup that fails, leave nothing
  bound, no lock held and nobody unanswered.

The hazards, each at its line and with the properties about it, are listed in
`PROJECT.json`.

## 2. The modules

```
AdmissionControl <-- implemented by -- GenerationLock <----------+
ModelHolder <------- implemented by -- Gemma4Loader              |
                                            ^                    |
                 VLMRuntime ----------------+                    |
                     ^                                           |
                 RuntimeModeController <------------------- ParseServer
                     ^                                      ^    ^    ^
                 MCRuntimeModeController                    |    |    MCParseServer
                                                            |    |
                             MCStatusProbes -> StatusProbes +    + ThreadPool <- MCThreadPool

GenerationLockProofs, RuntimeModeControllerProofs <- ParseServerProofs
                                                          ^
                                               ParseServerModelProofs
                                                   ^             ^
                                ParseServerOutcomeProofs   ProbesAndPoolProofs

ErrorContract <- ImageAnalysis, VLMOutput <- CompactParse <- MCCompactParse
                                                  ^
                                          CompactParseProofs

GpuHttpSmoke <- MCGpuHttpSmoke
      ^
GpuHttpSmokeProofs
```

An arrow points to the module that is extended; the proof modules also extend the
modules they are about. Each module adds the state of one component and
the statements that component executes; an action of a lower module leaves the
variables of the upper ones alone (`RuntimeStep`, `ControllerStep`,
`ServiceStep` say so).

**Threads and statements.** `Actors` are the threads of control: parse requests
(`Reqs`), PATCH requests (`Patches`) and the lifespan task. `pc[t]` is the
statement `t` executes next. A label is named after the call it belongs to, so
the path of a request can be read off the header comments: `analyze`, `acquire`,
`ensure`, ..., `read_processor`, `generate`, `after`, ..., `reply`, `done`.
`exc[t]` is the exception in flight, kept as the pending result until the
request is answered.

**Atomicity.** One statement that reads or writes shared state is one step.
Three merges are made, and each is sound for the properties checked:

* taking a lock goes with the first statement after it, dropping one with the
  last statement before it: what runs between the two is visible to nobody else;
* the assignment `self.model, self.processor = ...` is two steps, because
  a reader without the lock can come between its two stores;
* the property `loaded` reads two attributes but is one step: both attributes are
  bound in one order and unbound in the same order, so the two reads always give
  the answer of some instant between them.

`configure` is two steps (`ConfigureMode`, `ConfigureRest`) because
`after_request` reads `mode` and `unload_after_request` without the lock. The
two writes of `ConfigureRest` are one step: nothing reads `load_on_startup`
after startup. `after_request` is two reads (`AfterMode`, `AfterFlag`).

**GenerationLock / AdmissionControl.** `permits` is the semaphore's counter and
`lease[r]` the state of the last lease a caller asked for. `TryAcquire` is
`acquire(blocking=False)`, the form the provider uses; `BlockingAcquire`,
`Grant` and `GiveUp` are the other forms. `AdmissionControl` is the abstract
promise, a set of active clients and a set of refused ones. The mapping is
`active <- Held`, `refused <- {r : lease[r] = "busy"}`.

**Gemma4Loader.** A copy of the model is named after the actor whose call built
it, so that two copies can be told apart and none is invented. `BuildFails` has
the exceptions a load can raise. `ReleaseTensors` is `gc.collect` and
`empty_cache`, outside the lock; with `CleanupMayFail` it may raise.
`ModelHolder` is what the loader promises to those who read `loaded` without a
lock: a place for one copy, in which a copy is built only while the place is empty
and nobody else builds, appears as a whole, and is not dropped under a build. It
has four actions, each a single instant. The mapping is
`bound <- IF Loaded THEN model ELSE None`, and `builder` is the owner of the
loader's lock while it builds or binds. Each call of the code takes several
statements, of which one is the holder's step: the second store of a binding
shows the copy, the first store of an unbinding hides it.

**VLMRuntime.** The two looks at `loaded`, the writes of `_status` with and
without the lock, and the failure path of `ensure_loaded`; `after_request`,
`unload`, `configure`. `ReportedStatus` is the property `status`.

**RuntimeModeController.** `Settings` is the validator of the settings,
`NormalizeHotAlias` the validator of the request body, `Updated` the snapshot
that `update` builds. An optional value is a set with at most one element.
`UpdateEnter` ... `ConfigureMode` ... `UpdateReturn` run under the controller's
lock.

**ParseServer.** The composition. `Acquire` uses `TryAcquire`, `Finish` uses
`Release`. `frame[r]` holds the locals `model` and `processor` of
`_generate_and_parse`. On success they are gone when the call returns; on
failure they live as long as the exception does, because `primary_error`
(`gemma4_provider.py` 118, 121) and the traceback that leads back to the same
frame form a reference cycle. `Collected` is the `gc.collect` inside `unload`:
it frees the frames of answered requests, and not that of the request whose
cleanup is running, because its exception is still being handled. `Collect` is
the collector running by itself. A `TimeoutError` may be replaced on its way
through the event loop by one without the traceback, so both outcomes are
allowed for it. `Answer` is `_map_vlm_runtime_error` together with the except
clauses of `parse_image`.

**StatusProbes.** `readyz` and `model_status` collect the same data at three
moments: `loaded`, then `_status` if nothing is loaded, then the controller's
snapshot. `view[p]` is what probe `p` has read; `ProcessReady` is
`_is_process_ready`. `seen[p]` is a history variable with what every
moment since the probe came in would have answered; the program has no such thing.
The module adds probes to `ParseServer` and waits for them in `Drained`.

**ThreadPool.** The same service on the pool that FastAPI runs synchronous code
in. A call on it is a visit: it waits for a thread (`GetsThread`), runs, and gives
the thread back. `workers` are the clients whose present visit has a thread;
`ahead[c]` counts the visits that client `c` has to make before it goes on. `Owed`
says how many that are at the places where a client has some: before its work the
dependencies (settings, provider and service of a parse request; settings and
controller of a PATCH), after it the handler of the AppError, or the validation of
a PATCH's response. An upload that was rolled over to disk is written, read and
closed on the pool as well; one write stands for all its writes. `healthz`,
`readyz` and the model's status consist of visits only; what the latter two read is
`StatusProbes`' subject. These visits wait for nothing but their thread
(`VisitEnds`). Two more are part of the service's own steps (`Blocking`):
`analyze_image`, and `update`, which keeps its thread while it waits for the
controller's lock and for the runtime's. `Pooled` lets a client take such a step
only when its visits are made and it has a thread. The limiter is external, and
nothing is assumed of the order in which it serves those who wait.

**ErrorContract, ImageAnalysis, VLMOutput, CompactParse.** The data of one
request, from the bytes of the upload to the body of the answer. An upload is a
record of what Pillow (external) will make of its bytes: how `Image.open` and the
decoding end, the header, the pixels. `ImageAnalysis` has the checks in their
order, one action each, and `Palette`; `decoding` says that the pixels were
touched. A model's reply is a sequence of pieces (`VLMOutput`): prose, fences,
objects that fit the schema or do not, and the halves of an object that has a
fence inside a string. `TrimPromptTokens`, `ExtractJsonObject` and `Accepted` are
the three steps by which a reply becomes an output. `CompactParse` joins them
with `Fuse` and with `ErrorReply`, the screen that turns error details with an
unsafe key into an exception of its own. A key of the details is the set of its
words, because that is what the screen looks at. The provider may refuse, fail or
reply here as it likes; when it does which is `ParseServer`'s subject.

**GpuHttpSmoke.** The script and its children. `child[i]` is the service of
scenario `i`; it may become ready or not, exit at any moment, and ignore SIGTERM.
A loop that sleeps for a second counts its rounds; its deadline is after at most
`Polls` rounds and possibly before, since a request inside a round takes time.
An exception goes through `close()` (`close`, `reap`, `reap_killed`) and then out
of the script. What a 200 looks like to the checks is one of four kinds of answer.

uvicorn is external: `BeginShutdown` stops accepting, `Drained` waits for the
requests in progress. It is taken at its documented graceful behaviour, without
a limit on the time it waits.

## 3. The runs

| run | instance | question |
|---|---|---|
| `lock` | 4 callers, 2 permits, every form of acquire, unbounded repetition | are permits conserved; is AdmissionControl implemented |
| `loader` | 3 threads, load and unload in any order for ever, all faults | no build beside a bound copy, whole bindings; is ModelHolder implemented |
| `controller` | 2 threads, four calls in any order for ever, all 27 environments, 3 bodies | single-flight, honest status, agreement of snapshot and runtime |
| `server_concurrent` | limit 2; 3 requests, 4 environments, loads and generations that fail, no PATCH | cold and resident promises, copies in memory; do the unlocked writers of READY and NOT_LOADED leave a false READY |
| `server_live` | limit 1, a pool of one thread; 1 request with its file on disk, 1 PATCH, 1 call for `healthz`, `readyz` or the model's status, failing loads and cleanups, fairness | is everybody answered, with up to five visits to a pool that others block; does a shutdown end; can those who own a lock go on |
| `probes` | limit 1; 2 requests, 1 PATCH, 1 probe, failing loads, generations and cleanups, shutdown at any moment | is the shipped configuration safe: leases, answers, models; do the unlocked reads of a probe make up an answer; what is a 200 of `readyz` worth |
| `smoke` | five command lines, up to three scenarios, 3 polls per loop, release required | does the script end, clean up, and pass only when it should |
| `parse` | uploads faulty at every check alone and together, 8 pictures of 3 pixels, 1559 replies | order of checks, blame, palette, reading of replies, fusion |
| `resident_dropped` | violation | see section 5 |
| `second_copy` | violation | see section 5 |
| `stale_ready` | violation: limit 2, 2 requests, 1 PATCH | see section 5 |
| `no_timeout` | violation | see section 5 |

**The bounds.** They are the sizes of the sets in the .cfg files; the only
counter is `rounds` of the smoke script, capped by `Polls` in `InTime` as the
deadline caps it in the code. `lock`, `loader` and `controller` let their actors
call again and again, so the runs reach every state of those components for that
number of threads. The service runs give every client one request, since a second
request of the same client differs in nothing from that of another client. Two
requests are needed for a refusal with limit 1 and three with limit 2; a copy
that is unloaded under a running generation while a third request builds another
needs three requests. That a third copy cannot appear beside two that are still
in use would need a fourth; that, and every other number, is what the theorem
`CopiesStayWithinPermits` is for. One PATCH meets every phase of a load and of a
cleanup; two PATCH requests racing with each other are in the run `controller`.
The four environments of the service runs are cold with unload, cold without
unload and with a load at startup, plain resident, and resident without a load at
startup but with unload (a value that must not matter). A pool of one thread is
the hardest one, since a single PATCH that waits for a load then has all of it, and
every visit of everybody else waits for it.
In `server_live` one request is enough, because all that a client can meet on the
pool is a visit that ends at once or the PATCH that waits for that request's load;
the request is the one with the most visits, whose file is on disk. A refusal for
want of a lease waits for nothing, and happens in `probes` and `server_concurrent`.

In `parse`, the replies are all sequences of up to four pieces and four longer
ones; four pieces are what an object between fences with prose before it needs,
and the longer ones put fences inside, around and between objects. Three pixels
allow for one, two and three colours, ties, and transparent ones; with a palette
of two, the third colour has to be left out. In `smoke`, two scenarios are needed
for a child of one beside a child of the next, and a repetition is legal on the
command line. Two polls would do for a round in between; with three, a deadline
can pass before, at and after the last one.

**Where a run leaves something out.** `server_concurrent` has no PATCH requests:
`ResidentKeepsModel` is violated with them (`resident_dropped`), and
`ColdLeavesNothing` is about a fixed mode and says so. `ReadyMeansLoaded`, that a
service at rest reports READY only for a loaded model, is not kept by the code:
a cleanup that raises refutes it (`stale_ready`), and so do two generations at once
with a PATCH (section 5). `ReadyIsTrue` says under which conditions it holds: no
failing cleanup, and either no PATCH, at any limit, or a limit of one. The run
`server_concurrent` is the first case, with two writers that overlap; the second is
left to the theorem. No cleanup fails in that run for its sake: cleanups fail in
`probes` and `server_live`. `LeaseBracketsWork` and `CleanupMasksNothing`, which
cleanups that fail put at risk, are therefore checked in `probes`, with its limit of
one, and proved for every limit; `CopiesStayWithinPermits` and `ColdIsEmptyAtRest`
are proved whether cleanups fail or not. The copies that failed generations pin
after their answer are the subject of `second_copy`; `CopiesWithinPermits` counts the
requests that hold a lease. `MODEL_NOT_READY` cannot happen with limit 1 and does happen with limit 2,
where a cold cleanup may come between another request's `ensure_loaded` and its
generation; the code answers 503 for it deliberately, so no property forbids it.
At a limit above one nothing is said either of a NOT_LOADED that overwrites the
LOADING or ERROR of a later load.

`RepliesAreRead` speaks of replies with text around one object, which is bare, with
at most one fence in its strings, or stands between two fences. Of a bare
object with two fences in its strings nothing is said, because the code does not
read it: see section 5.

One probe is enough in `probes`, because probes write nothing that anybody reads.
`ProbeIsHonest` is stated for a limit of one: with two generations at once a late
NOT_LOADED may overwrite READY, and a probe that read `loaded` just before may
then show `not_loaded` although that was the status at no moment. Nor does it say
that status and mode were read at one moment: a PATCH to resident that overtakes a
probe in cold mode can make it answer 503, with the status from before and the mode
from after, although an answer at any single moment would have been 200.

**Symmetry.** `Permutations(Reqs)` in the safety runs of the service: no
property and no definition tells one request from another. None in the liveness
runs, where it would be unsound.

**Deadlock** is checked in every run. A service that has exited stutters in
`Terminated`; a service that could neither move nor exit would be reported.

**Fairness.** Weak fairness of every request's own steps, of every actor's steps
in the runtime, and of the lifespan: a worker thread that can run does run, and
the event loop resumes a task whose result is there. Weak fairness is enough for
the locks although a thread that waits for a lock is not continuously enabled:
each actor takes each lock finitely often, so from some moment on the lock stays
free. None is assumed of clients, of the operator, of PATCH requests being sent,
or of the garbage collector. The model's `generate` is assumed to return in
`FairSpec` and in `PoolSpec`, and not in `SlowModelSpec`; that is what makes
`no_timeout` fail. `PoolSpec` adds weak fairness of each client's `GetsThread` and
`VisitEnds`: a free thread is given to somebody who waits, and a visit ends. It is
enough although several wait for one thread, because each client makes finitely
many visits, and it asks for less than anyio's queue, which is first in, first out.
A load is assumed to end: while one hangs, as many PATCH requests as the pool has
threads occupy all of them, and then `healthz` is not answered either.
`SmokeSpec` is fair to the script and assumes nothing of its children: they may
hang for ever. It does assume that the script's own statements end, `nvidia-smi`
included, which the script calls without a timeout (`gpu_http_smoke.py` 342).
`parse` has no liveness.

## 4. What is proved

The proofs hold for every set of requests and PATCH requests, every limit
`MaxConcurrent >= 1`, every set of environments and faults. The assumptions are
those of the modules: the actors are the requests, the PATCH requests and the
lifespan, and they are disjoint; `None` is not an actor; the faults are among
the exceptions the code distinguishes; the limit is a positive integer, which
`Field(ge=1)` in the settings enforces. Nothing is assumed of fairness.

* `GenerationLockProofs`: `LockAccounts` (types, conservation of permits) and
  `LockImplementsAdmission`. The inductive invariant is
  `LockTypeOK /\ PermitsAccounted` over a finite set of lease holders: without
  conservation, `permits > 0` says nothing about how many leases are out.
* `RuntimeModeControllerProofs`: the loader, the runtime and the controller under
  any number of threads that call them in any order, the situation of the runs
  `loader` and `controller`: `LoaderKeepsOneCopy`, `LoaderImplementsHolder`,
  `ControllerTypeCorrect`, `ControllerLocksExclude`, `ControllerStatusIsHonest`,
  `UpdatesAreAtomic`, `RuntimeImplementsHolder`. The invariant has one conjunct
  per concern, and each is inductive beside the ones before it.
  * `Typed(L, E)`: types, over the labels and the exceptions of whoever calls.
  * `LocksOK`: the owner of each of the three locks is exactly the actor at a
    label inside its with block.
  * `BindingOK` strengthens `BindingWhole` and `BuildsOnEmpty` with what holds
    between the two stores of a binding (`model` is the builder's) and of an
    unbinding (`model` is None); that part is what `BindingWhole` needs at the end
    of a with block, and what lets the second store of a binding be the holder's
    step `Finish`.
  * `ConfigOK`: between `UpdateEnter` and `UpdateReturn` the snapshot is ahead of
    the runtime by what the owner of the controller's lock has not written yet;
    the label says what that is.
  * `StatusOK`: ERROR is never stored while a load runs, and at the label of a
    failed load nothing is loaded, since no other load can have run meanwhile.
    Without the first a load could bind a model under an ERROR.

  The lemmas about a statement (`ControllerStepType`, `ControllerStepLocks`,
  `ConfigService`, `StatusService`, `ControllerStepHolder`) leave open what else an
  actor does, so the service below uses the same ones.
* `ParseServerProofs`: `TypeCorrect`, `LocksExclude`, `BindingIsWhole`,
  `LeasesFollowRequests`, `ServerImplementsAdmission`, `ServerImplementsHolder`.
  The inductive invariant `IInv` joins the types, the accounting of permits,
  `LocksOK`, `BindingOK`, `RolesOK` (a request never executes a statement of
  `update`, a PATCH never one of the loader) and `LeaseBracketsWork`. There is
  one case per action.
* `ParseServerModelProofs`: what becomes of the bound model.
  * `ResidentModelStays`. While no PATCH was sent the mode cannot change
    (`UnpatchedBack`, from `RolesOK`); in resident mode `after_request` returns at
    once, so nobody is at a statement of `unload` (`NoUnload`) and nothing unbinds
    a model. `ServiceSteady` adds that READY is stored only when a model is loaded.
  * `SoleRequestKeepsModel`, and the half of `ReadyIsTrueAtRest` that is about a
    limit of one. With one permit, at most
    one request is admitted (`OneAdmitted`, from the accounting of permits); the
    lifespan loads and unloads only while no request is in progress
    (`LifespanAlone`); a PATCH never reaches the loader (`RolesOK`). So whoever is
    admitted is alone in the loader (`Alone`), finds it whole (`LoadedIsWhole`),
    and what it saw stays true until its own cleanup (`SerialOK`). `LoadedOK` says
    the same of the statuses about to be written: at the labels before READY the
    model is loaded, before the others it is not, and a READY that is no longer
    true belongs to an unload in progress.
  * The other half of `ReadyIsTrueAtRest`, for every limit until the first PATCH
    (`RestOK`). Requests overlap there, so nothing that one of them saw stays true.
    Either no request ever unloads, and then `LoadedUntilUnbound` keeps what was
    found loaded; or every request unloads, and then whoever may have written a
    READY still owes a NOT_LOADED (`Owes`): the debt of one request covers what
    another one has unloaded.
* `ProbesAndPoolProofs`: what surrounds the service.
  * `ReadyIsAPromise`, from `ServiceSteady` and what a probe has read so far
    (`ViewSteady`).
  * `ProbesAreHonest`, for a limit of one. Its invariant `Honest` keeps the status
    that a probe between its two reads would get among those shown since it came
    in: with `LoadedOK`, a status that is written is also shown.
  * `OwnersNeverStick`, the safety half of the argument that those who wait for a
    lock on a thread of the pool do not starve each other, for a pool of any size.
    A client has visits ahead of it only at four places, none of them inside a with
    block (`PoolInv`), and a PATCH enters the with block on a thread that it gives
    back only after the lock (`UpdateIsEntered`, `PooledKeepsInv`). So an owner has
    its thread or needs none. `OwnersAhead` adds the order of the locks: the
    controller's, the runtime's, the loader's. The other half, that owners then
    also go on, is liveness.
* `ParseServerOutcomeProofs`: what clients are told and what is left behind. Each
  section adds one conjunct to `IInv` and `LifespanAlone` (together `Base`) and
  shows it inductive beside them.
  * `SnapshotIsInForce`, `PatchGetsItsOwn`, `StatusIsHonest`: `ConfigOK` and
    `StatusOK` again, with the service's steps around the controller's
    (`OutsideStep`).
  * `AnswersAreDeserved` (`AnswerOK`): until its work is over a request has
    neither an exception nor an output, afterwards exactly one of the two.
  * `ExitLeavesNothing` (`ExitOK`): while the lifespan shuts down, requests are
    answered and PATCH requests returned, so nothing rebinds what it unbound.
  * `CopiesStayWithinPermits` (`CopyOK`): while a copy is bound, at most
    `MaxConcurrent - 1` admitted requests generate on another one, because
    whoever bound it holds a lease itself and had no copy of its own, or is the
    lifespan while there is no request. The bound itself is not inductive: it
    does not say that the next build has room.
  * `ColdIsEmptyAtRest` (`ColdOK`): without PATCH requests a copy bound in cold mode
    belongs to, or is left to, a request that has yet to unload. The load at startup
    is the exception, and it is over before anybody is served.
* `GpuHttpSmokeProofs`: `SmokeTypesHold`, `NoServiceIsLeft`, `ServersRunInTurn`,
  `SuccessIsEarned`, for every command line, number of polls and with or without
  the required release. The inductive invariant adds where the script is in its
  plan (`Position`: the children before the present one are gone, those after it
  not started, and a script that ended with a living child has killed it) and
  what the reports so far are worth (`Earned`).
* `CompactParseProofs`: `ParseTypesHold`, `LimitsComeFirst`, `BlameIsDeserved`,
  `PaletteHolds`, `RepliesAreReadHolds`, `FusionHolds`, for every upload, reply,
  output, exception and limit, for pictures with any number of pixels and replies
  of any length. `ParseInv` says at each stage which checks the upload has passed,
  and of an exception on its way to the client that it is deserved and that its
  details pass the screen. `ContentInv` says of each stage what has been read of
  the reply and what the answer was fused from. Under it are three lemmas about
  the model's operators:
  * `PaletteTakesTheFirst`: the colours shown are those ahead of all the others in
    the order of the counts, each once, whatever the ties;
  * `ReadableIsAccepted` and `WhatIsReadWasWritten`: a reply in a readable form is
    read as its object, and what is read is one fitting object that stands in the
    reply behind the prompt;
  * `FusedIsVisible`: every field of a fused answer comes from the side that has
    precedence, and both lists of warnings are in it.

  That a finite set of numbers has a least and a greatest one, that the fold that
  merges the warnings exists, and what it adds are inductions over data. The
  library states those with an operator parameter, which the provers cannot
  instantiate. The proofs take a smallest set among the counterexamples instead
  (`MinimalSet`, from well-foundedness of strict inclusion on finite sets), and
  derive the contradiction from it.

**Only model-checked.** Liveness, which is outside the reach of the prover:
`RequestsServed`, `PatchesServed`, `StatusServed`, `ShutdownCompletes` and
`SmokeEnds`. Of the safety properties that a passing run checks, all are also
theorems but `PoolTypeOK`, whose bound is the limiter's own guard.

## 5. Where the code and its documents disagree

* `resident_dropped` (`app/model/runtime.py` 103). `after_request` reads `mode`
  and then `unload_after_request`, and `unload` does not take the runtime's
  lock. A request that read cold and True before a PATCH to resident unloads the
  model after that PATCH was answered. `.env.example` 12 says that resident mode
  keeps the model for repeated parse calls. The next request loads it again.
* `second_copy` (`app/model/gemma4_provider.py` 118). After a failed generation
  the exception, its traceback and `primary_error` keep the unloaded model alive
  until a garbage collection after the answer. In cold mode with unload the next
  request builds a second copy beside it, with a limit of one.
  `docs/docker-linux-service.md` 3 says the host is sized for a single resident
  copy.
* `stale_ready` (`app/model/runtime.py` 107). If `empty_cache` raises, the model
  is unbound but NOT_LOADED is never written; the provider swallows the
  exception, and the service reports READY with nothing loaded, until the next
  request. `tests/test_vlm_runtime_modes.py` 70-71 expects `not_loaded`.
  The property has a second counterexample, in the same run with `CleanupMayFail`
  set to FALSE in its cfg (`app/model/runtime.py` 86). With two generations at
  once, a request finds the model loaded and is about to write READY; another one,
  which read cold before a PATCH to resident, unloads the model and writes
  NOT_LOADED; then the READY is written, for a model that is gone. The cleanup of
  the first request unloads nothing in resident mode, so the service rests at READY,
  and `/readyz` answers 200, with nothing loaded. Without the PATCH the first request
  would write NOT_LOADED itself, which is why `ReadyIsTrue` holds.
* `no_timeout` (`app/core/config.py` 30). `request_timeout_seconds` is never read:
  nothing bounds a generation, so one that hangs holds its lease for ever and
  every later request is answered PARSER_BUSY.

Two more, without a run:

* A fence is searched for before the brace, and in strings too
  (`app/parsers/vlm_compact.py` 32): a reply that is one valid JSON object, two of
  whose strings hold three backticks, is cut at them and answered VLM_INVALID_JSON.
  The prompt (`prompts/design_style_parser_compact_v1.txt` 30) asks for valid JSON
  only. It is why `ReadableForm` is what it is.
* `docs/docker-linux-service.md` 65 says that `/readyz` may return 503 while the
  resident model is loading. For the load at startup it does not return anything:
  the lifespan loads before uvicorn serves (`main.py` 39-41), so no endpoint
  answers until that load is over, `healthz` included. The 503 can be seen only
  during a load that a request or a later attempt causes. The smoke script, which
  waits through that load, takes a refused connection for "not yet", and `SmokeEnds`
  includes the startup that hangs.

## 6. What is not modelled

* Of the image analysis: the bounding box, the number of colours, rounding and
  the format of hex codes and ratios. No response shows the first two; the others
  are shown as they are.
* Of the model's output: json.loads and pydantic, as far as a piece of text is a
  fitting object, a misfit or broken. The asset type and the content layer are part
  of `Output` and, as in the code, of no answer: `fuse_deterministic_with_vlm` drops
  them after they were validated, and `AnswerIsFused` says so. JSON nested so deeply
  that the decoder raises RecursionError is left out.
* Prompt building, the status detail text, the request id: data that no property
  tells apart. The fields of the settings that only bound something are constants.
* The executor of `asyncio.to_thread` is not limited in the model. It has at
  least five threads, and with the shipped limit of one at most one request and
  the lifespan use it.
* The clients: a client that disconnects, and the cancellation of its task.
  Starlette runs the handler of an ordinary request to its end.
* The fallbacks for an application without a runtime or a controller
  (`runtime_mode.py`, `routes/status.py`), `process_ready` and
  `validate_image_upload`: unreachable under `create_app`, or used by tests only.
* A crash of the process: nothing is persisted, so a restart is `Init`.
* Of the smoke script: an `nvidia-smi` that hangs, which is called without a timeout
  (`gpu_http_smoke.py` 342) and would stop the script with its child alive;
  Ctrl-C; a foreign server on its port (the port is found free before it is used,
  and readyz does not say whose it is); a `Popen` that raises and leaves the log
  open. The first of the memory readings in a cold
  scenario is taken and never compared, in the code as in `Observe`. Two of the
  colours it looks for in an answer may also come from the measured palette; only
  its term for the shape shows that the model spoke. `Answers` takes the check as
  a whole.
* `gpu_status.py`: not called by the service or by the script; it turns a line of
  `nvidia-smi` into a record. The packaging: one uvicorn worker is what makes one
  process the whole system.

## 7. The plan

Done, in the order of importance: the lock with its abstraction; loader, runtime
and controller as modules checked alone and reused; their composition with safety
and liveness; the case of one generation; probes and the resident mode; the thread
pool; the data of a request; the smoke script; the proofs about answers, exit,
copies, configuration and status; the components under any order of calls, the
pool, the holder of the model, and the data of a request, proved; the status at rest
for every limit.

Left, should the code grow in that direction: a bound on generations, once
`request_timeout_seconds` is used. The late answer of a worker thread that nobody
waits for any more would then be the hazard.
