----------------------------- MODULE ThreadPool -----------------------------
(***************************************************************************)
(* The service on the thread pool that FastAPI runs synchronous code in.   *)
(* One limited pool serves the synchronous dependencies of every endpoint, *)
(* the synchronous endpoints and the validation of what they return, the   *)
(* handler that every AppError goes through, the file of an upload that    *)
(* was rolled over to disk, and analyze_image (run_in_threadpool). The     *)
(* provider's asyncio.to_thread calls run on another executor and are not  *)
(* limited here.                                                           *)
(*                                                                         *)
(* Each of these calls is a visit: it waits for a thread, runs on it, and  *)
(* gives it back. ahead[c] counts the visits client c has to make before   *)
(* it goes on, in the order of FastAPI, which knows of no parallel ones:   *)
(*   request:  dependencies -> analyze (a visit) -> ... -> done            *)
(*                          -> error handler -> answered                   *)
(*   patch:    dependencies -> update ... patched (one visit)              *)
(*                          -> validation -> answered                      *)
(*   status call: dependencies, handler, validation -> answered            *)
(* A PATCH keeps its thread from before update() until it returns, also    *)
(* while it waits for the controller's lock or for a load to give up       *)
(* _load_lock; the other visits wait for nothing.                          *)
(***************************************************************************)
EXTENDS ParseServer

CONSTANTS PoolSize,          \* the tokens of anyio's limiter, 40 in the service
          StatusCalls,       \* the GET requests for healthz, readyz, the model's status
          SpooledUploads     \* the requests whose upload does not stay in memory

ASSUME PoolAssumption == /\ PoolSize \in Nat \ {0}
                         /\ StatusCalls \intersect Actors = {}
                         /\ SpooledUploads \subseteq Reqs

VARIABLES workers,           \* whose visit each busy thread of the pool is
          ahead,
          called             \* the status calls that came in

poolVars == <<workers, ahead, called>>

PoolClients == Reqs \union Patches \union StatusCalls

\* The visits of the endpoints of routes/status.py: settings (the override of
\* create_app), the handler and the validation of its response; readyz and the
\* model's status depend on the model's state and on the controller as well.
HealthVisits == 3
StatusVisits == 5

\* The settings, the provider and the service. An upload on disk is written,
\* read and closed on the pool; one write stands for all of them.
ParseDependencies(r) == 3 + IF r \in SpooledUploads THEN 2 ELSE 0
AfterParse(r)        == IF r \in SpooledUploads THEN 1 ELSE 0

\* The settings and the controller.
PatchDependencies == 2

PoolTypeOK == /\ workers \in SUBSET PoolClients
              /\ Cardinality(workers) <= PoolSize
              /\ ahead \in [PoolClients -> 0..StatusVisits]
              /\ called \in SUBSET StatusCalls

\* The visits of client t before it goes on from where it has come to.
Owed(t) ==
    CASE pc[t] = "analyze" -> ParseDependencies(t)
      [] pc[t] = "done"    -> AfterParse(t) + IF outcome[t] \in {"fused", "fallback"} THEN 0 ELSE 1
      [] pc[t] = "update"  -> PatchDependencies
      [] pc[t] = "patched" -> 1
      [] OTHER             -> 0

\* Mutated Blocking: a handler that takes its lock first and a thread later.
BlockingLate(t) == pc[t] \in {"analyze"} \union UpdateHolding

\* The clients at a visit that is part of the service's own steps.
Blocking(t) == pc[t] \in {"analyze", "update"} \union UpdateHolding

\* The clients whose next statement, or present call, is the pool's business.
InPool(t) == \/ ahead[t] > 0
             \/ t \notin StatusCalls /\ Blocking(t)

-----------------------------------------------------------------------------
\* Mutated GetsThread: the limiter is not asked.
GetsThreadUnlimited(t) ==
    /\ InPool(t)
    /\ t \notin workers
    /\ workers' = workers \union {t}
    /\ UNCHANGED <<ahead, called, vars>>

\* The limiter has a token: the call of t is given a thread.
GetsThread(t) ==
    /\ InPool(t)
    /\ t \notin workers
    /\ Cardinality(workers) < PoolSize
    /\ workers' = workers \union {t}
    /\ UNCHANGED <<ahead, called, vars>>

\* Mutated VisitEnds: the token is not given back.
VisitEndsKeepingThread(t) ==
    /\ t \in workers
    /\ ahead[t] > 0
    /\ ahead' = [ahead EXCEPT ![t] = @ - 1]
    /\ UNCHANGED <<workers, called, vars>>

\* A dependency, handler or validation returns, and gives its thread back.
VisitEnds(t) ==
    /\ t \in workers
    /\ ahead[t] > 0
    /\ ahead' = [ahead EXCEPT ![t] = @ - 1]
    /\ workers' = workers \ {t}
    /\ UNCHANGED <<called, vars>>

\* A step of the service. A client goes on when it has no visit ahead, and when
\* it is at one of the service's own it goes on from a thread, which it gives
\* back unless the call goes on; uvicorn drains every visit.
Pooled(A) ==
    LET moved == {t \in Reqs \union Patches : pc'[t] # pc[t]}
    IN  /\ A
        /\ \A t \in moved : ahead[t] = 0 /\ (InPool(t) => t \in workers)
        /\ Drained => \A t \in PoolClients : ahead[t] = 0
        /\ ahead' = [t \in PoolClients |-> IF t \in moved THEN Owed(t)' ELSE ahead[t]]
        /\ workers' = workers \ {t \in moved : pc'[t] \notin UpdateHolding}
        /\ UNCHANGED called

\* A client asks for healthz, for readyz or for the model's status.
StatusCallArrives(h) ==
    /\ h \notin called
    /\ Serving
    /\ called' = called \union {h}
    /\ \E visits \in {HealthVisits, StatusVisits} : ahead' = [ahead EXCEPT ![h] = visits]
    /\ UNCHANGED <<workers, vars>>

PoolInit == /\ Init
            /\ workers = {}
            /\ ahead = [t \in PoolClients |-> 0]
            /\ called = {}

PoolNext == \/ Pooled(Next)
            \/ \E t \in PoolClients : GetsThread(t) \/ VisitEnds(t)
            \/ \E h \in StatusCalls : StatusCallArrives(h)

(* As ParseServer!Fairness; in addition the limiter hands out the tokens it *)
(* has, and a call that got a thread returns. Nothing is assumed of the     *)
(* order in which the limiter serves the calls that wait.                   *)
PoolFairness ==
    /\ \A r \in Reqs : WF_<<vars, poolVars>>(Pooled(RequestStep(r)))
    /\ \A t \in Actors : WF_<<vars, poolVars>>(Pooled(ServiceStep(t)))
    /\ WF_<<vars, poolVars>>(Pooled(LifespanStep))
    /\ \A t \in PoolClients : WF_<<vars, poolVars>>(GetsThread(t))
    /\ \A t \in PoolClients : WF_<<vars, poolVars>>(VisitEnds(t))

PoolSpec == PoolInit /\ [][PoolNext]_<<vars, poolVars>> /\ PoolFairness

-----------------------------------------------------------------------------
\* Who owns the lock that t's next statement takes.
Awaited(t) == CASE pc[t] = "update"                       -> updateLock
                [] pc[t] \in {"configure", "ensure_wait"} -> loadLock
                [] pc[t] \in {"load_lock", "unload"}      -> loaderLock
                [] OTHER                                  -> None

InFrontOf(t) == IF Awaited(t) = None THEN t ELSE Awaited(t)

(* Whoever owns a lock - the controller's, _load_lock or the loader's - has *)
(* the thread it needs or needs none, and if it waits for another of the    *)
(* locks, the end of that queue is an owner that waits for none. So the     *)
(* PATCH requests that keep the threads of the pool while they wait never   *)
(* wait for each other or for a thread: the locks are taken in one order,   *)
(* the first of them inside the visit, and a load runs on the other         *)
(* executor (routes/status.py 68-77, runtime_mode.py 41-61, runtime.py      *)
(* 76-108, gemma4_loader.py 39-55, gemma4_provider.py 107-113).             *)
OwnersGoOn ==
    \A t \in {updateLock, loadLock, loaderLock} \ {None} :
        /\ t \in PoolClients /\ InPool(t) => t \in workers
        /\ Awaited(InFrontOf(InFrontOf(t))) = None

(* A parse request that was let in is answered, errors through the error    *)
(* handler included, also when the only thread of the pool is taken by a    *)
(* PATCH that waits for the load of this very request: between its visits   *)
(* the request needs no thread of this pool, so the load ends, the PATCH    *)
(* with it, and the thread comes back (main.py 59-71, routes/parse.py       *)
(* 11-51, compact_parse.py 36-49, gemma4_provider.py 107-113).              *)
RequestsServed == \A r \in Reqs : pc[r] = "analyze" ~> pc[r] = "done" /\ ahead[r] = 0

(* A PATCH that was let in is answered: neither the order of the locks nor  *)
(* the threads that the others keep while they wait stops it                *)
(* (routes/status.py 68-82, runtime_mode.py 41-61, 68-77).                  *)
PatchesServed == \A p \in Patches : pc[p] = "update" ~> pc[p] = "patched" /\ ahead[p] = 0

(* A status call that was let in is answered, whatever the PATCH requests   *)
(* and loads that it meets in the pool wait for (routes/status.py 19-65,    *)
(* model_state.py 23-32).                                                   *)
StatusServed == \A h \in StatusCalls : ahead[h] > 0 ~> ahead[h] = 0
=============================================================================
