---------------------------- MODULE StatusProbes ----------------------------
(***************************************************************************)
(* GET /readyz and GET /v1/model/status beside the running service. Both   *)
(* collect the same data, each read at a moment of its own and without a   *)
(* lock: runtime.loaded, then runtime._status when nothing is loaded       *)
(* (dependency get_model_state, in a worker thread), then the controller's *)
(* snapshot (the handler, in a worker thread).                             *)
(*                                                                         *)
(*   probe: idle -> loaded -> snapshot -> answered                         *)
(*                     \-> status -/                                       *)
(*                                                                         *)
(* seen[p] is a history variable: what an instantaneous look would have    *)
(* answered at each moment since probe p came in. Nothing reads it.        *)
(***************************************************************************)
EXTENDS ParseServer

CONSTANT Probes

VARIABLES stage,             \* what each probe reads next
          view,              \* what it has read
          seen

probeVars == <<stage, view, seen>>

Stages == {"idle", "loaded", "status", "snapshot", "answered"}
View   == [status : Statuses, mode : Modes]

ProbeTypeOK == /\ stage \in [Probes -> Stages]
               /\ view \in [Probes -> View]
               /\ seen \in [Probes -> SUBSET View]

Underway == {p \in Probes : stage[p] \in {"loaded", "status", "snapshot"}}

Advance(p, next) == stage' = [stage EXCEPT ![p] = next]

Instant == [status |-> ReportedStatus, mode |-> snapshot.mode]

Observe == seen' = [p \in Probes |-> IF p \in Underway' THEN seen[p] \union {Instant'}
                                                        ELSE seen[p]]

-----------------------------------------------------------------------------
\* A probe comes in; get_model_state is called.
ProbeArrives(p) ==
    /\ stage[p] = "idle"
    /\ Serving
    /\ Advance(p, "loaded")
    /\ UNCHANGED view

\* runtime.status: self.loaded.
ReadLoaded(p) ==
    /\ stage[p] = "loaded"
    /\ IF Loaded
         THEN Advance(p, "snapshot") /\ view' = [view EXCEPT ![p].status = "ready"]
         ELSE Advance(p, "status") /\ UNCHANGED view

\* Mutated ReadStatus: the module's default state is answered.
ReadStatusDefault(p) ==
    /\ stage[p] = "status"
    /\ view' = [view EXCEPT ![p].status = "not_loaded"]
    /\ Advance(p, "snapshot")

\* runtime.status: self._status.
ReadStatus(p) ==
    /\ stage[p] = "status"
    /\ view' = [view EXCEPT ![p].status = status]
    /\ Advance(p, "snapshot")

\* The handler: runtime_mode.snapshot, and the answer.
ReadSnapshot(p) ==
    /\ stage[p] = "snapshot"
    /\ view' = [view EXCEPT ![p].mode = snapshot.mode]
    /\ Advance(p, "answered")

ProbeStep(p) == \/ ProbeArrives(p)
                \/ ReadLoaded(p)
                \/ ReadStatus(p)
                \/ ReadSnapshot(p)

\* A step of the service; uvicorn drains the probes as well.
ServerStep == /\ Next
              /\ Drained => Underway = {}
              /\ UNCHANGED <<stage, view>>

ProbesInit == /\ Init
              /\ stage = [p \in Probes |-> "idle"]
              /\ view = [p \in Probes |-> Instant]
              /\ seen = [p \in Probes |-> {}]

ProbesNext == /\ \/ ServerStep
                 \/ \E p \in Probes : ProbeStep(p) /\ UNCHANGED vars
              /\ Observe

ProbesSpec == ProbesInit /\ [][ProbesNext]_<<vars, probeVars>>

-----------------------------------------------------------------------------
\* ModelState.loaded
StateLoaded(v) == v.status = "ready"

\* _is_process_ready: whether readyz answers 200.
ProcessReady(v) ==
    \/ StateLoaded(v)
    \/ v.mode = "cold" /\ v.status \in {"not_loaded", "loading"}

(* With one generation at a time, the status a probe shows was the status   *)
(* at some moment while the probe was underway: reading loaded first and    *)
(* _status later, with no lock, never makes up an answer, whatever loads,   *)
(* unloads, failures and PATCH requests overlap with it (runtime.py 47-51,  *)
(* model_state.py 20-30).                                                   *)
ProbeIsHonest ==
    MaxConcurrent = 1 =>
        \A p \in Probes : stage[p] = "answered" =>
            \E s \in seen[p] : s.status = view[p].status

(* A 200 of readyz in resident mode is a promise for all later requests: as *)
(* long as nobody patches the mode, the model stays loaded until shutdown,  *)
(* through failing loads, generations and requests already underway         *)
(* (routes/status.py 28-46, 84-91, runtime.py 102-104).                     *)
ReadyIsKept ==
    (/\ Unpatched
     /\ mode = "resident"
     /\ pc[Lifespan] \in {"serving", "draining"}
     /\ \E p \in Probes : stage[p] = "answered" /\ ProcessReady(view[p])) => Loaded
=============================================================================
