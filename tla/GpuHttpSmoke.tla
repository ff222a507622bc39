---------------------------- MODULE GpuHttpSmoke ----------------------------
(***************************************************************************)
(* scripts/gpu_http_smoke.py: an operator's script that starts the service *)
(* once per scenario, waits until readyz answers 200, posts one image,     *)
(* checks the answer, in the cold scenario watches the GPU memory, and     *)
(* stops the service again.                                                *)
(*                                                                         *)
(*   preflight -> spawn -> wait -> [measure ->] post -> judge              *)
(*        -> [observe -> watch -> require ->] close -> reap -> reap_killed *)
(*        -> closed -> spawn ... -> ended                                  *)
(*                                                                         *)
(* child[i] is the process of scenario i. It is not trusted: it may hang,  *)
(* crash, never become ready, and ignore SIGTERM for as long as it likes.  *)
(* Seconds are counted by polls: every round of a loop sleeps for one, so  *)
(* a deadline passes after at most Polls rounds, and possibly before.      *)
(* A raised exception is raised = TRUE; it leaves the with block through   *)
(* close().                                                                *)
(***************************************************************************)
EXTENDS Naturals, Sequences, FiniteSets

CONSTANTS ScenarioArgs,      \* the values of --scenario the script may be given
          RequireRelease,    \* --require-cold-vram-release
          Polls

Scenarios == {"resident-warm", "cold-unload"}

ASSUME SmokeAssumption == /\ ScenarioArgs \subseteq Seq(Scenarios \union {"all"})
                          /\ RequireRelease \in BOOLEAN
                          /\ Polls \in Nat \ {0}

VARIABLES plan,              \* the scenarios to run, in order
          at,                \* the index of the present one
          step, raised,
          child,             \* child[i]: none, starting, serving or exited
          signal,            \* the strongest signal sent to child i
          rounds,            \* the rounds of the present loop so far
          noted,             \* what the present scenario has learnt
          results            \* the reports collected by main()

scriptVars == <<step, raised, at, rounds, noted, results>>
smokeVars  == <<plan, scriptVars, child, signal>>

\* How a 200 of POST /v1/parse/compact may look to the checks: the image
\* described by the VLM, a well-formed answer that does not describe it, an
\* answer with warnings (the fallback has one), and the wrong dimensions.
Answers == {"described", "undescribed", "warned", "wrong_size"}

Note     == [answer : Answers \union {"none"}, slow : BOOLEAN, heavy : BOOLEAN, released : BOOLEAN]
Report   == [scenario : Scenarios, answer : Answers, released : BOOLEAN]
Unnoted  == [answer |-> "none", slow |-> FALSE, heavy |-> FALSE, released |-> FALSE]

Steps == {"preflight", "spawn", "wait", "measure", "post", "judge", "observe", "watch",
          "require", "close", "reap", "reap_killed", "closed", "ended"}

SmokeTypeOK == /\ plan \in Seq(Scenarios)
               /\ at \in 1..(Len(plan) + 1)
               /\ step \in Steps
               /\ raised \in BOOLEAN
               /\ child \in [DOMAIN plan -> {"none", "starting", "serving", "exited"}]
               /\ signal \in [DOMAIN plan -> {"none", "term", "kill"}]
               /\ rounds \in 0..Polls
               /\ noted \in Note
               /\ results \in Seq(Report)

Alive(i) == child[i] \in {"starting", "serving"}

\* The deadline of the present loop need not have passed.
InTime == rounds < Polls

\* Mutated Chosen: "all" is not expanded.
ChosenVerbatim(args) == args

\* "all" among the arguments stands for both scenarios.
Chosen(args) == IF \E i \in DOMAIN args : args[i] = "all"
                  THEN <<"resident-warm", "cold-unload">>
                  ELSE args

-----------------------------------------------------------------------------
\* A child as the script sees it. Startup in resident mode loads the model
\* before it serves; a process that serves answers readyz with 200.
ChildServes(i) ==
    /\ child[i] = "starting"
    /\ child' = [child EXCEPT ![i] = "serving"]
    /\ UNCHANGED <<plan, scriptVars, signal>>

\* A failed startup, a crash, or the end after a signal.
ChildExits(i) ==
    /\ Alive(i)
    /\ child' = [child EXCEPT ![i] = "exited"]
    /\ UNCHANGED <<plan, scriptVars, signal>>

-----------------------------------------------------------------------------
\* An exception inside the with block.
Fail == /\ step' = "close"
        /\ raised' = TRUE
        /\ UNCHANGED <<plan, at, child, signal, rounds, noted, results>>

\* main(): no image, no nvidia-smi, or a GPU in use ends the script at once.
Preflight ==
    /\ step = "preflight"
    /\ \/ step' = "spawn" /\ UNCHANGED raised
       \/ step' = "ended" /\ raised' = TRUE
    /\ UNCHANGED <<plan, at, child, signal, rounds, noted, results>>

\* The next scenario's _ServerProcess is constructed ...
Spawn ==
    /\ step = "spawn"
    /\ at \in DOMAIN plan
    /\ child' = [child EXCEPT ![at] = "starting"]
    /\ step' = "wait"
    /\ rounds' = 0
    /\ noted' = Unnoted
    /\ UNCHANGED <<plan, at, raised, signal, results>>

\* ... or cannot be, before there is a with block to leave.
SpawnFails ==
    /\ step = "spawn"
    /\ at \in DOMAIN plan
    /\ step' = "ended"
    /\ raised' = TRUE
    /\ UNCHANGED <<plan, at, child, signal, rounds, noted, results>>

\* Every scenario is done: the reports are printed, exit status 0.
PrintReports ==
    /\ step = "spawn"
    /\ at \notin DOMAIN plan
    /\ step' = "ended"
    /\ UNCHANGED <<plan, at, raised, child, signal, rounds, noted, results>>

\* wait_ready: the deadline has passed, or the poll finds that it exited.
WaitFails ==
    /\ step = "wait"
    /\ \/ rounds > 0
       \/ child[at] = "exited"
    /\ Fail

\* Mutated WaitRetries: the deadline is computed anew in every round.
WaitRetriesForever ==
    /\ step = "wait"
    /\ child[at] # "exited"
    /\ rounds' = IF InTime THEN rounds + 1 ELSE 0
    /\ UNCHANGED <<plan, step, at, raised, child, signal, noted, results>>

\* readyz did not answer, or not with 200: another round after a second.
WaitRetries ==
    /\ step = "wait"
    /\ InTime
    /\ child[at] # "exited"
    /\ rounds' = rounds + 1
    /\ UNCHANGED <<plan, step, at, raised, child, signal, noted, results>>

WaitReady ==
    /\ step = "wait"
    /\ InTime
    /\ child[at] = "serving"
    /\ step' = IF plan[at] = "resident-warm" THEN "measure" ELSE "post"
    /\ UNCHANGED <<plan, at, raised, child, signal, rounds, noted, results>>

\* _run_resident_warm reads the GPU memory of the loaded service.
Measure ==
    /\ step = "measure"
    /\ \E heavy \in BOOLEAN : noted' = [noted EXCEPT !.heavy = heavy]
    /\ step' = "post"
    /\ UNCHANGED <<plan, at, raised, child, signal, rounds, results>>

\* _post_parse got a 200.
PostAnswered ==
    /\ step = "post"
    /\ child[at] = "serving"
    /\ \E answer \in Answers, slow \in BOOLEAN :
          noted' = [noted EXCEPT !.answer = answer, !.slow = slow]
    /\ step' = "judge"
    /\ UNCHANGED <<plan, at, raised, child, signal, rounds, results>>

\* nvidia-smi, or the post, raises: no answer in time, or an error status.
ReadingOrPostFails == step \in {"measure", "post", "observe", "watch"} /\ Fail

\* Mutated Acceptable: warnings are let pass.
AcceptableWithWarnings(n) == n.answer \in {"described", "warned"} /\ ~n.slow

\* _assert_compact_parse_response and the limit on the elapsed time.
Acceptable(n) == n.answer = "described" /\ ~n.slow

JudgeFails == step = "judge" /\ ~(Acceptable(noted) /\ ~noted.heavy) /\ Fail

\* The scenario returns its report; the with block is left normally.
Reported == /\ results' = Append(results, [scenario |-> plan[at], answer |-> noted.answer,
                                           released |-> noted.released])
            /\ step' = "close"
            /\ UNCHANGED <<plan, at, raised, child, signal, rounds, noted>>

JudgeWarm == /\ step = "judge"
             /\ plan[at] = "resident-warm"
             /\ Acceptable(noted) /\ ~noted.heavy
             /\ Reported

JudgeCold ==
    /\ step = "judge"
    /\ plan[at] = "cold-unload"
    /\ Acceptable(noted)
    /\ step' = "observe"
    /\ UNCHANGED <<plan, at, raised, child, signal, rounds, noted, results>>

\* _observe_vram_release: one reading that is not compared ...
Observe ==
    /\ step = "observe"
    /\ step' = "watch"
    /\ rounds' = 0
    /\ UNCHANGED <<plan, at, raised, child, signal, noted, results>>

\* ... then one a second, until one is low enough or the deadline has passed.
WatchRetries ==
    /\ step = "watch"
    /\ InTime
    /\ rounds' = rounds + 1
    /\ UNCHANGED <<plan, step, at, raised, child, signal, noted, results>>

WatchEnds ==
    /\ step = "watch"
    /\ \E released \in BOOLEAN : /\ released => InTime
                               /\ noted' = [noted EXCEPT !.released = released]
    /\ step' = "require"
    /\ UNCHANGED <<plan, at, raised, child, signal, rounds, results>>

RequireFails == step = "require" /\ RequireRelease /\ ~noted.released /\ Fail

RequireHolds == step = "require" /\ (RequireRelease => noted.released) /\ Reported

-----------------------------------------------------------------------------
\* close(): nothing to do for a child that is gone ...
CloseExited ==
    /\ step = "close"
    /\ child[at] = "exited"
    /\ step' = "closed"
    /\ UNCHANGED <<plan, at, raised, child, signal, rounds, noted, results>>

\* ... otherwise terminate().
Terminate ==
    /\ step = "close"
    /\ child[at] # "exited"
    /\ signal' = [signal EXCEPT ![at] = "term"]
    /\ step' = "reap"
    /\ UNCHANGED <<plan, at, raised, child, rounds, noted, results>>

\* wait() returns: the child has been reaped.
Reap ==
    /\ step \in {"reap", "reap_killed"}
    /\ child[at] = "exited"
    /\ step' = "closed"
    /\ UNCHANGED <<plan, at, raised, child, signal, rounds, noted, results>>

\* Mutated Kill: TimeoutExpired leaves close().
KillForgotten ==
    /\ step = "reap"
    /\ step' = "ended"
    /\ raised' = TRUE
    /\ UNCHANGED <<plan, at, child, signal, rounds, noted, results>>

\* 20 seconds were not enough: kill().
Kill ==
    /\ step = "reap"
    /\ signal' = [signal EXCEPT ![at] = "kill"]
    /\ step' = "reap_killed"
    /\ UNCHANGED <<plan, at, raised, child, rounds, noted, results>>

\* Mutated ReapFails: the second TimeoutExpired is swallowed.
ReapFailsSilently ==
    /\ step = "reap_killed"
    /\ step' = "closed"
    /\ UNCHANGED <<plan, at, raised, child, signal, rounds, noted, results>>

\* Nor were another 10: TimeoutExpired leaves close() and the script.
ReapFails ==
    /\ step = "reap_killed"
    /\ step' = "ended"
    /\ raised' = TRUE
    /\ UNCHANGED <<plan, at, child, signal, rounds, noted, results>>

\* The with block is over: the exception goes on, or main() does.
Closed ==
    /\ step = "closed"
    /\ IF raised THEN step' = "ended" /\ UNCHANGED at
                 ELSE step' = "spawn" /\ at' = at + 1
    /\ UNCHANGED <<plan, raised, child, signal, rounds, noted, results>>

ScriptStep == \/ Preflight \/ Spawn \/ SpawnFails \/ PrintReports
              \/ WaitFails \/ WaitRetries \/ WaitReady
              \/ Measure \/ PostAnswered \/ ReadingOrPostFails
              \/ JudgeFails \/ JudgeWarm \/ JudgeCold
              \/ Observe \/ WatchRetries \/ WatchEnds
              \/ RequireFails \/ RequireHolds
              \/ CloseExited \/ Terminate \/ Reap \/ Kill \/ ReapFails \/ Closed

\* The script has exited; a killed child may linger.
ScriptEnded == step = "ended" /\ UNCHANGED smokeVars

SmokeInit ==
    /\ \E args \in ScenarioArgs : plan = Chosen(args)
    /\ at = 1
    /\ step = "preflight"
    /\ raised = FALSE
    /\ child = [i \in DOMAIN plan |-> "none"]
    /\ signal = [i \in DOMAIN plan |-> "none"]
    /\ rounds = 0
    /\ noted = Unnoted
    /\ results = <<>>

SmokeNext == \/ ScriptStep
             \/ ScriptEnded
             \/ \E i \in DOMAIN plan : ChildServes(i) \/ ChildExits(i)

\* The script's own statements end, the readings of nvidia-smi (which have no
\* timeout) included. Nothing is assumed of the children.
SmokeSpec == SmokeInit /\ [][SmokeNext]_smokeVars /\ WF_smokeVars(ScriptStep)

-----------------------------------------------------------------------------
Passed == step = "ended" /\ ~raised

(* However the script ends, no service it started is left running unkilled  *)
(* with the GPU memory it holds: whatever raised, and whatever the child    *)
(* did with its SIGTERM (gpu_http_smoke.py 126-134, 241-245, 264-272).      *)
NoOrphan == step = "ended" => \A i \in DOMAIN plan : Alive(i) => signal[i] = "kill"

(* Two services never run at once, so the cold scenario's memory readings,  *)
(* and the limits on them, are about its own child: the next scenario waits *)
(* until the one before was reaped (gpu_http_smoke.py 40-46, 264-272).      *)
OneServerAtATime == \A i, j \in DOMAIN plan : Alive(i) /\ Alive(j) => i = j

(* Exit status 0 is earned: every scenario asked for, in its order, has a   *)
(* report from a request the VLM answered without a warning, the release    *)
(* was seen where it is required, and every child is gone                   *)
(* (gpu_http_smoke.py 39-49, 168-179, 297-317).                             *)
PassIsEarned ==
    Passed => /\ Len(results) = Len(plan)
              /\ \A i \in DOMAIN plan :
                    /\ results[i].scenario = plan[i]
                    /\ results[i].answer = "described"
                    /\ RequireRelease /\ plan[i] = "cold-unload" => results[i].released
                    /\ child[i] = "exited"

(* The script ends although a child may hang, in its startup load (when not *)
(* even healthz is answered), in a generation, or in its shutdown           *)
(* (gpu_http_smoke.py 247-262, 283-285, 264-272; main.py 39-41).            *)
SmokeEnds == <>(step = "ended")
=============================================================================
