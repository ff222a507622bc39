------------------------- MODULE GpuHttpSmokeProofs -------------------------
(***************************************************************************)
(* Proofs about GpuHttpSmoke, for every list of scenarios, every number of *)
(* polls, with and without the release requirement.                        *)
(*                                                                         *)
(* Position says where the children are: those of earlier scenarios are    *)
(* gone, those of later ones do not exist, so the only process the script  *)
(* has to account for is the present one, and each step tells how far it   *)
(* has been dealt with. Earned says the same of the reports.               *)
(***************************************************************************)
EXTENDS GpuHttpSmoke, SequenceTheorems, TLAPS

Closing == {"close", "reap", "reap_killed", "closed"}

Position ==
    /\ \A i \in DOMAIN plan : i < at => child[i] = "exited"
    /\ \A i \in DOMAIN plan : i > at => child[i] = "none"
    /\ step \in {"preflight", "spawn"} => \A i \in DOMAIN plan : i = at => child[i] = "none"
    /\ step \notin {"preflight", "spawn", "ended"} => at \in DOMAIN plan
    /\ step = "closed" => child[at] = "exited"
    /\ step = "reap_killed" => signal[at] = "kill"
    /\ NoOrphan

EarnedReport(i) ==
    /\ results[i].scenario = plan[i]
    /\ results[i].answer = "described"
    /\ RequireRelease /\ plan[i] = "cold-unload" => results[i].released

Earned ==
    /\ raised => step \in Closing \union {"ended"}
    /\ \A i \in 1..Len(results) : EarnedReport(i)
    /\ ~raised => Len(results) = IF step \in Closing THEN at ELSE at - 1
    /\ step \in {"observe", "watch", "require"} =>
          noted.answer = "described" /\ plan[at] = "cold-unload"
    /\ step = "ended" /\ ~raised => at = Len(plan) + 1

SmokeInv == SmokeTypeOK /\ Position /\ Earned

-----------------------------------------------------------------------------
\* The scenarios that are run are the two the script knows.
LEMMA ChosenScenarios ==
  ASSUME NEW args \in ScenarioArgs
  PROVE  Chosen(args) \in Seq(Scenarios)
PROOF
<1>1. CASE \E i \in DOMAIN args : args[i] = "all"
  <2>1. Chosen(args) = <<"resident-warm", "cold-unload">>
    BY <1>1 DEF Chosen
  <2> QED
    BY <2>1 DEF Scenarios
<1>2. CASE \A i \in DOMAIN args : args[i] # "all"
  <2>1. args \in Seq(Scenarios \union {"all"})
    BY SmokeAssumption
  <2>2. Len(args) \in Nat /\ args \in [1..Len(args) -> Scenarios]
    BY <1>2, <2>1
  <2> QED
    BY <1>2, <2>2, SeqDef DEF Chosen
<1> QED
  BY <1>1, <1>2

LEMMA SmokeStart == SmokeInit => SmokeInv
PROOF
<1> SUFFICES ASSUME SmokeInit
             PROVE  SmokeInv
  OBVIOUS
<1>1. plan \in Seq(Scenarios)
  BY ChosenScenarios DEF SmokeInit
<1>2. SmokeTypeOK
  <2>1. noted \in Note
    BY DEF SmokeInit, Note, Unnoted
  <2>2. results \in Seq(Report)
    <3>1. <<>> \in Seq(Report)
      BY EmptySeq
    <3> QED
      BY <3>1 DEF SmokeInit
  <2>3. at \in 1..(Len(plan) + 1) /\ rounds \in 0..Polls
    <3>1. Len(plan) \in Nat
      BY <1>1
    <3> QED
      BY <3>1, SmokeAssumption DEF SmokeInit
  <2>4. /\ child \in [DOMAIN plan -> {"none", "starting", "serving", "exited"}]
        /\ signal \in [DOMAIN plan -> {"none", "term", "kill"}]
    BY DEF SmokeInit
  <2> QED
    BY <1>1, <2>1, <2>2, <2>3, <2>4 DEF SmokeInit, SmokeTypeOK, Steps
<1>3. Position
  BY <1>1 DEF SmokeInit, Position, NoOrphan
<1>4. Earned
  BY <1>1 DEF SmokeInit, Earned, Closing
<1> QED
  BY <1>2, <1>3, <1>4 DEF SmokeInv

LEMMA SmokeTypeStep ==
  ASSUME SmokeTypeOK, Position, Earned, [SmokeNext]_smokeVars
  PROVE  SmokeTypeOK'
PROOF
<1>1. CASE ScriptStep
  <2> USE SmokeAssumption
  <2>1. CASE Preflight
    BY <2>1 DEF Preflight, SmokeTypeOK, Position, Steps, Note, Unnoted, Answers, Earned
  <2>2. CASE Spawn
    BY <2>2 DEF Spawn, SmokeTypeOK, Position, Steps, Note, Unnoted, Answers, Earned
  <2>3. CASE SpawnFails
    BY <2>3 DEF SpawnFails, SmokeTypeOK, Position, Steps, Note, Unnoted, Answers, Earned
  <2>4. CASE PrintReports
    BY <2>4 DEF PrintReports, SmokeTypeOK, Position, Steps, Note, Unnoted, Answers, Earned
  <2>5. CASE WaitFails
    BY <2>5 DEF WaitFails, Fail, SmokeTypeOK, Position, Steps, Note, Unnoted, Answers, Earned
  <2>6. CASE WaitRetries
    BY <2>6 DEF WaitRetries, InTime, SmokeTypeOK, Position, Steps, Note, Unnoted, Answers, Earned
  <2>7. CASE WaitReady
    BY <2>7 DEF WaitReady, InTime, SmokeTypeOK, Position, Steps, Note, Unnoted, Answers, Earned
  <2>8. CASE Measure
    BY <2>8 DEF Measure, SmokeTypeOK, Position, Steps, Note, Unnoted, Answers, Earned
  <2>9. CASE PostAnswered
    BY <2>9 DEF PostAnswered, SmokeTypeOK, Position, Steps, Note, Unnoted, Answers, Earned
  <2>10. CASE ReadingOrPostFails
    BY <2>10 DEF ReadingOrPostFails, Fail, SmokeTypeOK, Position, Steps, Note, Unnoted, Answers, Earned
  <2>11. CASE JudgeFails
    BY <2>11 DEF JudgeFails, Fail, SmokeTypeOK, Position, Steps, Note, Unnoted, Answers, Earned
  <2>12. CASE JudgeWarm
    BY <2>12 DEF JudgeWarm, Reported, Acceptable, Report, SmokeTypeOK, Position, Steps, Note, Unnoted, Answers, Earned
  <2>13. CASE JudgeCold
    BY <2>13 DEF JudgeCold, Acceptable, SmokeTypeOK, Position, Steps, Note, Unnoted, Answers, Earned
  <2>14. CASE Observe
    BY <2>14 DEF Observe, SmokeTypeOK, Position, Steps, Note, Unnoted, Answers, Earned
  <2>15. CASE WatchRetries
    BY <2>15 DEF WatchRetries, InTime, SmokeTypeOK, Position, Steps, Note, Unnoted, Answers, Earned
  <2>16. CASE WatchEnds
    BY <2>16 DEF WatchEnds, InTime, SmokeTypeOK, Position, Steps, Note, Unnoted, Answers, Earned
  <2>17. CASE RequireFails
    BY <2>17 DEF RequireFails, Fail, SmokeTypeOK, Position, Steps, Note, Unnoted, Answers, Earned
  <2>18. CASE RequireHolds
    BY <2>18 DEF RequireHolds, Reported, Report, SmokeTypeOK, Position, Steps, Note, Unnoted, Answers, Earned
  <2>19. CASE CloseExited
    BY <2>19 DEF CloseExited, SmokeTypeOK, Position, Steps, Note, Unnoted, Answers, Earned
  <2>20. CASE Terminate
    BY <2>20 DEF Terminate, SmokeTypeOK, Position, Steps, Note, Unnoted, Answers, Earned
  <2>21. CASE Reap
    BY <2>21 DEF Reap, SmokeTypeOK, Position, Steps, Note, Unnoted, Answers, Earned
  <2>22. CASE Kill
    BY <2>22 DEF Kill, SmokeTypeOK, Position, Steps, Note, Unnoted, Answers, Earned
  <2>23. CASE ReapFails
    BY <2>23 DEF ReapFails, SmokeTypeOK, Position, Steps, Note, Unnoted, Answers, Earned
  <2>24. CASE Closed
    BY <2>24 DEF Closed, SmokeTypeOK, Position, Steps, Note, Unnoted, Answers, Earned
  <2> QED
    BY <1>1, <2>1, <2>2, <2>3, <2>4, <2>5, <2>6, <2>7, <2>8, <2>9, <2>10, <2>11, <2>12, <2>13, <2>14, <2>15, <2>16, <2>17, <2>18, <2>19, <2>20, <2>21, <2>22, <2>23, <2>24 DEF ScriptStep
<1>2. CASE \E i \in DOMAIN plan : ChildServes(i) \/ ChildExits(i)
  BY <1>2 DEF ChildServes, ChildExits, scriptVars, Alive, SmokeTypeOK
<1>3. CASE UNCHANGED smokeVars
  BY <1>3 DEF smokeVars, scriptVars, SmokeTypeOK, Alive
<1> QED
  BY <1>1, <1>2, <1>3 DEF SmokeNext, ScriptEnded

LEMMA PositionStep ==
  ASSUME SmokeTypeOK, Position, [SmokeNext]_smokeVars
  PROVE  Position'
PROOF
<1>1. CASE ScriptStep
  <2> USE SmokeAssumption
  <2>1. CASE Preflight
    BY <2>1 DEF Preflight, SmokeTypeOK, Position, NoOrphan, Alive
  <2>2. CASE Spawn
    BY <2>2 DEF Spawn, SmokeTypeOK, Position, NoOrphan, Alive
  <2>3. CASE SpawnFails
    BY <2>3 DEF SpawnFails, SmokeTypeOK, Position, NoOrphan, Alive
  <2>4. CASE PrintReports
    BY <2>4 DEF PrintReports, SmokeTypeOK, Position, NoOrphan, Alive
  <2>5. CASE WaitFails
    BY <2>5 DEF WaitFails, Fail, SmokeTypeOK, Position, NoOrphan, Alive
  <2>6. CASE WaitRetries
    BY <2>6 DEF WaitRetries, InTime, SmokeTypeOK, Position, NoOrphan, Alive
  <2>7. CASE WaitReady
    BY <2>7 DEF WaitReady, InTime, SmokeTypeOK, Position, NoOrphan, Alive
  <2>8. CASE Measure
    BY <2>8 DEF Measure, SmokeTypeOK, Position, NoOrphan, Alive
  <2>9. CASE PostAnswered
    BY <2>9 DEF PostAnswered, SmokeTypeOK, Position, NoOrphan, Alive
  <2>10. CASE ReadingOrPostFails
    BY <2>10 DEF ReadingOrPostFails, Fail, SmokeTypeOK, Position, NoOrphan, Alive
  <2>11. CASE JudgeFails
    BY <2>11 DEF JudgeFails, Fail, SmokeTypeOK, Position, NoOrphan, Alive
  <2>12. CASE JudgeWarm
    BY <2>12 DEF JudgeWarm, Reported, Acceptable, Report, SmokeTypeOK, Position, NoOrphan, Alive
  <2>13. CASE JudgeCold
    BY <2>13 DEF JudgeCold, Acceptable, SmokeTypeOK, Position, NoOrphan, Alive
  <2>14. CASE Observe
    BY <2>14 DEF Observe, SmokeTypeOK, Position, NoOrphan, Alive
  <2>15. CASE WatchRetries
    BY <2>15 DEF WatchRetries, InTime, SmokeTypeOK, Position, NoOrphan, Alive
  <2>16. CASE WatchEnds
    BY <2>16 DEF WatchEnds, InTime, SmokeTypeOK, Position, NoOrphan, Alive
  <2>17. CASE RequireFails
    BY <2>17 DEF RequireFails, Fail, SmokeTypeOK, Position, NoOrphan, Alive
  <2>18. CASE RequireHolds
    BY <2>18 DEF RequireHolds, Reported, Report, SmokeTypeOK, Position, NoOrphan, Alive
  <2>19. CASE CloseExited
    BY <2>19 DEF CloseExited, SmokeTypeOK, Position, NoOrphan, Alive
  <2>20. CASE Terminate
    BY <2>20 DEF Terminate, SmokeTypeOK, Position, NoOrphan, Alive
  <2>21. CASE Reap
    BY <2>21 DEF Reap, SmokeTypeOK, Position, NoOrphan, Alive
  <2>22. CASE Kill
    BY <2>22 DEF Kill, SmokeTypeOK, Position, NoOrphan, Alive
  <2>23. CASE ReapFails
    BY <2>23 DEF ReapFails, SmokeTypeOK, Position, NoOrphan, Alive
  <2>24. CASE Closed
    BY <2>24 DEF Closed, SmokeTypeOK, Position, NoOrphan, Alive
  <2> QED
    BY <1>1, <2>1, <2>2, <2>3, <2>4, <2>5, <2>6, <2>7, <2>8, <2>9, <2>10, <2>11, <2>12, <2>13, <2>14, <2>15, <2>16, <2>17, <2>18, <2>19, <2>20, <2>21, <2>22, <2>23, <2>24 DEF ScriptStep
<1>2. CASE \E i \in DOMAIN plan : ChildServes(i) \/ ChildExits(i)
  BY <1>2 DEF ChildServes, ChildExits, scriptVars, Alive, SmokeTypeOK, Position, NoOrphan
<1>3. CASE UNCHANGED smokeVars
  BY <1>3 DEF smokeVars, scriptVars, SmokeTypeOK, Position, NoOrphan, Alive
<1> QED
  BY <1>1, <1>2, <1>3 DEF SmokeNext, ScriptEnded

LEMMA EarnedStep ==
  ASSUME SmokeTypeOK, Position, Earned, [SmokeNext]_smokeVars
  PROVE  Earned'
PROOF
<1>1. CASE ScriptStep
  <2> USE SmokeAssumption
  <2>1. CASE Preflight
    BY <2>1 DEF Preflight, SmokeTypeOK, Position, Earned, EarnedReport, Closing, Scenarios
  <2>2. CASE Spawn
    BY <2>2 DEF Spawn, SmokeTypeOK, Position, Earned, EarnedReport, Closing, Scenarios
  <2>3. CASE SpawnFails
    BY <2>3 DEF SpawnFails, SmokeTypeOK, Position, Earned, EarnedReport, Closing, Scenarios
  <2>4. CASE PrintReports
    BY <2>4 DEF PrintReports, SmokeTypeOK, Position, Earned, EarnedReport, Closing, Scenarios
  <2>5. CASE WaitFails
    BY <2>5 DEF WaitFails, Fail, SmokeTypeOK, Position, Earned, EarnedReport, Closing, Scenarios
  <2>6. CASE WaitRetries
    BY <2>6 DEF WaitRetries, InTime, SmokeTypeOK, Position, Earned, EarnedReport, Closing, Scenarios
  <2>7. CASE WaitReady
    BY <2>7 DEF WaitReady, InTime, SmokeTypeOK, Position, Earned, EarnedReport, Closing, Scenarios
  <2>8. CASE Measure
    BY <2>8 DEF Measure, SmokeTypeOK, Position, Earned, EarnedReport, Closing, Scenarios
  <2>9. CASE PostAnswered
    BY <2>9 DEF PostAnswered, SmokeTypeOK, Position, Earned, EarnedReport, Closing, Scenarios
  <2>10. CASE ReadingOrPostFails
    BY <2>10 DEF ReadingOrPostFails, Fail, SmokeTypeOK, Position, Earned, EarnedReport, Closing, Scenarios
  <2>11. CASE JudgeFails
    BY <2>11 DEF JudgeFails, Fail, SmokeTypeOK, Position, Earned, EarnedReport, Closing, Scenarios
  <2>12. CASE JudgeWarm
    BY <2>12 DEF JudgeWarm, Reported, Acceptable, Report, SmokeTypeOK, Position, Earned, EarnedReport, Closing, Scenarios
  <2>13. CASE JudgeCold
    BY <2>13 DEF JudgeCold, Acceptable, SmokeTypeOK, Position, Earned, EarnedReport, Closing, Scenarios
  <2>14. CASE Observe
    BY <2>14 DEF Observe, SmokeTypeOK, Position, Earned, EarnedReport, Closing, Scenarios
  <2>15. CASE WatchRetries
    BY <2>15 DEF WatchRetries, InTime, SmokeTypeOK, Position, Earned, EarnedReport, Closing, Scenarios
  <2>16. CASE WatchEnds
    BY <2>16 DEF WatchEnds, InTime, SmokeTypeOK, Position, Earned, EarnedReport, Closing, Scenarios
  <2>17. CASE RequireFails
    BY <2>17 DEF RequireFails, Fail, SmokeTypeOK, Position, Earned, EarnedReport, Closing, Scenarios
  <2>18. CASE RequireHolds
    BY <2>18 DEF RequireHolds, Reported, Report, SmokeTypeOK, Position, Earned, EarnedReport, Closing, Scenarios
  <2>19. CASE CloseExited
    BY <2>19 DEF CloseExited, SmokeTypeOK, Position, Earned, EarnedReport, Closing, Scenarios
  <2>20. CASE Terminate
    BY <2>20 DEF Terminate, SmokeTypeOK, Position, Earned, EarnedReport, Closing, Scenarios
  <2>21. CASE Reap
    BY <2>21 DEF Reap, SmokeTypeOK, Position, Earned, EarnedReport, Closing, Scenarios
  <2>22. CASE Kill
    BY <2>22 DEF Kill, SmokeTypeOK, Position, Earned, EarnedReport, Closing, Scenarios
  <2>23. CASE ReapFails
    BY <2>23 DEF ReapFails, SmokeTypeOK, Position, Earned, EarnedReport, Closing, Scenarios
  <2>24. CASE Closed
    BY <2>24 DEF Closed, SmokeTypeOK, Position, Earned, EarnedReport, Closing, Scenarios
  <2> QED
    BY <1>1, <2>1, <2>2, <2>3, <2>4, <2>5, <2>6, <2>7, <2>8, <2>9, <2>10, <2>11, <2>12, <2>13, <2>14, <2>15, <2>16, <2>17, <2>18, <2>19, <2>20, <2>21, <2>22, <2>23, <2>24 DEF ScriptStep
<1>2. CASE \E i \in DOMAIN plan : ChildServes(i) \/ ChildExits(i)
  BY <1>2 DEF ChildServes, ChildExits, scriptVars, Alive, SmokeTypeOK, Earned, EarnedReport, Closing
<1>3. CASE UNCHANGED smokeVars
  BY <1>3 DEF smokeVars, scriptVars, SmokeTypeOK, Earned, EarnedReport, Closing, Alive
<1> QED
  BY <1>1, <1>2, <1>3 DEF SmokeNext, ScriptEnded

-----------------------------------------------------------------------------
LEMMA SmokeInvariant == SmokeSpec => []SmokeInv
PROOF
<1>1. SmokeInv /\ [SmokeNext]_smokeVars => SmokeInv'
  BY SmokeTypeStep, PositionStep, EarnedStep DEF SmokeInv
<1> QED
  BY SmokeStart, <1>1, PTL DEF SmokeSpec

\* The script's variables keep their types; in particular at and plan stay in
\* step, and nothing but the two scenarios is ever run (gpu_http_smoke.py 35-46).
THEOREM SmokeTypesHold == SmokeSpec => []SmokeTypeOK
PROOF
<1>1. SmokeInv => SmokeTypeOK
  BY DEF SmokeInv
<1> QED
  BY SmokeInvariant, <1>1, PTL

\* However the script ends, every service it started is gone or was killed,
\* whatever raised and whatever the child did (gpu_http_smoke.py 264-272).
THEOREM NoServiceIsLeft == SmokeSpec => []NoOrphan
PROOF
<1>1. SmokeInv => NoOrphan
  BY DEF SmokeInv, Position
<1> QED
  BY SmokeInvariant, <1>1, PTL

\* For any list of scenarios two services never run at once
\* (gpu_http_smoke.py 40-46, 264-272).
THEOREM ServersRunInTurn == SmokeSpec => []OneServerAtATime
PROOF
<1>1. SmokeInv => OneServerAtATime
  BY DEF SmokeInv, SmokeTypeOK, Position, OneServerAtATime, Alive
<1> QED
  BY SmokeInvariant, <1>1, PTL

\* Exit status 0 means that every scenario asked for was run in its order and
\* passed its checks, and that every child is gone (gpu_http_smoke.py 39-49).
THEOREM SuccessIsEarned == SmokeSpec => []PassIsEarned
PROOF
<1>1. SmokeInv => PassIsEarned
  BY DEF SmokeInv, SmokeTypeOK, Position, Earned, EarnedReport, PassIsEarned, Passed, Closing
<1> QED
  BY SmokeInvariant, <1>1, PTL
=============================================================================
