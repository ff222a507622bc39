SPECIFICATION SmokeSpec
CONSTANTS
    ScenarioArgs <- MCScenarioArgs
    RequireRelease = TRUE
    Polls = 3
INVARIANTS
    SmokeTypeOK
    NoOrphan
    OneServerAtATime
    PassIsEarned
PROPERTY SmokeEnds
