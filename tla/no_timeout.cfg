SPECIFICATION SlowModelSpec
CONSTANTS
    Reqs = {r1}
    Patches = {}
    Lifespan = lifespan
    Actors = {r1, lifespan}
    None = None
    MaxConcurrent = 1
    Faults = {"oom"}
    GenerationFaults = {"other"}
    CleanupMayFail = FALSE
    Environments <- ColdEnvironments
    PatchBodies <- Bodies
PROPERTY EveryRequestAnswered
