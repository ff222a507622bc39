SPECIFICATION Spec
CONSTANTS
    Reqs = {r1, r2}
    Patches = {}
    Lifespan = lifespan
    Actors = {r1, r2, lifespan}
    None = None
    MaxConcurrent = 1
    Faults = {"oom"}
    GenerationFaults = {"other"}
    CleanupMayFail = FALSE
    Environments <- ColdEnvironments
    PatchBodies <- Bodies
INVARIANT SingleCopy
