SPECIFICATION Spec
CONSTANTS
    Reqs = {r1, r2}
    Patches = {p1}
    Lifespan = lifespan
    Actors = {r1, r2, p1, lifespan}
    None = None
    MaxConcurrent = 2
    Faults = {"oom"}
    GenerationFaults = {"other"}
    CleanupMayFail = TRUE
    Environments <- ColdEnvironments
    PatchBodies <- Bodies
INVARIANT ReadyMeansLoaded
