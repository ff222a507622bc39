SPECIFICATION Spec
CONSTANTS
    Reqs = {r1}
    Patches = {p1}
    Lifespan = lifespan
    Actors = {r1, p1, lifespan}
    None = None
    MaxConcurrent = 1
    Faults = {"oom"}
    GenerationFaults = {"other"}
    CleanupMayFail = FALSE
    Environments <- ColdEnvironments
    PatchBodies <- Bodies
PROPERTY ResidentKeepsModel
