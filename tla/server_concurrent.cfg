SPECIFICATION Spec
CONSTANTS
    Reqs = {r1, r2, r3}
    Patches = {}
    Lifespan = lifespan
    Actors = {r1, r2, r3, lifespan}
    None = None
    MaxConcurrent = 2
    Faults = {"oom"}
    GenerationFaults = {"other"}
    CleanupMayFail = FALSE
    Environments <- AllEnvironments
    PatchBodies <- Bodies
SYMMETRY Symmetry
INVARIANTS
    ColdLeavesNothing
    CopiesWithinPermits
    ReadyIsTrue
PROPERTIES
    ResidentKeepsModel
    AdmissionSpec
