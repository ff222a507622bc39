SPECIFICATION ProbesSpec
CONSTANTS
    Reqs = {r1, r2}
    Patches = {p1}
    Probes = {q1}
    Lifespan = lifespan
    Actors = {r1, r2, p1, lifespan}
    None = None
    MaxConcurrent = 1
    Faults = {"oom"}
    GenerationFaults = {"other"}
    CleanupMayFail = TRUE
    Environments <- AllEnvironments
    PatchBodies <- Bodies
SYMMETRY Symmetry
INVARIANTS
    ServerTypeOK
    SoleRequestKeepsItsModel
    ExitIsClean
    LeaseBracketsWork
    CleanupMasksNothing
    ProbeTypeOK
    ProbeIsHonest
    ReadyIsKept
