SPECIFICATION PoolSpec
CONSTANTS
    Reqs = {r1}
    Patches = {p1}
    StatusCalls = {h1}
    SpooledUploads = {r1}
    Lifespan = lifespan
    Actors = {r1, p1, lifespan}
    None = None
    PoolSize = 1
    MaxConcurrent = 1
    Faults = {"oom"}
    GenerationFaults = {"other"}
    CleanupMayFail = TRUE
    Environments <- AllEnvironments
    PatchBodies <- Bodies
INVARIANTS
    PoolTypeOK
    OwnersGoOn
PROPERTIES
    RequestsServed
    StatusServed
    PatchesServed
    ShutdownCompletes
