SPECIFICATION ControllerSpec
CONSTANTS
    Actors = {t1, t2}
    None = None
    Faults = {"oom"}
    CleanupMayFail = TRUE
    Environments <- MCEnvironments
    PatchBodies <- MCPatchBodies
INVARIANTS
    ControllerClientTypeOK
    LoadMutex
    HonestProgress
    SnapshotAgrees
    ReplyIsOwn
