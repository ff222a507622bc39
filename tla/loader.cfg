SPECIFICATION LoaderSpec
CONSTANTS
    Actors = {t1, t2, t3}
    None = None
    Faults = {"timeout", "oom", "other"}
    CleanupMayFail = TRUE
INVARIANTS
    BuildsOnEmpty
    BindingWhole
PROPERTY HolderSpec
