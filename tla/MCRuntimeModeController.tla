----------------------- MODULE MCRuntimeModeController -----------------------
(* Two threads that load, unload, finish requests and patch the mode, from    *)
(* every environment and with bodies that set, or leave out, each flag.       *)
EXTENDS RuntimeModeController

MCEnvironments == Environment

MCPatchBodies ==
    {[mode |-> "hot",  load_on_startup |-> {}, unload_after_request |-> {}],
     [mode |-> "cold", load_on_startup |-> {}, unload_after_request |-> {TRUE}],
     [mode |-> "cold", load_on_startup |-> {TRUE}, unload_after_request |-> {FALSE}]}
=============================================================================
