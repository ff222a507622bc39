--------------------------- MODULE MCParseServer ---------------------------
(* Instances of the service: environments the service can start with, and   *)
(* PATCH bodies that switch between the modes in both directions.           *)
EXTENDS ParseServer, TLC

ColdUnloading == [vlm_mode |-> {"cold"}, model_load_on_startup |-> {},
                  unload_after_request |-> {TRUE}]
ColdKeeping   == [vlm_mode |-> {"cold"}, model_load_on_startup |-> {TRUE},
                  unload_after_request |-> {}]
Resident      == [vlm_mode |-> {}, model_load_on_startup |-> {},
                  unload_after_request |-> {}]
ResidentLazy  == [vlm_mode |-> {"resident"}, model_load_on_startup |-> {FALSE},
                  unload_after_request |-> {TRUE}]

AllEnvironments  == {ColdUnloading, ColdKeeping, Resident, ResidentLazy}
ColdEnvironments == {ColdUnloading}

ToHot  == [mode |-> "hot", load_on_startup |-> {}, unload_after_request |-> {}]
ToCold == [mode |-> "cold", load_on_startup |-> {}, unload_after_request |-> {TRUE}]

Bodies == {ToHot, ToCold}

Symmetry == Permutations(Reqs)
=============================================================================
