--------------------------- MODULE MCGpuHttpSmoke ---------------------------
(* The script without --scenario, with each scenario, and with a repetition.  *)
EXTENDS GpuHttpSmoke

MCScenarioArgs == {<<"all">>, <<"resident-warm">>, <<"cold-unload", "resident-warm">>,
                   <<"cold-unload", "all">>, <<"resident-warm", "resident-warm", "cold-unload">>}
=============================================================================
