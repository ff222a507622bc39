--------------------------- MODULE MCStatusProbes ---------------------------
(* One probe beside the service instances of MCParseServer.                 *)
EXTENDS StatusProbes, MCParseServer
=============================================================================
