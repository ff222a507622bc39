---------------------------- MODULE MCThreadPool ----------------------------
(* The service instances of MCParseServer on a pool of one thread.          *)
EXTENDS ThreadPool, MCParseServer
=============================================================================
