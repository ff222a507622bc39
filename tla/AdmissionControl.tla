-------------------------- MODULE AdmissionControl --------------------------
(***************************************************************************)
(* What the generation lock promises to the parse endpoint, whatever its   *)
(* representation: at most Limit clients are active at once, and a client  *)
(* is refused only at a moment when all Limit places are taken.            *)
(*                                                                         *)
(* GenerationLock and ParseServer are shown to implement this module.      *)
(***************************************************************************)
EXTENDS Naturals, FiniteSets

CONSTANTS Clients,   \* those who ask to generate
          Limit      \* max_concurrent_generations

VARIABLES active,    \* the clients that hold a place
          refused    \* the clients whose last attempt was turned away

vars == <<active, refused>>

TypeOK == /\ active \subseteq Clients
          /\ refused \subseteq Clients

Init == active = {} /\ refused = {}

Admit(c) == /\ c \notin active
            /\ Cardinality(active) < Limit
            /\ active' = active \union {c}
            /\ refused' = refused \ {c}

Refuse(c) == /\ c \notin active
             /\ Cardinality(active) = Limit
             /\ refused' = refused \union {c}
             /\ UNCHANGED active

\* A refused client starts over and waits for a place.
Retry(c) == /\ c \in refused
            /\ refused' = refused \ {c}
            /\ UNCHANGED active

Leave(c) == /\ c \in active
            /\ active' = active \ {c}
            /\ UNCHANGED refused

Next == \E c \in Clients : Admit(c) \/ Refuse(c) \/ Retry(c) \/ Leave(c)

Spec == Init /\ [][Next]_vars
=============================================================================
