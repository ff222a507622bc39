----------------------------- MODULE ModelHolder -----------------------------
(***************************************************************************)
(* What Gemma4Loader promises to the runtime, whatever order its threads   *)
(* come in: a place for one copy of the model, in which nothing is built   *)
(* while a copy is bound or another one is being built, and which shows a  *)
(* copy as a whole or not at all. Its changes are single instants, so the  *)
(* readers of loaded, who take no lock, see no state but these.            *)
(*                                                                         *)
(* Gemma4Loader, alone and inside the service, is shown to implement this  *)
(* module.                                                                 *)
(***************************************************************************)
CONSTANTS Builders,  \* those who may build a copy; a copy is named after its builder
          Nothing

VARIABLES bound,     \* the copy that can be used
          builder    \* who is building one

vars == <<bound, builder>>

Init == bound = Nothing /\ builder = Nothing

\* Building starts in an empty place only.
Start(b) == /\ bound = Nothing
            /\ builder = Nothing
            /\ builder' = b
            /\ UNCHANGED bound

\* The copy is shown with everything that belongs to it.
Finish == /\ builder # Nothing
          /\ bound' = builder
          /\ builder' = Nothing

Fail == /\ builder # Nothing
        /\ builder' = Nothing
        /\ UNCHANGED bound

\* Nobody drops a copy that is being built.
Drop == /\ builder = Nothing
        /\ bound' = Nothing
        /\ UNCHANGED builder

Next == (\E b \in Builders : Start(b)) \/ Finish \/ Fail \/ Drop

Spec == Init /\ [][Next]_vars
=============================================================================
