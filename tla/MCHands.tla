------------------------------ MODULE MCHands ------------------------------
(* One hand, and room for an old consumer beside its successor.            *)
EXTENDS Hands
=============================================================================
