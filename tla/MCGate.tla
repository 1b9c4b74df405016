------------------------------- MODULE MCGate -------------------------------
(* The gate for TLC: which calls are of a gated tool, that a batch consent *)
(* can cover, and which is a question; and two scenes, one in each         *)
(* behaviour.  In "pair" up to two calls are made, over all turns and with *)
(* every interrupt.  In "crowd" there are as many calls as Calls has, in   *)
(* one turn that nobody interrupts and no timer ends a wait of: one is     *)
(* given a batch consent, and the others come to spend it at once.         *)
EXTENDS Gate, TLC

CONSTANTS a1, a2, a3, q, bash

OneAndAQuestion == a1 :> bash @@ q :> None
TwoApprovals == a1 :> bash @@ a2 :> bash
ThreeApprovals == a1 :> bash @@ a2 :> bash @@ a3 :> bash

VARIABLE scene

Made == {c \in Calls : pc[c] # "idle"}

GateInit == Init /\ scene \in {"pair", "crowd"}

GateNext == /\ Next
            /\ UNCHANGED scene
            /\ scene = "pair" => Cardinality(Made') =< 2
            /\ scene = "crowd" => /\ revoke' = "no" /\ turns' =< 1
                                  /\ \A c \in Calls : result'[c] # "timeout"

GateSpec == GateInit /\ [][GateNext]_<<vars, scene>>

\* Calls of one tool are interchangeable.
Alike == Permutations(Calls)
=============================================================================
