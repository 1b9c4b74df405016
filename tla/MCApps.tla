------------------------------- MODULE MCApps -------------------------------
(* One app with a write the person governs, a read and a read that is not  *)
(* believed.                                                               *)
EXTENDS AppsHost, TLC

CONSTANTS notion, send, look, peek, r1, r2

OneApp == {notion}
ThreeActions == {send, look, peek}
Doubted == {peek}
OfNotion == [a \in ThreeActions |-> notion]
Hints == send :> {"openWorldHint", "updateHint"} @@ look :> {"readOnlyHint"}
           @@ peek :> {"readOnlyHint"}
Light == notion :> 1
LetSend == {[app |-> notion, capability |-> "write", answer |-> "auto"]}
Same == Permutations({r1, r2})
=============================================================================
