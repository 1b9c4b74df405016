------------------------------ MODULE VMStates ------------------------------
(* The states of a machine's record and the moves between them (vm.go).    *)

States == {"creating", "running", "paused", "stopping", "failed"}

\* The states reachable from each state.
legalTransitions ==
    [from \in States |->
        CASE from = "creating" -> {"running", "stopping", "failed"}
          [] from = "running"  -> {"paused", "stopping", "failed"}
          [] from = "paused"   -> {"running", "stopping", "failed"}
          [] from = "stopping" -> {}
          [] from = "failed"   -> {"stopping"}]

\* Mutant: any state may follow any other.
canTransition_Any(from, to) == to \in States

canTransition(from, to) == to \in legalTransitions[from]
=============================================================================
