------------------------------- MODULE MCHost -------------------------------
(* The control plane's machines: the registry and its host resources, or   *)
(* the power of one machine, one in motion in each behaviour while the     *)
(* other rests.  The machines and the DELETE handlers are interchangeable. *)
EXTENDS VMRegistry, VMPower, TLC

VARIABLE scene

HostInit == /\ scene \in {"registry", "power"}
            /\ Init /\ PowerInit
            /\ scene = "power" => workspace = [i \in Ids |-> "absent"]

HostNext == /\ UNCHANGED scene
            /\ \/ scene = "registry" /\ Next /\ UNCHANGED powerVars
               \/ scene = "power" /\ PowerNext /\ UNCHANGED vars

HostSpec == HostInit /\ [][HostNext]_<<scene, vars, powerVars>>

Interchangeable == Permutations(VMs) \cup Permutations(Deleters)
=============================================================================
