---------------------------- MODULE MCVMRegistry ----------------------------
(* A small instance of VMRegistry for its liveness.                        *)
EXTENDS VMRegistry
=============================================================================
