------------------------------- MODULE MCFeed -------------------------------
(* One gated call of one agent.                                            *)
EXTENDS Feed, TLC

CONSTANTS a1, bash

OneApproval == a1 :> bash
OneCard == a1 :> "approval"
=============================================================================
