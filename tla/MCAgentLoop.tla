---------------------------- MODULE MCAgentLoop -----------------------------
(* Instances of the agent for TLC: the steps its system clock may make. *)
EXTENDS StartupDelay

ForwardSteps == {1, 7}
=============================================================================
