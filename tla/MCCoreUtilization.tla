-------------------------- MODULE MCCoreUtilization --------------------------
(* Instances of CoreUtilization for TLC: the clock is never stepped, because
   nothing here depends on it but the order of the slots. *)
EXTENDS CoreUtilization

NoSteps == {}
=============================================================================
