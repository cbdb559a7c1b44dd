-------------------------- MODULE MCServiceMonitor ---------------------------
(* Instances of ServiceMonitor for TLC. *)
EXTENDS ServiceMonitor

TooManyMatches == {<<"x", "a", "b", "c">>, <<"x">>}
=============================================================================
