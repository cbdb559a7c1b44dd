----------------------------- MODULE MCPrograms ------------------------------
(***************************************************************************)
(* The programs that the agent runs, in one run of TLC: a behavior is one  *)
(* of perfspect, which stays, or of the commands, which are waited for.    *)
(***************************************************************************)
EXTENDS Perfspect, CommandOutput

VARIABLE program   \* "perfspect" or "command"

programVars == <<program, vars, commandVars>>

ProgramsInit == program \in {"perfspect", "command"} /\ Init /\ CommandInit

RunPerfspect == program = "perfspect" /\ Next /\ UNCHANGED <<program, commandVars>>
RunCommand == program = "command" /\ CommandNext /\ UNCHANGED <<program, vars>>

ProgramsSpec ==
    /\ ProgramsInit
    /\ [][RunPerfspect \/ RunCommand]_programVars
    /\ WF_programVars(RunPerfspect /\ (Tick \/ Script \/ GatherMetrics))
    /\ CommandFairness

-----------------------------------------------------------------------------
(***************************************************************************)
(* perfspect.cpp: where it is perfspect that runs, nothing but the error   *)
(* of an earlier process can keep the agent from publishing for good.      *)
(***************************************************************************)
OnlyStaleErrorsSilence == program = "perfspect" => StaleErrorsOnlySilence
=============================================================================
