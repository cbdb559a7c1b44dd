---------------------------- MODULE StartupDelay ----------------------------
(***************************************************************************)
(* The agent from its start: initial_polling_delay picks a random delay    *)
(* from the second of the minute, the collecting function waits for it,    *)
(* ignoring what wait_for returns, publishes the slow metrics for the      *)
(* first time, and enters the loop of AgentLoop.                           *)
(*                                                                         *)
(* Before the loop, time is the second of the minute on the wall clock;    *)
(* the loop's own clock starts at the reading it takes after that.         *)
(***************************************************************************)
EXTENDS AgentLoop

CONSTANTS MaxDelayLate   \* bound: seconds the first wait overruns

ASSUME StartupAssumption == MaxDelayLate \in 0 .. 9

VARIABLES stage,   \* "delay", "waiting", "first" or "loop"
          second,  \* second of the minute on the wall clock, before the loop
          delay    \* what initial_polling_delay returned, before the loop

startup == <<stage, second, delay>>

Minute == 60
SecondsOfMinute == 0 .. Minute - 1

-----------------------------------------------------------------------------
\* The delays the uniform distributions of initial_polling_delay can return
\* when the agent starts at second s: one that leads to a second between 10
\* and 50 of this minute or of the next, and none when s is one already.
DelaysFromStart(s) ==
    CASE s < 10 -> 10 .. 50
      [] s > 50 -> Minute - s + 10 .. Minute - s + 50
      [] OTHER -> {0}
InitialPollingDelays(s) ==
    CASE s < 10 -> 10 - s .. 50 - s
      [] s > 50 -> Minute - s + 10 .. Minute - s + 50
      [] OTHER -> {0}

AgentInit ==
    /\ Init
    /\ stage = "delay"
    /\ second \in SecondsOfMinute
    /\ delay = 0

\* auto delay = initial_polling_delay(); if (delay > 0)
ChooseDelay ==
    /\ stage = "delay"
    /\ delay' \in InitialPollingDelays(second)
    /\ stage' = IF delay' > 0 THEN "waiting" ELSE "first"
    /\ UNCHANGED <<vars, second>>

Sleep(t) == second' = (second + t) % Minute

\* runner.wait_for(seconds(delay)) timed out ...
DelayTimeout ==
    /\ stage = "waiting"
    /\ ~terminate
    /\ \E late \in 0 .. MaxDelayLate : Sleep(delay + late)
    /\ stage' = "first"
    /\ UNCHANGED <<vars, delay>>

\* ... or returned early because of a kill, which nobody looks at.
DelayKilled ==
    /\ stage = "waiting"
    /\ terminate
    /\ \E t \in 0 .. delay : Sleep(t)
    /\ stage' = "first"
    /\ UNCHANGED <<vars, delay>>

\* gather_slow_system_metrics, then the loop reads its clock: what the delay
\* was does not matter any more.
FirstGather ==
    /\ stage = "first"
    /\ stage' = "loop"
    /\ second' = 0
    /\ delay' = 0
    /\ UNCHANGED vars

Startup == ChooseDelay \/ DelayTimeout \/ DelayKilled \/ FirstGather

KillEarly == stage # "loop" /\ Kill /\ UNCHANGED startup

\* The steps of the loop.
InLoop(A) == stage = "loop" /\ A /\ UNCHANGED startup

AgentNext == Startup \/ KillEarly \/ InLoop(Next)

AgentSpec == AgentInit /\ [][AgentNext]_<<vars, startup>>

\* AgentLoop!FairSpec, from the start of the agent.
FairAgentSpec ==
    AgentSpec /\ WF_<<vars, startup>>(Startup \/ InLoop(Loop))

-----------------------------------------------------------------------------
(***************************************************************************)
(* atlas-agent.h:57, "Randomized initial delay (in seconds) to avoid       *)
(* publishing right on a minute boundary": an agent that nobody kills      *)
(* publishes first at a second between 10 and 50, give or take the lateness*)
(* of the wait.  One that is killed during the delay publishes at once.    *)
(***************************************************************************)
PublishesAwayFromBoundary ==
    stage = "first" /\ ~terminate => second \in 10 .. 50 + MaxDelayLate
=============================================================================
