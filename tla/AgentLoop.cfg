\* The agent from its start: periods of 2 and 8 seconds of 3 ticks.  The
\* sixty-second gather overruns the five-second period, and the work of a
\* minute fits the minute, so that a backlog is always worked off.
SPECIFICATION FairAgentSpec
CONSTANTS
    Second = 3
    FiveSeconds = 2
    SixtySeconds = 8
    MaxPeak = 1
    MaxFive = 1
    MaxSixty = 7
    MaxLate = 1
    ClockSteps <- ForwardSteps
    MaxSteps = 1
    Horizon = 50
    KilledHorizon = 240
    MaxDelayLate = 1
INVARIANTS NoSlotOvertaken SleepsAtMostASecond PublishesAwayFromBoundary
PROPERTIES ImplementsSchedule KillStopsLoop
