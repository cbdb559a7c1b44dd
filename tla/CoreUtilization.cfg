\* Three minutes of scaled periods, gathers that overrun a five-second slot,
\* and failed reads at any time; cpu1 comes and goes.
SPECIFICATION CoreSpec
CONSTANTS
    Second = 2
    FiveSeconds = 2
    SixtySeconds = 6
    MaxPeak = 0
    MaxFive = 1
    MaxSixty = 4
    MaxLate = 1
    ClockSteps <- NoSteps
    MaxSteps = 0
    Horizon = 40
    KilledHorizon = 40
    Cores = {"cpu0", "cpu1"}
    Busy = {"cpu0"}
    Divisor = 3
    MaxFailures = 2
INVARIANTS SteadyMinute BoundedByFailures
