\* One failed read, scaled periods.
SPECIFICATION CoreSpec
CONSTANTS
    Second = 2
    FiveSeconds = 2
    SixtySeconds = 6
    MaxPeak = 1
    MaxFive = 1
    MaxSixty = 4
    MaxLate = 1
    ClockSteps <- NoSteps
    MaxSteps = 0
    Horizon = 40
    KilledHorizon = 40
    Cores = {"cpu0", "cpu1"}
    Busy = {"cpu0"}
    Divisor = 3
    MaxFailures = 1
INVARIANTS NeverAboveHundred
