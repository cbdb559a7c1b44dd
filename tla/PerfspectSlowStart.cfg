\* The start-up times of PerfSpect, after one error of the stream.
SPECIFICATION FairSpec
CONSTANTS
    Interval = 5
    StartupMin = 4
    StartupMax = 7
    MaxLate = 0
    MaxFaults = 1
PROPERTIES KeepsPublishing
