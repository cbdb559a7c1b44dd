\* The start-up times of PerfSpect, late gathers, and faults at any point; a
\* command that prints, hangs, closes its output or dies as it likes, into a pipe of
\* two chunks.
SPECIFICATION ProgramsSpec
CONSTANTS
    Interval = 5
    StartupMin = 4
    StartupMax = 7
    MaxLate = 2
    MaxFaults = 3
    Timeout = 2
    PipeSize = 2
INVARIANTS StreamAligned PublishedIsCurrent WholeOrNothing
PROPERTIES OnlyStaleErrorsSilence HeldOnlyByCommand
