\* The assertion on the sizes of the two lists of a rate, on one CPU.
SPECIFICATION PerfSpec
CONSTANTS
    Cpus = {0}
    PerfWidth = 4
    MaxEvents = 1
    MaxHotplugs = 0
INVARIANTS SizesAsserted
