\* Two of three matching units fit; one of them stops and restarts, in every
\* interleaving with the monitor's reads; initializations may fail half-way.
SPECIFICATION Spec
CONSTANTS
    Listings <- TooManyMatches
    Matching = {"a", "b", "c"}
    MaxServices = 0
    Default = 2
    MatchThrows = TRUE
    Active = {"a"}
    Cores = 1
    MaxTime = 2
    MaxGeneration = 1
INVARIANTS MonitorsFirstMatches SuccessMeansSampled
PROPERTIES ImplementsTrackedCounters
