\* The comment on the service scope's tracker, against a recreated cgroup.
SPECIFICATION Spec
CONSTANTS
    Cores = 2
    FreshIdentities = FALSE
    MaxTime = 4
    MaxGeneration = 2
INVARIANTS OneGeneration
