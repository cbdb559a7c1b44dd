\* The timeouts of the AWS collector; transfers that take no time, as long as
\* connecting may, and all the time they have.  The wall clock may be set back by
\* a whole timeout in any attempt, the profile may change once, and the service be
\* out at any time.
SPECIFICATION FairAwsSpec
CONSTANTS
    ConnectTimeout = 10
    ReadTimeout = 10
    Durations = {0, 20}
    SetBack = {0, 20}
    TokenTtl = 600
    Profiles = {"p", "q"}
    MaxChanges = 1
INVARIANTS OneFinalEntry TimeBounded TokenOutlivesCollect
PROPERTIES RecoversFromOutages
