\* Signals delivered to the collecting thread.
CHECK_DEADLOCK FALSE
SPECIFICATION FairSpec
CONSTANTS
    DeliverTo = {"main"}
PROPERTIES SignalEndsLoop
