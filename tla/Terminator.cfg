\* A signal on any thread.  A handler that waits for a mutex the code it
\* interrupted holds never gets it: the system can really stop there.
CHECK_DEADLOCK FALSE
SPECIFICATION FairSpec
CONSTANTS
    DeliverTo = {"main", "logger", "library"}
INVARIANTS NoLostWakeup
PROPERTIES ImplementsAtomicWait HandlerElsewhereEndsLoop
