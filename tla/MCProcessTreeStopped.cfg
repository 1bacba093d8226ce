SPECIFICATION Spec
CONSTANTS
    MaxPid = 4
    Wants <- WaitAll
    Signals <- AllSignals
    MaxCalls = 3
PROPERTY StoppedMeansStopped
\* All processes may exit, or sleep in do_wait without children.
CHECK_DEADLOCK FALSE
