SPECIFICATION FairSpec
CONSTANTS
    MaxPid = 4
    Wants <- WaitAll
    Signals <- AllSignals
    MaxCalls = 3
INVARIANT TypeOK
INVARIANT ZombieFindable
INVARIANT ParentLives
 
 
 
PROPERTY WaitReturns
\* All processes may exit, or sleep in do_wait without children.
CHECK_DEADLOCK FALSE
