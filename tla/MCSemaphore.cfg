\* A mutex and three threads.  A processor that spins with interrupts off
\* never stops spinning, so the system may stop.
SPECIFICATION FairSpec
CONSTANTS
    Thread = {t1, t2, t3}
    Capacity = 1
    Idle = Idle
INVARIANTS TypeOK WaitersAsleep SpinBehindRelease
PROPERTIES ImplementsCounting WaiterServed
CHECK_DEADLOCK FALSE
