SPECIFICATION Spec
CONSTANTS
    sw = sw
    it = it
    NoThread = NoThread
    ws = ws
    a1 = a1
    a2 = a2
    Thread <- MixedThreads
    Policy <- MixedPolicy
    Killable = {a1, a2}
    Swapper = sw
    Loaded = {ws}
    InitThread = it
    SliceThreshold = 2
    MaxPrio = 3
    MaxLost = 1
CHECK_DEADLOCK FALSE
INVARIANTS
    UserUnlocked
