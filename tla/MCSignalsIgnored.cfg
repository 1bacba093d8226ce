SPECIFICATION Spec
CONSTANTS
    Signal <- MixedSignals
    CoreDump <- QuitOnly
    Ignore <- ChldOnly
    KernelOnly <- KillOnly
    SIGKILL = 9
    Mask <- Masks
    SaMask <- None
    MaxFrames = 2
    MaxSent = 3
    CanSuspend = FALSE
INVARIANT AssertNotIgnored
\* A dead process, a hung machine and a panic have no successor.
CHECK_DEADLOCK FALSE
