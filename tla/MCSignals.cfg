SPECIFICATION FairSpec
CONSTANTS
    Signal <- MixedSignals
    CoreDump <- QuitOnly
    Ignore <- ChldOnly
    KernelOnly <- KillOnly
    SIGKILL = 9
    Mask <- Masks
    SaMask <- KillOnly
    MaxFrames = 2
    MaxSent = 3
    CanSuspend = TRUE
INVARIANT TypeOK
 
INVARIANT MaskRestored
INVARIANT HandlersNest
 
\* A dead process, a hung machine and a panic have no successor.
CHECK_DEADLOCK FALSE
