CONSTANTS
    Units <- MCOneUnit
    ControlUnit <- MCOneControlUnit
    Lens = {1, 2}
    MaxBytes = 2
    DataDirs = {"out"}
    InboxCap = 1
    CFM_MAX_OFFSET <- MCMaxOffset
    AllocMayFail = FALSE
    MaxReinjectFail = 0
    ReinjectFailAt = {}
    Verdicts <- MCPassVerdicts
    Ops = {"shutdown", "close", "agent_disconnect"}
    Dgram = FALSE
    GcMbufNumMax = 0
    GcMbufCntMax = 0

SPECIFICATION LifecycleSpec

PROPERTIES
    PassedDataReinjected
    ShutdownCompletes
    CloseWaitEndsWhenDetached
    StreamRefinement
