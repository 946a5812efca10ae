CONSTANTS
    Units <- MCOneUnit
    ControlUnit <- MCOneControlUnit
    Lens = {1}
    MaxBytes = 2
    DataDirs = {"out"}
    InboxCap = 1
    CFM_MAX_OFFSET <- MCMaxOffset
    AllocMayFail = FALSE
    MaxReinjectFail = 1
    ReinjectFailAt = {1, 2}
    Verdicts <- MCPassVerdicts
    Ops = {"app_send", "close", "agent_disconnect"}
    Dgram = TRUE
    GcMbufNumMax = 1
    GcMbufCntMax = 100

SPECIFICATION SendersSpec

INVARIANTS
    PendingMbufsExact

PROPERTIES
    NoUseAfterFree
    GcEventuallyFrees
