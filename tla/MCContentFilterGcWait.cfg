CONSTANTS
    Units <- MCUnits
    ControlUnit <- MCControlUnit
    Lens = {1}
    MaxBytes = 1
    DataDirs = {"out"}
    InboxCap = 1
    CFM_MAX_OFFSET <- MCMaxOffset
    AllocMayFail = FALSE
    MaxReinjectFail = 0
    ReinjectFailAt = {}
    Verdicts <- MCPassVerdicts
    Ops = {"close"}
    Dgram = TRUE
    GcMbufNumMax = 1
    GcMbufCntMax = 100

SPECIFICATION CloseSpec

PROPERTIES
    CloseWaitEndsWhenDetached
