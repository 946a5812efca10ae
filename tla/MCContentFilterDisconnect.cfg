CONSTANTS
    Units <- MCUnits
    ControlUnit <- MCControlUnit
    Lens = {1}
    MaxBytes = 1
    DataDirs = {"out"}
    InboxCap = 1
    CFM_MAX_OFFSET <- MCMaxOffset
    AllocMayFail = FALSE
    MaxReinjectFail = 0
    ReinjectFailAt = {}
    Verdicts <- MCVerdicts
    Ops = {"shutdown"}
    Dgram = FALSE
    GcMbufNumMax = 0
    GcMbufCntMax = 0

SPECIFICATION Spec

PROPERTIES
    NoDataAfterDisconnect
