CONSTANTS
    Units <- MCOneUnit
    ControlUnit <- MCOneControlUnit
    Lens = {1}
    MaxBytes = 3
    DataDirs = {"out"}
    InboxCap = 1
    CFM_MAX_OFFSET <- MCMaxOffset
    AllocMayFail = FALSE
    MaxReinjectFail = 1
    ReinjectFailAt = {1, 2, 3}
    Verdicts <- MCPassVerdicts
    Ops = {}
    Dgram = FALSE
    GcMbufNumMax = 0
    GcMbufCntMax = 0

SPECIFICATION FairSpec

PROPERTIES
    PassedDataReinjected
