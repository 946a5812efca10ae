CONSTANTS
    Units <- MCUnits
    ControlUnit <- MCControlUnit
    Lens = {1, 2}
    MaxBytes = 2
    DataDirs = {"out"}
    InboxCap = 1
    CFM_MAX_OFFSET <- MCMaxOffset
    AllocMayFail = FALSE
    MaxReinjectFail = 0
    ReinjectFailAt = {}
    Verdicts <- MCVerdicts
    Ops = {}
    Dgram = FALSE
    GcMbufNumMax = 0
    GcMbufCntMax = 0

SPECIFICATION AgentsReadSpec

PROPERTIES
    FlowControlLiftResumes
