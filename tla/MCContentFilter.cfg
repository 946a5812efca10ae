CONSTANTS
    Units <- MCUnits
    ControlUnit <- MCControlUnit
    Lens = {1, 2}
    MaxBytes = 2
    DataDirs = {"out"}
    InboxCap = 1
    CFM_MAX_OFFSET <- MCMaxOffset
    AllocMayFail = TRUE
    MaxReinjectFail = 1
    ReinjectFailAt = {1}
    Verdicts <- MCVerdicts
    Ops = {}
    Dgram = FALSE
    GcMbufNumMax = 0
    GcMbufCntMax = 0

SPECIFICATION FairSpec

INVARIANTS
    TypeOK
    CfilInfoVerify
    StreamConservation
    PendingWindowExact
    ChainingOrder
    DataEventsTruthful

PROPERTIES
    OffsetsNeverRegress
