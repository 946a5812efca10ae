CONSTANTS
    LocalIdsn = 0
    PeerIdsn = 1
    MaxData = 2
    PeerMaxData = 1
    Formats <- RfcFormats
    Wins = {1}
SPECIFICATION Spec
INVARIANT AckedOnlyReceived
