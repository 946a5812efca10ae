CONSTANTS
    LocalIdsn = 0
    PeerIdsn = 1
    MaxData = 2
    PeerMaxData = 1
    Formats <- XnuFormats
    Wins = {1}
SPECIFICATION FairSpec
INVARIANT TypeOK
INVARIANT SendBufferExact
INVARIANT AckedOnlyReceived
PROPERTY AckedDataReleased
PROPERTY DataFinCompletes
