\* Uploads and downloads of up to three parts under the code's own retry limits;
\* every RPC may fail or be flooded, and the client may disconnect at any time.
SPECIFICATION FairSpec
CONSTANTS
    Kinds = {"upload", "download"}
    MaxSize = 3
    MaxAttempts = 3
    Base = 1
    Max = 30
    FloodRetries = 3
    FloodWaits = {1, 40}
    Width = 7
INVARIANTS
    TypeOK
    PostedIsWhole
    PostedOnce
    UnrepeatedIsWhole
    EnvelopeAlone
    ProgressOfOneAttempt
    BackoffIsCapped
    OneLateCall
    Inv
PROPERTIES
    EveryTransferEnds
CHECK_DEADLOCK FALSE
