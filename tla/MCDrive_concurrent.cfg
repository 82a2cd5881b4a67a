\* Three concurrent requests on two folders, one of them not indexed at first;
\* a request that stops half way is one that takes no further step.
SPECIFICATION Spec
CONSTANTS
    Requests = {r1, r2, r3}
    Ops = {"UploadFile", "RenameFile", "DeleteFile", "MoveFile", "DeleteFolder", "ListFiles"}
    MayFail = {}
    MaxInFlight = 3
    NumChannels = 2
    NumExisting = 2
    NumIndexed = 1
    Names = {"a"}
    FolderNames <- OneName
    SentTitles = {}
    MaxTitle = 0
    Dialects = {"sqlite", "postgres"}
SYMMETRY Symmetry
INVARIANTS
    TypeOK
    RowsUnique
    RowsAreReal
    NoFileLost
    Inv
PROPERTIES
    PrunesOwnRow
CHECK_DEADLOCK FALSE
