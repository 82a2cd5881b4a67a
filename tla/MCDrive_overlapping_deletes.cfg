\* Two deletes and a rename of the same file at the same time, without failures.
SPECIFICATION Spec
CONSTANTS
    Requests = {r1, r2, r3}
    Ops = {"RenameFile", "DeleteFile"}
    MayFail = {}
    MaxInFlight = 3
    NumChannels = 1
    NumExisting = 1
    NumIndexed = 1
    Names = {"a", "b"}
    FolderNames <- OneName
    SentTitles = {}
    MaxTitle = 0
    Dialects = {"sqlite", "postgres"}
SYMMETRY Symmetry
INVARIANTS
    DeletePromises
CHECK_DEADLOCK FALSE
