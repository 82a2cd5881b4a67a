\* One client after another, on every method, each call of which may stop half way.
SPECIFICATION Spec
CONSTANTS
    Requests = {r1, r2, r3}
    Ops = {"CreateFolder", "RenameFolder", "DeleteFolder", "ListFolders", "ListFiles", "UploadFile", "DownloadFile", "RenameFile", "DeleteFile", "MoveFile"}
    MayFail = {r1, r2, r3}
    MaxInFlight = 1
    NumChannels = 2
    NumExisting = 1
    NumIndexed = 1
    Names = {"a", "b"}
    FolderNames <- SomeNames
    SentTitles <- NestedTitle
    MaxTitle = 5
    Dialects = {"sqlite", "postgres"}
SYMMETRY Symmetry
INVARIANTS
    DriftIsReported
    DeletedNotServed
    NamedAsGiven
    FoldersListed
CHECK_DEADLOCK FALSE
