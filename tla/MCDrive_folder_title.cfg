\* A client that creates a folder whose name nests a marker and is shorter in
\* lower case, and sends along a title that nests a marker.
SPECIFICATION Spec
CONSTANTS
    Requests = {r1, r2}
    Ops = {"CreateFolder", "ListFiles"}
    MayFail = {}
    MaxInFlight = 1
    NumChannels = 2
    NumExisting = 1
    NumIndexed = 0
    Names = {"a"}
    FolderNames <- NestedName
    SentTitles <- NestedTitle
    MaxTitle = 0
    Dialects = {"sqlite", "postgres"}
SYMMETRY Symmetry
INVARIANTS
    TitlePromises
CHECK_DEADLOCK FALSE
