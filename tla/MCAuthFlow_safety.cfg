\* Three clients at once, on every endpoint, each of which may disconnect.
SPECIFICATION Spec
CONSTANTS
    Requests = {r1, r2, r3}
    Ops = {"StartLogin", "SubmitCode", "SubmitPassword", "StartQR", "Status", "Logout"}
    Impatient = {r1, r2, r3}
    MaxInFlight = 3
    MaxGen = 6
SYMMETRY Symmetry
INVARIANTS
    TypeOK
    LiveHandle
    StateFollowsFlow
    OnlyCurrentRunsFree
    LoggedInEarned
    AnswersPublishedState
    PreemptionWaits
    FullInv
PROPERTIES
    SupersededWritesIgnored
    SoleWriter
    ImplementsLifecycle
CHECK_DEADLOCK FALSE
