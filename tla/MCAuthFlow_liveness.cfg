\* One client that calls again once its call is answered or cut off (what follows
\* the cut-off of the last call is what follows that of the second).
SPECIFICATION OrderedFairSpec
CONSTANTS
    Requests = {1, 2, 3}
    Ops = {"StartLogin", "SubmitCode", "SubmitPassword", "StartQR", "Status", "Logout"}
    Impatient = {1, 2}
    MaxInFlight = 1
    MaxGen = 6
PROPERTIES
    EveryOtherRequestReturns
    NoGoroutineLeak
CHECK_DEADLOCK FALSE
