\* Two clients start logins at the same time; none of them disconnects.
SPECIFICATION OrderedFairSpec
CONSTANTS
    Requests = {1, 2}
    Ops = {"StartLogin", "StartQR"}
    Impatient = {}
    MaxInFlight = 2
    MaxGen = 2
PROPERTIES
    EveryRequestReturns
CHECK_DEADLOCK FALSE
