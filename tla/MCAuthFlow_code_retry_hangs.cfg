\* One client whose second request is cut off and who then retries.
SPECIFICATION OrderedFairSpec
CONSTANTS
    Requests = {1, 2, 3}
    Ops = {"StartLogin", "SubmitCode", "SubmitPassword"}
    Impatient = {2}
    MaxInFlight = 1
    MaxGen = 3
PROPERTIES
    SubmitCodeReturns
CHECK_DEADLOCK FALSE
