\* One client that logs out while a login is pending and starts another.
SPECIFICATION Spec
CONSTANTS
    Requests = {r1, r2, r3}
    Ops = {"StartLogin", "StartQR", "Logout"}
    Impatient = {}
    MaxInFlight = 1
    MaxGen = 3
SYMMETRY Symmetry
INVARIANTS
    NoReentrantRun
CHECK_DEADLOCK FALSE
