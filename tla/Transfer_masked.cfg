\* Downloads of up to two parts: an attempt that wrote a part and failed, and a
\* repetition whose stream ends early.
SPECIFICATION Spec
CONSTANTS
    Kinds = {"download"}
    MaxSize = 2
    MaxAttempts = 3
    Base = 1
    Max = 30
    FloodRetries = 3
    FloodWaits = {1}
    Width = 7
INVARIANTS
    AcceptedIsWhole
CHECK_DEADLOCK FALSE
