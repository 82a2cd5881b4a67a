\* Two overlapping stores and a load, on a disk with room for four files.
SPECIFICATION Spec
CONSTANTS
    Writers = {w1, w2}
    Readers = {r1}
    Sessions = {s1, s2}
    Files = {f1, f2, f3, f4}
    NoFile = NoFile
    NotFound = NotFound
SYMMETRY Symmetry
INVARIANTS
    TypeOK
    NeverTorn
    Inv
PROPERTIES
    LeakNeedsTwoFailures
    ImplementsAtomicSession
CHECK_DEADLOCK FALSE
