SPECIFICATION DSpec
CONSTANTS
    Attempts   = {a1, a2}
    Paths      = {p1}
    MaxOutages = 2
    DiskFaults = {"osError", "dirSync", "mirror"}
SYMMETRY Symmetry
INVARIANTS
    DTypeOK
    MarkedIsWhole
    RecordedIsStored
    SuccessSurvives
    OutagesLeaveNoScar
