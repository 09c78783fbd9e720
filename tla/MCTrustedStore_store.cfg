SPECIFICATION Spec
CONSTANTS
    Attempts  = {a1, a2}
    Paths     = {weights, cache}
    Bytes     = {b1}
    Envelopes = {e1, e2, e3}
    SubjectOf <- TwoPaths
    Faults    = {"crash", "osError", "disturb", "shortWrite", "rot", "litter"}
    Absent = Absent
    NoBlob = NoBlob
    Torn   = Torn
    NoCall = NoCall
    weights = weights
    cache   = cache
    b1 = b1
    b2 = b2
    e1 = e1
    e2 = e2
    e3 = e3
SYMMETRY Symmetry
INVARIANTS
    TypeOK
    EntryIntegrity
    CommitClaims
    SuccessIsStored
    RefusalHasCause
    NoLitter
PROPERTY NoClobber
