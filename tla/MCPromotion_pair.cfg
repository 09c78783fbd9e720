SPECIFICATION PSpec
CONSTANTS
    Attempts  = {a1, a2}
    Paths     = {weights}
    Bytes     = {b1, b2}
    Envelopes <- AllEnvelopes
    SubjectOf <- AllSubjects
    Content   <- AllContent
    Bookkeeping   = {}
    Verifier      <- Operator
    ExpectedKeyid = "id1"
    GateConfig    <- Plain
    DryRuns    = {}
    Faults     = {"osError", "disturb", "shortWrite", "rot"}
    HostFaults = {"load", "mkdtemp", "raise", "vanish", "mirror", "rmtree"}
    Absent = Absent
    NoBlob = NoBlob
    Torn   = Torn
    NoCall = NoCall
    weights = weights
    cache   = cache
    b1 = b1
    b2 = b2
    e1 = e1
    e2 = e2
SYMMETRY Symmetry
INVARIANTS
    OnlyVettedIsStored
    VettedIsPromoted
    OutcomeIsTruthful
