SPECIFICATION PFairSpec
CONSTANTS
    Attempts  = {a1, a2}
    Paths     = {weights}
    Bytes     = {b1, b2}
    Envelopes <- MixedEnvelopes
    SubjectOf <- MixedSubjects
    Content   <- MixedContent
    Bookkeeping   = {}
    Verifier      <- Operator
    ExpectedKeyid = "id1"
    GateConfig    <- AskingOpa
    DryRuns    = {a2}
    Faults     = {"crash", "osError", "disturb", "rot", "litter"}
    HostFaults = {"load", "mkdtemp", "raise", "vanish", "mirror", "rmtree"}
    Absent = Absent
    NoBlob = NoBlob
    Torn   = Torn
    NoCall = NoCall
    weights = weights
    cache   = cache
    b1 = b1
    b2 = b2
    e1 = e1
    e2 = e2
INVARIANTS
    PTypeOK
    OnlyPromotionsWrite
    ReturnsAudited
PROPERTY EveryAttemptEnds
