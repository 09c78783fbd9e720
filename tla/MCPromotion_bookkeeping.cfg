SPECIFICATION PSpec
CONSTANTS
    Attempts  = {a1, a2}
    Paths     = {weights, cache}
    Bytes     = {b1}
    Envelopes = {e1, e2}
    SubjectOf <- SoundSubjects
    Content   <- SoundOnly
    Bookkeeping   = {cache}
    Verifier      <- Operator
    ExpectedKeyid = "any keyid"
    GateConfig    <- Plain
    DryRuns    = {}
    Faults     = {}
    HostFaults = {}
    Absent = Absent
    NoBlob = NoBlob
    Torn   = Torn
    NoCall = NoCall
    weights = weights
    cache   = cache
    b1 = b1
    b2 = b2
    e1 = e1
    e2 = e2
INVARIANT BookkeepingIsHarmless
