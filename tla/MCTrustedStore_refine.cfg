SPECIFICATION FairSpec
CONSTANTS
    Attempts  = {a1, a2}
    Paths     = {weights}
    Bytes     = {b1, b2}
    Envelopes = {e1, e2, e3}
    SubjectOf <- OnePath
    Faults    = {"crash", "osError", "disturb", "rot"}
    Absent = Absent
    NoBlob = NoBlob
    Torn   = Torn
    NoCall = NoCall
    weights = weights
    cache   = cache
    b1 = b1
    b2 = b2
    e1 = e1
    e2 = e2
    e3 = e3
PROPERTIES
    Linearizable
    CallsDecided
