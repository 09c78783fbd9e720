SPECIFICATION ASpec
CONSTANTS
    Attempts   = {"early", "late", "other"}
    Denied     <- MCDenied
    Stamp      <- MCStamp
    Short      <- MCShort
    Length     <- MCLength
    MaxCuts    = 3
    SinkFaults = {"unencodable", "noDirectory", "shortWrite", "append", "sync", "retain", "crash"}
INVARIANTS
    ATypeOK
    OneCutCostsTwo
    DenialLossTakesTwo
PROPERTY NothingUndone
