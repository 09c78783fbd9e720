SPECIFICATION CFairSpec
CONSTANTS
    Invocations = {i1, i2}
    Starts <- MCStarts
    Paths  = {"p", "q", "r"}
    Cache  = "cache"
    Contents = {x, y, z}
    Size   <- MCSize
    Link   = Link
    NoTree = NoTree
    Commits    <- MCCommits
    MaxFileBytes  = 2
    MaxTotalBytes = 3
    MaxFiles      = 2
    MaxEdits      = 1
    FetchFaults = {"disk", "hub", "drop", "stray", "unsized"}
    Files = {"att", "bundle"}
    Missing = Missing
    Empty   = Empty
    Garbled = Garbled
    CliFaults = {"ref", "policyFile", "key", "mkdtemp", "policy", "cosign", "scratch", "rehash", "stdout", "out"}
    x = x
    y = y
    z = z
    i1  = i1
    i2 = i2
INVARIANTS
    CliTypeOK
    ArtifactIsWhole
    WithinLimits
    CommitIsWhole
    ZeroIsEarned
    AcceptedWasScanned
PROPERTY InvocationsEnd
