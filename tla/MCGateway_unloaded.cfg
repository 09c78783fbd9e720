SPECIFICATION Spec
CONSTANTS
    Artifacts <- AllArtifacts
    Policies  <- AllPolicies
    Configured = {"noop", "docker", "deferred"}
    MaxRaises = 0
    Signer     <- TheSigner
    GateConfig <- TheGate
    OtherDigest = other
    ref   = ref
    tree  = tree
    other = other
INVARIANTS
    ApprovedWasLoaded
CHECK_DEADLOCK FALSE
