SPECIFICATION Spec
CONSTANTS
    Artifacts <- AllArtifacts
    Policies  <- AllPolicies
    Configured = {"noop", "docker", "deferred"}
    MaxRaises = 1
    Signer     <- TheSigner
    GateConfig <- TheGate
    OtherDigest = other
    ref   = ref
    tree  = tree
    other = other
INVARIANTS
    GatewayTypeOK
    ApprovedIsClean
    SignalsNeverReject
    EverythingCollected
    SparingIsNeutral
    VerdictsAttestable
    PromotedWasVetted
    ApprovedIsPromotable
CHECK_DEADLOCK FALSE
