--------------------------- MODULE PromotionGate ---------------------------
(***************************************************************************)
(* The decision of promotion/gate.py over a verified attestation: the      *)
(* embedded floor and, when the operator asks for it, OPA, deny overrides.  *)
(* A gate configuration is [keyids, asymmetric, opa]: the keyid allowlist  *)
(* (empty: none), --require-asymmetric, and whether the OPA CLI is asked.   *)
(***************************************************************************)
EXTENDS Evidence

Confined == {"docker", "gvisor"}

(* What one "opa eval" can come to.  Only a decision document that says allow
   allows; a missing binary, a timeout, an exit code and output that does not
   parse are denials. *)
OpaAnswers == {"allow", "deny", "unavailable", "timeout", "exit", "unparseable"}
OpaAllows(answer) == answer = "allow"

(* build_promotion_input: the fields the gates read. *)
InputDoc(verification, att) ==
    [verification |-> verification,
     decision     |-> att.decision,
     executable   |-> att.type \in ExecutableTypes,
     rigor        |-> att.rigor,
     confinement  |-> att.confinement,
     policy       |-> att.policy]

(* Mutant: a signed approval is taken at its word, whatever the artifact's type. *)
FloorAllowsAnyRigor(doc, cfg) ==
    /\ doc.verification.ok
    /\ \A c \in DOMAIN doc.verification.checks : doc.verification.checks[c]
    /\ doc.decision = "approve"
    /\ doc.policy.id /\ doc.policy.version

(* EmbeddedPromotionGate: allowed when no clause gives a reason to deny. *)
FloorAllows(doc, cfg) ==
    /\ doc.verification.ok
    /\ \A c \in DOMAIN doc.verification.checks : doc.verification.checks[c]
    /\ doc.decision = "approve"
    /\ doc.executable => doc.rigor = "behavioral" /\ doc.confinement \in Confined
    /\ doc.policy.id /\ doc.policy.version
    /\ cfg.asymmetric => doc.verification.scheme # "hmac-sha256"
    /\ cfg.keyids # {} => doc.verification.keyid \in cfg.keyids

(* CompositePromotionGate: OPA can only restrict. *)
GateAllows(doc, cfg, answer) ==
    FloorAllows(doc, cfg) /\ (cfg.opa => OpaAllows(answer))
=============================================================================
