------------------------------ MODULE Gateway ------------------------------
(***************************************************************************)
(* From an artifact to its promotion decision: _produce_signed of the CLI  *)
(* ("mig ingest": scan, attest, sign), then, in another process and over    *)
(* whatever the source delivers by then, the verification and the embedded *)
(* gate of "mig promote".  The store behind that gate is in Promotion.      *)
(***************************************************************************)
EXTENDS Pipeline, PromotionGate

CONSTANTS
    Signer,       \* [scheme, keyid, key]
    GateConfig,   \* of the promotion gate, OPA not asked
    OtherDigest   \* the digest of any other bytes

VARIABLES
    envelope,   \* <<>>, or the one signed envelope
    live,       \* the digest of what the source delivers at promotion
    stage       \* "scan", then how far the attestation got

vars == <<scan, envelope, live, stage>>

Stages == {"scan", "refused", "signed", "allowed", "denied"}

Init ==
    /\ ScanInit
    /\ envelope = <<>>
    /\ live = artifact.digest
    /\ stage = "scan"

Scan ==
    /\ stage = "scan"
    /\ ScanStep
    /\ UNCHANGED <<envelope, live, stage>>

PipelineVerdict == [ref |-> artifact.ref, results |-> ResultSet, decision |-> decision]

(* build_attestation raises, or its statement is signed. *)
Attest ==
    /\ stage = "scan" /\ decision \in Decisions
    /\ IF CanAttest(artifact, PipelineVerdict)
       THEN /\ envelope' = <<SignAttestation(
                   BuildAttestation(artifact, PipelineVerdict,
                                    [id |-> policy.id, version |-> policy.version],
                                    Confinement(sandbox)),
                   Signer)>>
            /\ stage' = "signed"
       ELSE stage' = "refused" /\ UNCHANGED envelope
    /\ UNCHANGED <<scan, live>>

Verifier == [scheme |-> Signer.scheme, key |-> Signer.key]

(* The source is fetched again, verified against the envelope and gated. *)
Promote ==
    /\ stage = "signed"
    /\ live' \in {artifact.digest, OtherDigest}
    /\ LET env == Head(envelope)
           v   == VerifyAttestation(env, Verifier, AnyKeyid, {live'})
       IN  stage' = IF ~v.raises /\ FloorAllows(InputDoc(v, env.payload.att), GateConfig)
                    THEN "allowed" ELSE "denied"
    /\ UNCHANGED <<scan, envelope>>

(* It ends with a promotion decision, a refused attestation or a PolicyError. *)
Next == Scan \/ Attest \/ Promote

Spec == Init /\ [][Next]_vars

-----------------------------------------------------------------------------
GatewayTypeOK ==
    /\ ScanTypeOK
    /\ Len(envelope) <= 1
    /\ live \in {artifact.digest, OtherDigest}
    /\ stage \in Stages

(* What each gate is there to see, and which of it is enough to fail. *)
Sees(gate) ==
    CASE gate = "format_allowlist" ->
            {"pickleFormat", "packedPickle", "arrayFormat", "graphFormat", "archive", "python",
             "remoteCode"}
      [] gate = "digest"               -> {"badHeader", "undecodableHeader"}
      [] gate = "serialization_safety" -> {"dangerousGlobal", "suspiciousGlobal", "unscannable"}
      [] gate = "secrets"              -> {"secret"}
      [] gate = "license_metadata"     -> {"restrictive"}
      [] gate = "static_code"          -> {"execCall", "capabilityCall", "unparseable"}
      [] gate = "prompt_injection"     -> {"injection"}
      [] gate = "agent_skill"          -> {"dangerousGrant", "runnable", "python"}
      [] gate = "behavioral"           -> {}

Alarming(type) == UNION {Sees(g) : g \in {x \in GateIds : type \in AppliesTo(x)}}

Conclusive == {"pickleFormat", "packedPickle", "badHeader", "dangerousGlobal", "unscannable",
               "execCall"}

(* What is approved shows nothing that any gate for its type is there to see,
   whichever gate raised, whether or not the scanner was there and whatever the
   policy permits; and a type that executes code was run in the sandbox and
   did not call out (I8, I9, engine.py:5-11). *)
ApprovedIsClean ==
    decision = "approve" =>
        /\ artifact.traits \cap Alarming(artifact.type) = {}
        /\ artifact.type \in ExecutableTypes =>
              /\ sandbox \in {"docker", "gvisor"}
              /\ detonation.document = "observed" /\ ~detonation.egress

(* Heuristic signals lead to review, never on their own to a rejection (I9):
   what is rejected shows something conclusive, has failed its detonation, or
   meets a rule that says so. *)
SignalsNeverReject ==
    decision = "reject" =>
        \/ artifact.traits \cap Conclusive # {}
        \/ detonation.egress
        \/ \E i \in DOMAIN policy.rules :
              /\ policy.rules[i].action = "reject"
              /\ RuleMatches(policy.rules[i], artifact, ResultSet)

Ran == {r.gate : r \in ResultSet}

(* An analyst sees everything that is wrong: every applicable cheap or medium
   gate has its one result, in cost order, and the expensive one is missing only
   where one of them failed (pipeline.py:8-11). *)
EverythingCollected ==
    decision # "none" =>
        /\ \A i, j \in DOMAIN results : i < j => Before(results[i].gate, results[j].gate)
        /\ \/ Ran = Applicable(artifact.type)
           \/ /\ Ran = Applicable(artifact.type) \ {"behavioral"}
              /\ \E r \in ResultSet : r.status = "fail"

(* Sparing the expensive gate never changes the decision: whatever it would
   have found, the artifact is rejected anyway, unless the finding is one that
   a malformed rule trips over. *)
SparingIsNeutral ==
    (decision \in Decisions /\ "behavioral" \notin Ran) =>
        \A d \in Detonations("files", TRUE) :
            \A r \in RunGate("behavioral", d) :
                Evaluate(policy, artifact, ResultSet \cup {r}) \in {decision, "PolicyError"}

(* A verdict of the built-in gates can always be attested: no executed gate is
   left without its scanner's name and version, so ingest never discards a scan
   (attestation.py:61-83, builder.py:40-61). *)
VerdictsAttestable == stage # "refused"

(* What the promotion gate lets through is, byte for byte, what was scanned,
   and the scan approved it; executable types ran under confinement. *)
PromotedWasVetted ==
    stage = "allowed" =>
        /\ live = artifact.digest
        /\ decision = "approve"
        /\ artifact.type \in ExecutableTypes =>
              \E r \in ResultSet : r.gate = "behavioral" /\ r.rigor = "behavioral" /\ r.status = "pass"

(* What ingest approves, promotion accepts: the two decisions agree on every
   unchanged artifact whose policy is identified. *)
ApprovedIsPromotable ==
    (decision = "approve" /\ stage = "denied") =>
        live # artifact.digest \/ ~policy.id \/ ~policy.version

(* The claim of docker.py:364-367 that a container that could not read the
   artifact is never a clean behavioural pass an executable rides to an
   approval. *)
ApprovedWasLoaded ==
    (decision = "approve" /\ artifact.type \in ExecutableTypes) =>
        detonation.loaded \/ detonation.egress \/ detonation.lookup

(* The claim of digest.py:5-6 that a malformed safetensors header fails the gate:
   such an artifact is rejected. *)
MalformedHeaderRejected ==
    (decision \in Decisions /\ artifact.traits \cap {"badHeader", "undecodableHeader"} # {})
        => decision = "reject"
=============================================================================
