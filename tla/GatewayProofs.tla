--------------------------- MODULE GatewayProofs ---------------------------
(***************************************************************************)
(* For every policy, every artifact, any number of gates that raise and     *)
(* every end a detonation can come to: type correctness, that the loop      *)
(* collects everything, the neutrality of sparing the expensive gate, what  *)
(* an approval and a rejection mean, that every verdict can be attested,    *)
(* and that promotion and ingest agree in both directions.                  *)
(***************************************************************************)
EXTENDS Gateway, PolicyEngineProofs, SequenceTheorems

StaticStatuses == {"pass", "warn", "fail"}

(* What every result of a gate is like: attributed if the gate executed, and
   behavioural only if it is that gate's. *)
Sound(r) ==
    /\ r.gate \in GateIds /\ r.status \in GateStatuses /\ r.rigor \in RigorLevels
    /\ r.status \in ExecutedStatuses => r.named /\ r.versioned
    /\ r.rigor = "behavioral" => r.gate = "behavioral"

PossibleResults ==
    {ErrorResult(g) : g \in GateIds} \cup
    UNION {Evaluates(g, a, s, d) :
        g \in GateIds, a \in Artifacts, s \in Configured, d \in Detonation}

TypeInv ==
    /\ artifact \in Artifacts /\ policy \in Policies /\ sandbox \in Configured
    /\ pending \subseteq Applicable(artifact.type)
    /\ results \in Seq(PossibleResults)
    /\ shortCircuit \in BOOLEAN
    /\ detonation \in Detonation
    /\ decision \in Decisions \cup {"none", "PolicyError"}
    /\ live \in {artifact.digest, OtherDigest}
    /\ stage \in Stages \ {"refused"}

(* The expensive gate is to come, has run, or was spared for a failure. *)
LoopInv ==
    /\ shortCircuit => \E r \in ResultSet : r.status = "fail"
    /\ "behavioral" \in pending \cup Ran \/ shortCircuit

(* The decision is the one the engine makes of these arguments and results. *)
DecisionInv ==
    decision # "none" =>
        /\ pending = {}
        /\ \A p, a, rs : p = policy /\ a = artifact /\ rs = ResultSet => decision = Evaluate(p, a, rs)

(* What was signed says what was scanned and decided. *)
EnvelopeInv ==
    /\ stage = "scan" => envelope = <<>>
    /\ stage # "scan" =>
          /\ decision \in Decisions
          /\ \E e : /\ envelope = <<e>>
                    /\ e.payload.subject = artifact.digest
                    /\ e.payload.att.decision = decision

AllowedInv == stage = "allowed" => live = artifact.digest /\ decision = "approve"

GInv == TypeInv /\ LoopInv /\ DecisionInv /\ EnvelopeInv /\ AllowedInv

-----------------------------------------------------------------------------
LEMMA Known ==
    /\ "format_allowlist" \in GateIds /\ "digest" \in GateIds
    /\ "serialization_safety" \in GateIds /\ "secrets" \in GateIds
    /\ "license_metadata" \in GateIds /\ "static_code" \in GateIds
    /\ "prompt_injection" \in GateIds /\ "agent_skill" \in GateIds /\ "behavioral" \in GateIds
  BY DEF GateIds

(* Every static gate is attributed and of static rigor. *)
LEMMA StaticSound ==
    ASSUME NEW g \in GateIds, NEW status \in StaticStatuses, NEW findings,
           NEW r \in Static(g, status, findings)
    PROVE  Sound(r) /\ r.gate = g
<1>1. r = [gate |-> g, status |-> status, rigor |-> "static", findings |-> findings,
           named |-> TRUE, versioned |-> TRUE]
  BY DEF Static, Result
<1>2. /\ r.gate = g /\ r.status = status /\ r.rigor = "static"
      /\ r.named = TRUE /\ r.versioned = TRUE
  BY <1>1
<1>3. status \in GateStatuses /\ "static" \in RigorLevels /\ "static" # "behavioral"
  BY DEF StaticStatuses, GateStatuses, RigorLevels
<1> QED BY <1>2, <1>3 DEF Sound

LEMMA StatusStatic ==
    ASSUME NEW findings
    PROVE  FailOnHigh(findings) \in StaticStatuses /\ WarnOnly(findings) \in StaticStatuses
  BY DEF FailOnHigh, WarnOnly, StaticStatuses

LEMMA StaticGates ==
    ASSUME NEW a
    PROVE  /\ \A r \in Digest(a)              : Sound(r) /\ r.gate = "digest"
           /\ \A r \in FormatAllowlist(a)     : Sound(r) /\ r.gate = "format_allowlist"
           /\ \A r \in SerializationSafety(a) : Sound(r) /\ r.gate = "serialization_safety"
           /\ \A r \in Secrets(a)             : Sound(r) /\ r.gate = "secrets"
           /\ \A r \in LicenseMetadata(a)     : Sound(r) /\ r.gate = "license_metadata"
           /\ \A r \in StaticCode(a)          : Sound(r) /\ r.gate = "static_code"
           /\ \A r \in PromptInjection(a)     : Sound(r) /\ r.gate = "prompt_injection"
           /\ \A r \in Skill(a)               : Sound(r) /\ r.gate = "agent_skill"
<1>1. ASSUME NEW r \in Digest(a)
      PROVE  \E status \in StaticStatuses : \E f : r \in Static("digest", status, f)
  BY DEF Digest, StaticStatuses
<1>2. ASSUME NEW r \in FormatAllowlist(a)
      PROVE  \E f : r \in Static("format_allowlist", FailOnHigh(f), f)
  BY DEF FormatAllowlist
<1>3. ASSUME NEW r \in SerializationSafety(a)
      PROVE  \E status \in StaticStatuses : \E f : r \in Static("serialization_safety", status, f)
  BY DEF SerializationSafety, WithoutPicklescan, WithPicklescan, StaticStatuses
<1>4. ASSUME NEW r \in Secrets(a)
      PROVE  \E f : r \in Static("secrets", WarnOnly(f), f)
  BY DEF Secrets
<1>5. ASSUME NEW r \in LicenseMetadata(a)
      PROVE  \E status \in StaticStatuses : \E f : r \in Static("license_metadata", status, f)
  BY DEF LicenseMetadata, StaticStatuses
<1>6. ASSUME NEW r \in StaticCode(a)
      PROVE  \E f : r \in Static("static_code", FailOnHigh(f), f)
  BY DEF StaticCode
<1>7. ASSUME NEW r \in PromptInjection(a)
      PROVE  \E f : r \in Static("prompt_injection", WarnOnly(f), f)
  BY DEF PromptInjection
<1>8. ASSUME NEW r \in Skill(a)
      PROVE  \E f : r \in Static("agent_skill", WarnOnly(f), f)
  BY DEF Skill
<1>9.  \A r \in Digest(a) : Sound(r) /\ r.gate = "digest"
  BY <1>1, StaticSound, Known
<1>10. \A r \in FormatAllowlist(a) : Sound(r) /\ r.gate = "format_allowlist"
  BY <1>2, StatusStatic, StaticSound, Known
<1>11. \A r \in SerializationSafety(a) : Sound(r) /\ r.gate = "serialization_safety"
  BY <1>3, StaticSound, Known
<1>12. \A r \in Secrets(a) : Sound(r) /\ r.gate = "secrets"
  BY <1>4, StatusStatic, StaticSound, Known
<1>13. \A r \in LicenseMetadata(a) : Sound(r) /\ r.gate = "license_metadata"
  BY <1>5, StaticSound, Known
<1>14. \A r \in StaticCode(a) : Sound(r) /\ r.gate = "static_code"
  BY <1>6, StatusStatic, StaticSound, Known
<1>15. \A r \in PromptInjection(a) : Sound(r) /\ r.gate = "prompt_injection"
  BY <1>7, StatusStatic, StaticSound, Known
<1>16. \A r \in Skill(a) : Sound(r) /\ r.gate = "agent_skill"
  BY <1>8, StatusStatic, StaticSound, Known
<1> QED BY <1>9, <1>10, <1>11, <1>12, <1>13, <1>14, <1>15, <1>16

(* The sandbox reports only statuses and rigors there are. *)
LEMMA ObserveSound ==
    ASSUME NEW sb, NEW d
    PROVE  /\ Observe(sb, d, TRUE).status \in GateStatuses
           /\ Observe(sb, d, TRUE).rigor \in RigorLevels
  BY DEF Observe, ObserveRun, ObserveDocument, Inconclusive, Observation, GateStatuses, RigorLevels

LEMMA BehavioralSound ==
    ASSUME NEW a, NEW sb, NEW d, NEW r \in Behavioral(a, sb, d)
    PROVE  Sound(r) /\ r.gate = "behavioral"
<1> DEFINE o == Observe(sb, d, TRUE)
<1>1. r = [gate |-> "behavioral", status |-> o.status, rigor |-> o.rigor,
           findings |-> o.findings, named |-> TRUE, versioned |-> TRUE]
  BY DEF Behavioral, Result
<1>2. /\ r.gate = "behavioral" /\ r.status = o.status /\ r.rigor = o.rigor
      /\ r.named = TRUE /\ r.versioned = TRUE
  BY <1>1
<1> HIDE DEF o
<1>3. o.status \in GateStatuses /\ o.rigor \in RigorLevels
  BY ObserveSound DEF o
<1> QED BY <1>2, <1>3, Known DEF Sound

LEMMA EvaluatesSound ==
    ASSUME NEW g \in GateIds, NEW a, NEW sb, NEW d, NEW r \in Evaluates(g, a, sb, d)
    PROVE  Sound(r) /\ r.gate = g
<1>1. CASE g = "digest"
  <2>1. Evaluates(g, a, sb, d) = Digest(a)  BY <1>1, Zenon DEF Evaluates
  <2> QED BY <2>1, <1>1, StaticGates
<1>2. CASE g = "format_allowlist"
  <2>1. Evaluates(g, a, sb, d) = FormatAllowlist(a)  BY <1>2, Zenon DEF Evaluates
  <2> QED BY <2>1, <1>2, StaticGates
<1>3. CASE g = "serialization_safety"
  <2>1. Evaluates(g, a, sb, d) = SerializationSafety(a)  BY <1>3, Zenon DEF Evaluates
  <2> QED BY <2>1, <1>3, StaticGates
<1>4. CASE g = "secrets"
  <2>1. Evaluates(g, a, sb, d) = Secrets(a)  BY <1>4, Zenon DEF Evaluates
  <2> QED BY <2>1, <1>4, StaticGates
<1>5. CASE g = "license_metadata"
  <2>1. Evaluates(g, a, sb, d) = LicenseMetadata(a)  BY <1>5, Zenon DEF Evaluates
  <2> QED BY <2>1, <1>5, StaticGates
<1>6. CASE g = "static_code"
  <2>1. Evaluates(g, a, sb, d) = StaticCode(a)  BY <1>6, Zenon DEF Evaluates
  <2> QED BY <2>1, <1>6, StaticGates
<1>7. CASE g = "prompt_injection"
  <2>1. Evaluates(g, a, sb, d) = PromptInjection(a)  BY <1>7, Zenon DEF Evaluates
  <2> QED BY <2>1, <1>7, StaticGates
<1>8. CASE g = "agent_skill"
  <2>1. Evaluates(g, a, sb, d) = Skill(a)  BY <1>8, Zenon DEF Evaluates
  <2> QED BY <2>1, <1>8, StaticGates
<1>9. CASE g = "behavioral"
  <2>1. Evaluates(g, a, sb, d) = Behavioral(a, sb, d)  BY <1>9, Zenon DEF Evaluates
  <2> QED BY <2>1, <1>9, BehavioralSound
<1> QED BY <1>1, <1>2, <1>3, <1>4, <1>5, <1>6, <1>7, <1>8, <1>9 DEF GateIds

LEMMA ErrorSound ==
    ASSUME NEW g \in GateIds
    PROVE  Sound(ErrorResult(g)) /\ ErrorResult(g).gate = g /\ ErrorResult(g).status = "error"
<1>1. /\ ErrorResult(g).gate = g /\ ErrorResult(g).status = "error"
      /\ ErrorResult(g).rigor = "none"
  BY DEF ErrorResult
<1> QED BY <1>1 DEF Sound, GateStatuses, RigorLevels, ExecutedStatuses

LEMMA PossibleSound ==
    ASSUME NEW r \in PossibleResults
    PROVE  Sound(r)
<1>1. CASE \E g \in GateIds : r = ErrorResult(g)
  BY <1>1, ErrorSound
<1>2. CASE \E g \in GateIds, a \in Artifacts, s \in Configured, d \in Detonation :
              r \in Evaluates(g, a, s, d)
  BY <1>2, EvaluatesSound
<1> QED BY <1>1, <1>2 DEF PossibleResults

-----------------------------------------------------------------------------
(* The scan *)

LEMMA HappensTyped ==
    ASSUME NEW g, NEW d \in Happens(g)
    PROVE  d \in Detonation
<1>1. Silent \in Detonation
  BY DEF Silent, Detonation
<1>2. ASSUME NEW mount, NEW c, NEW e \in Detonations(mount, c)
      PROVE  e \in Detonation
  BY <1>1, <1>2 DEF Detonations, Harness, Detonation
<1> QED BY <1>1, <1>2 DEF Happens

LEMMA RunGateSound ==
    ASSUME TypeInv, NEW g \in GateIds, NEW d \in Happens(g), NEW r \in RunGate(g, d)
    PROVE  r \in PossibleResults /\ r.gate = g
<1>1. d \in Detonation
  BY HappensTyped
<1>2. CASE r \in Evaluates(g, artifact, sandbox, d)
  <2>1. r \in PossibleResults
    BY <1>1, <1>2 DEF PossibleResults, TypeInv
  <2>2. r.gate = g
    BY <1>2, EvaluatesSound
  <2> QED BY <2>1, <2>2
<1>3. CASE r = ErrorResult(g)
  BY <1>3, ErrorSound DEF PossibleResults
<1> QED BY <1>2, <1>3 DEF RunGate

LEMMA AppendRange ==
    ASSUME NEW S, NEW s \in Seq(S), NEW r \in S
    PROVE  /\ Append(s, r) \in Seq(S)
           /\ {Append(s, r)[i] : i \in DOMAIN Append(s, r)} = {s[i] : i \in DOMAIN s} \cup {r}
<1>1. Append(s, r) \in Seq(S) /\ DOMAIN Append(s, r) = 1..(Len(s) + 1) /\ DOMAIN s = 1..Len(s)
  OBVIOUS
<1>2. Append(s, r)[Len(s) + 1] = r /\ \A i \in 1..Len(s) : Append(s, r)[i] = s[i]
  OBVIOUS
<1>3. 1..(Len(s) + 1) = 1..Len(s) \cup {Len(s) + 1}
  OBVIOUS
<1> QED BY <1>1, <1>2, <1>3

LEMMA NextGatePreserves ==
    ASSUME GInv, stage = "scan", NEW g \in GateIds, NextGate(g), UNCHANGED <<envelope, live, stage>>
    PROVE  GInv'
<1>0. PICK d \in Happens(g) : \E r \in RunGate(g, d) :
          /\ results' = Append(results, r)
          /\ shortCircuit' = (shortCircuit \/ SparesExpensive(g, r))
          /\ detonation' = d
  BY DEF NextGate
<1>1. PICK r \in RunGate(g, d) :
          /\ results' = Append(results, r)
          /\ shortCircuit' = (shortCircuit \/ SparesExpensive(g, r))
          /\ detonation' = d
  BY <1>0
<1>2. r \in PossibleResults /\ r.gate = g /\ d \in Detonation
  BY RunGateSound, HappensTyped DEF GInv
<1>3. /\ results' \in Seq(PossibleResults)
      /\ ResultSet' = ResultSet \cup {r}
  BY <1>1, <1>2, AppendRange DEF GInv, TypeInv, ResultSet
<1>4. Ran' = Ran \cup {g}
  BY <1>2, <1>3 DEF Ran
<1>5. g \in pending /\ pending' = pending \ {g} /\ UNCHANGED <<artifact, policy, sandbox, decision>>
  BY DEF NextGate, IsNext
<1>6. decision = "none"
  BY <1>5 DEF GInv, DecisionInv
<1>7. TypeInv'
  BY <1>1, <1>2, <1>3, <1>5 DEF GInv, TypeInv
<1>8. LoopInv'
  <2>1. shortCircuit' => \E x \in ResultSet' : x.status = "fail"
    BY <1>1, <1>3 DEF GInv, LoopInv, SparesExpensive
  <2>2. "behavioral" \in pending' \cup Ran' \/ shortCircuit'
    BY <1>1, <1>4, <1>5 DEF GInv, LoopInv
  <2> QED BY <2>1, <2>2 DEF LoopInv
<1>9. DecisionInv' /\ EnvelopeInv' /\ AllowedInv'
  BY <1>5, <1>6 DEF GInv, DecisionInv, EnvelopeInv, AllowedInv
<1> QED BY <1>7, <1>8, <1>9 DEF GInv

LEMMA SkipGatePreserves ==
    ASSUME GInv, stage = "scan", NEW g \in GateIds, SkipGate(g), UNCHANGED <<envelope, live, stage>>
    PROVE  GInv'
<1>1. /\ g \in pending /\ pending' = pending \ {g} /\ shortCircuit
      /\ UNCHANGED <<artifact, policy, sandbox, results, shortCircuit, detonation, decision>>
  BY DEF SkipGate, IsNext
<1>2. decision = "none"
  BY <1>1 DEF GInv, DecisionInv
<1>3. ResultSet' = ResultSet
  BY <1>1 DEF ResultSet
<1>4. TypeInv'
  BY <1>1 DEF GInv, TypeInv
<1>5. LoopInv'
  BY <1>1, <1>3 DEF GInv, LoopInv
<1>6. DecisionInv' /\ EnvelopeInv' /\ AllowedInv'
  BY <1>1, <1>2 DEF GInv, DecisionInv, EnvelopeInv, AllowedInv
<1> QED BY <1>4, <1>5, <1>6 DEF GInv

LEMMA EvaluateTyped ==
    ASSUME NEW p, NEW a, NEW rs
    PROVE  Evaluate(p, a, rs) \in Decisions \cup {"PolicyError"}
  BY RulesOnlyRaise

LEMMA DecidePreserves ==
    ASSUME GInv, stage = "scan", Decide, UNCHANGED <<envelope, live, stage>>
    PROVE  GInv'
<1>1. /\ pending = {} /\ decision' = Evaluate(policy, artifact, ResultSet)
      /\ UNCHANGED <<artifact, policy, sandbox, pending, results, shortCircuit, detonation>>
  BY DEF Decide
<1>2. ResultSet' = ResultSet /\ Ran' = Ran
  BY <1>1 DEF ResultSet, Ran
<1>3. TypeInv'
  BY <1>1, EvaluateTyped DEF GInv, TypeInv
<1>4. LoopInv'
  BY <1>1, <1>2 DEF GInv, LoopInv
<1>5. DecisionInv'
  BY <1>1, <1>2 DEF DecisionInv
<1>6. EnvelopeInv' /\ AllowedInv'
  BY <1>1 DEF GInv, EnvelopeInv, AllowedInv
<1> QED BY <1>3, <1>4, <1>5, <1>6 DEF GInv

-----------------------------------------------------------------------------
(* Attesting and promoting *)

(* No result of a gate keeps a verdict from being attested. *)
LEMMA Attestable ==
    ASSUME GInv
    PROVE  CanAttest(artifact, PipelineVerdict)
<1>1. artifact.digest # NoDigest
  BY ArtifactAssumption DEF GInv, TypeInv
<1>2. \A r \in ResultSet : Sound(r)
  BY PossibleSound DEF GInv, TypeInv, ResultSet
<1>3. AttributionProblems(ResultSet) = {}
  BY <1>2 DEF AttributionProblems, Executed, Sound
<1>4. PipelineVerdict.ref = artifact.ref /\ PipelineVerdict.results = ResultSet
  BY DEF PipelineVerdict
<1> QED BY <1>1, <1>3, <1>4 DEF CanAttest

LEMMA AttestPreserves ==
    ASSUME GInv, Attest
    PROVE  GInv'
<1> DEFINE e == SignAttestation(
                   BuildAttestation(artifact, PipelineVerdict,
                                    [id |-> policy.id, version |-> policy.version],
                                    Confinement(sandbox)),
                   Signer)
<1>1. /\ stage = "scan" /\ stage' = "signed" /\ decision \in Decisions
      /\ envelope' = <<e>>
      /\ UNCHANGED scan /\ live' = live
  BY Attestable DEF Attest
<1>2. UNCHANGED <<artifact, policy, sandbox, pending, results, shortCircuit, detonation, decision>>
  BY <1>1 DEF scan
<1>3. e.payload.subject = artifact.digest /\ e.payload.att.decision = decision
  BY DEF SignAttestation, BuildAttestation, PipelineVerdict
<1> HIDE DEF e
<1>4. TypeInv'
  BY <1>1, <1>2 DEF GInv, TypeInv, Stages
<1>5. ResultSet' = ResultSet /\ Ran' = Ran
  BY <1>2 DEF ResultSet, Ran
<1>6. LoopInv' /\ DecisionInv'
  BY <1>2, <1>5 DEF GInv, LoopInv, DecisionInv
<1>7. EnvelopeInv' /\ AllowedInv'
  BY <1>1, <1>2, <1>3 DEF EnvelopeInv, AllowedInv
<1> QED BY <1>4, <1>6, <1>7 DEF GInv

(* The gate allows only an approval of the bytes it was given. *)
LEMMA AllowedMeans ==
    ASSUME NEW env, NEW verifier, NEW l,
           LET v == VerifyAttestation(env, verifier, AnyKeyid, {l})
           IN  ~v.raises /\ FloorAllows(InputDoc(v, env.payload.att), GateConfig)
    PROVE  l = env.payload.subject /\ env.payload.att.decision = "approve"
<1> DEFINE v == VerifyAttestation(env, verifier, AnyKeyid, {l})
<1>1. v.ok /\ env.payload.att.decision = "approve"
  BY DEF FloorAllows, InputDoc
<1>2. Checks(env, verifier, AnyKeyid, {l}).digest_rebind
  BY <1>1 DEF VerifyAttestation, Checks
<1> QED BY <1>1, <1>2 DEF Checks

LEMMA PromotePreserves ==
    ASSUME GInv, Promote
    PROVE  GInv'
<1>1. PICK e : /\ envelope = <<e>>
               /\ e.payload.subject = artifact.digest
               /\ e.payload.att.decision = decision
  BY DEF Promote, GInv, EnvelopeInv
<1>2. /\ stage = "signed" /\ stage' \in {"allowed", "denied"}
      /\ live' \in {artifact.digest, OtherDigest}
      /\ UNCHANGED <<artifact, policy, sandbox, pending, results, shortCircuit, detonation, decision>>
      /\ envelope' = envelope
  BY DEF Promote, scan
<1>3. stage' = "allowed" => live' = artifact.digest /\ decision = "approve"
  <2> SUFFICES ASSUME stage' = "allowed" PROVE live' = artifact.digest /\ decision = "approve"
    OBVIOUS
  <2>1. Head(envelope) = e
    BY <1>1
  <2>2. LET v == VerifyAttestation(e, Verifier, AnyKeyid, {live'})
        IN  ~v.raises /\ FloorAllows(InputDoc(v, e.payload.att), GateConfig)
    BY <2>1 DEF Promote
  <2> QED BY <1>1, <2>2, AllowedMeans
<1>4. TypeInv'
  BY <1>2 DEF GInv, TypeInv, Stages
<1>5. ResultSet' = ResultSet /\ Ran' = Ran
  BY <1>2 DEF ResultSet, Ran
<1>6. LoopInv' /\ DecisionInv'
  BY <1>2, <1>5 DEF GInv, LoopInv, DecisionInv
<1>7. EnvelopeInv' /\ AllowedInv'
  BY <1>1, <1>2, <1>3 DEF GInv, EnvelopeInv, AllowedInv
<1> QED BY <1>4, <1>6, <1>7 DEF GInv

-----------------------------------------------------------------------------
(* The invariant and what it implies *)

LEMMA InitEstablishes ==
    ASSUME Init
    PROVE  GInv
<1>1. /\ artifact \in Artifacts /\ policy \in Policies /\ sandbox \in Configured
      /\ pending = Applicable(artifact.type) /\ results = <<>> /\ shortCircuit = FALSE
      /\ detonation = Silent /\ decision = "none"
      /\ envelope = <<>> /\ live = artifact.digest /\ stage = "scan"
  BY DEF Init, ScanInit
<1>2. Silent \in Detonation
  BY DEF Silent, Detonation
<1>3. TypeInv
  <2>1. results \in Seq(PossibleResults)
    BY <1>1
  <2>2. stage \in Stages \ {"refused"} /\ shortCircuit \in BOOLEAN /\ pending \subseteq Applicable(artifact.type)
    BY <1>1 DEF Stages
  <2> QED BY <1>1, <1>2, <2>1, <2>2 DEF TypeInv
<1>4. "behavioral" \in Applicable(artifact.type)
  BY <1>1, ArtifactAssumption, Known DEF Applicable, AppliesTo
<1>5. LoopInv
  BY <1>1, <1>4 DEF LoopInv
<1>6. DecisionInv /\ EnvelopeInv /\ AllowedInv
  BY <1>1 DEF DecisionInv, EnvelopeInv, AllowedInv
<1> QED BY <1>3, <1>5, <1>6 DEF GInv

LEMMA NextPreserves ==
    ASSUME GInv, [Next]_vars
    PROVE  GInv'
<1>1. CASE Scan
  <2>1. stage = "scan" /\ UNCHANGED <<envelope, live, stage>>
    BY <1>1 DEF Scan
  <2>2. CASE \E gate \in GateIds : NextGate(gate)
    BY <2>1, <2>2, NextGatePreserves
  <2>3. CASE \E gate \in GateIds : SkipGate(gate)
    BY <2>1, <2>3, SkipGatePreserves
  <2>4. CASE Decide
    BY <2>1, <2>4, DecidePreserves
  <2> QED BY <1>1, <2>2, <2>3, <2>4 DEF Scan, ScanStep
<1>2. CASE Attest
  BY <1>2, AttestPreserves
<1>3. CASE Promote
  BY <1>3, PromotePreserves
<1>4. CASE UNCHANGED vars
  <2>1. /\ UNCHANGED <<artifact, policy, sandbox, pending, results, shortCircuit, detonation, decision>>
        /\ UNCHANGED <<envelope, live, stage>>
    BY <1>4 DEF vars, scan
  <2>2. ResultSet' = ResultSet /\ Ran' = Ran
    BY <2>1 DEF ResultSet, Ran
  <2> QED BY <2>1, <2>2 DEF GInv, TypeInv, LoopInv, DecisionInv, EnvelopeInv, AllowedInv
<1> QED BY <1>1, <1>2, <1>3, <1>4 DEF Next

LEMMA Invariance == Spec => []GInv
<1>1. Init => GInv
  BY InitEstablishes
<1>2. GInv /\ [Next]_vars => GInv'
  BY NextPreserves
<1> QED BY <1>1, <1>2, PTL DEF Spec

(* The scan and the promotion keep to their types, whatever raises and whatever
   the sandbox reports. *)
THEOREM GatewayTypeCorrect == Spec => []GatewayTypeOK
<1>1. GInv => GatewayTypeOK
  <2> SUFFICES ASSUME GInv PROVE GatewayTypeOK
    OBVIOUS
  <2>1. \A i \in DOMAIN results : Sound(results[i])
    BY PossibleSound DEF GInv, TypeInv
  <2>2. ScanTypeOK
    BY <2>1, SandboxAssumption DEF GInv, TypeInv, ScanTypeOK, Sound
  <2>3. Len(envelope) <= 1
    <3>1. envelope = <<>> \/ \E e : envelope = <<e>>
      BY DEF GInv, EnvelopeInv
    <3>2. Len(<<>>) = 0 /\ \A e : Len(<<e>>) = 1
      OBVIOUS
    <3> QED BY <3>1, <3>2
  <2> QED BY <2>2, <2>3 DEF GInv, TypeInv, GatewayTypeOK
<1> QED BY <1>1, Invariance, PTL

(* A scan is never thrown away: for any artifact with a digest and any number of
   gates that raise, what was decided can be attested (builder.py:40-61). *)
THEOREM VerdictsAttestableHolds == Spec => []VerdictsAttestable
<1>1. GInv => VerdictsAttestable
  BY DEF GInv, TypeInv, VerdictsAttestable
<1> QED BY <1>1, Invariance, PTL

(* One failed gate decides, whatever the policy and the other results. *)
LEMMA FailRejects ==
    ASSUME NEW p, NEW a, NEW rs, "fail" \in Statuses(rs)
    PROVE  Evaluate(p, a, rs) \in {"reject", "PolicyError"}
<1>1. DefaultDecision(a, rs) = "reject"
  BY DEF DefaultDecision
<1> QED BY <1>1, RulesOnlyRaise DEF Decisions, DecisionRank

(* Sparing the sandbox after a failure never changes a decision, whatever the
   policy (pipeline.py:97-104). *)
THEOREM SparingIsNeutralHolds == Spec => []SparingIsNeutral
<1>1. GInv => SparingIsNeutral
  <2> SUFFICES ASSUME GInv, decision \in Decisions, "behavioral" \notin Ran, NEW r
               PROVE  Evaluate(policy, artifact, ResultSet \cup {r}) \in {decision, "PolicyError"}
    BY DEF SparingIsNeutral
  <2>1. pending = {} /\ decision = Evaluate(policy, artifact, ResultSet)
    BY DEF GInv, DecisionInv, Decisions
  <2>2. \E x \in ResultSet : x.status = "fail"
    BY <2>1 DEF GInv, LoopInv
  <2>3. "fail" \in Statuses(ResultSet) /\ "fail" \in Statuses(ResultSet \cup {r})
    BY <2>2 DEF Statuses
  <2>4. decision = "reject"
    BY <2>1, <2>3, FailRejects DEF Decisions
  <2> QED BY <2>3, <2>4, FailRejects
<1> QED BY <1>1, Invariance, PTL

(* Nothing gets past the promotion gate but the bytes that were scanned, with
   every gate content and, if they execute code, run under confinement: for
   every policy, key and gate configuration (I8, engine.py:50-62, gate.py). *)
THEOREM PromotedWasVettedHolds == Spec => []PromotedWasVetted
<1>1. GInv => PromotedWasVetted
  <2> SUFFICES ASSUME GInv, stage = "allowed"
               PROVE  /\ live = artifact.digest
                      /\ decision = "approve"
                      /\ artifact.type \in ExecutableTypes =>
                            \E r \in ResultSet :
                                r.gate = "behavioral" /\ r.rigor = "behavioral" /\ r.status = "pass"
    BY DEF PromotedWasVetted
  <2>1. live = artifact.digest /\ decision = "approve"
    BY DEF GInv, AllowedInv
  <2>2. Evaluate(policy, artifact, ResultSet) = "approve"
    BY <2>1 DEF GInv, DecisionInv
  <2>3. /\ Statuses(ResultSet) \cap {"fail", "error", "warn"} = {}
        /\ IsExecutable(artifact) => BehavioralRan(ResultSet)
    BY <2>2, PolicyIsAFloor
  <2>4. \A r \in ResultSet : Sound(r) /\ r.status \notin {"fail", "error", "warn"}
    <3>1. \A r \in ResultSet : Sound(r)
      BY PossibleSound DEF GInv, TypeInv, ResultSet
    <3>2. \A r \in ResultSet : r.status \in Statuses(ResultSet)
      BY DEF Statuses
    <3> QED BY <2>3, <3>1, <3>2
  <2>5. ASSUME artifact.type \in ExecutableTypes
        PROVE  \E r \in ResultSet :
                  r.gate = "behavioral" /\ r.rigor = "behavioral" /\ r.status = "pass"
    BY <2>3, <2>4, <2>5 DEF IsExecutable, BehavioralRan, Executed, ExecutedStatuses, Sound
  <2> QED BY <2>1, <2>5
<1> QED BY <1>1, Invariance, PTL

-----------------------------------------------------------------------------
(* What the loop collects *)

(* Results are in cost order, all of them before the gates to come, and no
   applicable gate is lost but the expensive one, to a failure. *)
OrderInv ==
    /\ \A i, j \in DOMAIN results : i < j => Before(results[i].gate, results[j].gate)
    /\ \A i \in DOMAIN results : \A h \in pending : Before(results[i].gate, h)
    /\ "behavioral" \in Ran => pending = {}
    /\ \/ Ran \cup pending = Applicable(artifact.type)
       \/ /\ Ran \cup pending = Applicable(artifact.type) \ {"behavioral"}
          /\ pending = {} /\ \E r \in ResultSet : r.status = "fail"

(* Each result is its gate's, of this artifact in this sandbox and of what
   happened there, or stands for an exception. *)
ResultsInv ==
    \A r \in ResultSet :
        r = ErrorResult(r.gate) \/ r \in Evaluates(r.gate, artifact, sandbox, detonation)

CollectInv == OrderInv /\ ResultsInv

(* The expensive gate is behind all the others. *)
LEMMA ExpensiveIsLast ==
    ASSUME pending \subseteq GateIds, IsNext("behavioral")
    PROVE  pending = {"behavioral"}
<1>1. ASSUME NEW h \in pending, h # "behavioral" PROVE FALSE
  <2>1. Before("behavioral", h)
    BY <1>1 DEF IsNext
  <2>2. Cost("behavioral") = "expensive" /\ Cost(h) \in {"cheap", "medium"}
    BY <1>1 DEF Cost
  <2>3. CostRank["expensive"] = 2 /\ CostRank[Cost(h)] \in {0, 1}
    BY <2>2 DEF CostRank
  <2> QED BY <2>1, <2>2, <2>3 DEF Before
<1> QED BY <1>1 DEF IsNext

(* What a static gate finds does not depend on the sandbox. *)
LEMMA StaticIgnoresSandbox ==
    ASSUME NEW g \in GateIds, g # "behavioral", NEW a, NEW s, NEW d, NEW e
    PROVE  Evaluates(g, a, s, d) = Evaluates(g, a, s, e)
  BY Zenon DEF Evaluates, GateIds

LEMMA AppendOrder ==
    ASSUME NEW S, NEW s \in Seq(S), NEW r \in S
    PROVE  /\ DOMAIN Append(s, r) = DOMAIN s \cup {Len(s) + 1}
           /\ \A i \in DOMAIN s : Append(s, r)[i] = s[i] /\ i < Len(s) + 1
           /\ Append(s, r)[Len(s) + 1] = r
           /\ Len(s) + 1 \notin DOMAIN s
<1>1. DOMAIN s = 1..Len(s) /\ DOMAIN Append(s, r) = 1..(Len(s) + 1) /\ Len(s) \in Nat
  OBVIOUS
<1>2. Append(s, r)[Len(s) + 1] = r /\ \A i \in 1..Len(s) : Append(s, r)[i] = s[i]
  OBVIOUS
<1> QED BY <1>1, <1>2

LEMMA NextGateCollects ==
    ASSUME GInv, CollectInv, NEW g \in GateIds, NextGate(g)
    PROVE  CollectInv'
<1>1. PICK d \in Happens(g) : \E r \in RunGate(g, d) : results' = Append(results, r) /\ detonation' = d
  BY DEF NextGate
<1>2. PICK r \in RunGate(g, d) : results' = Append(results, r) /\ detonation' = d
  BY <1>1
<1>3. /\ IsNext(g) /\ g \in pending /\ pending' = pending \ {g} /\ pending \subseteq GateIds
      /\ UNCHANGED <<artifact, sandbox>>
  BY DEF NextGate, IsNext, GInv, TypeInv, Applicable
<1>4. r \in PossibleResults /\ r.gate = g /\ results \in Seq(PossibleResults)
  BY RunGateSound DEF GInv, TypeInv
<1>5. ResultSet' = ResultSet \cup {r}
  BY <1>2, <1>4, AppendRange DEF ResultSet
<1>6. Ran' = Ran \cup {g}
  BY <1>4, <1>5 DEF Ran
<1>7. OrderInv'
  <2>1. /\ DOMAIN results' = DOMAIN results \cup {Len(results) + 1}
        /\ \A i \in DOMAIN results : results'[i] = results[i] /\ i < Len(results) + 1
        /\ results'[Len(results) + 1] = r /\ Len(results) + 1 \notin DOMAIN results
    BY <1>2, <1>4, AppendOrder
  <2>2. DOMAIN results \subseteq Int /\ Len(results) \in Int
    BY <1>4
  <2>3. \A i, j \in DOMAIN results' : i < j => Before(results'[i].gate, results'[j].gate)
    <3> SUFFICES ASSUME NEW i \in DOMAIN results', NEW j \in DOMAIN results', i < j
                 PROVE  Before(results'[i].gate, results'[j].gate)
      OBVIOUS
    <3>1. i \in DOMAIN results
      BY <2>1, <2>2
    <3>2. CASE j \in DOMAIN results
      BY <2>1, <3>1, <3>2 DEF CollectInv, OrderInv
    <3>3. CASE j = Len(results) + 1
      BY <1>3, <1>4, <2>1, <3>1, <3>3 DEF CollectInv, OrderInv
    <3> QED BY <2>1, <3>2, <3>3
  <2>4. \A i \in DOMAIN results' : \A h \in pending' : Before(results'[i].gate, h)
    BY <1>3, <1>4, <2>1 DEF CollectInv, OrderInv, IsNext
  <2>5. "behavioral" \in Ran' => pending' = {}
    BY <1>3, <1>6, ExpensiveIsLast DEF CollectInv, OrderInv
  <2>6. Ran' \cup pending' = Applicable(artifact'.type)
    BY <1>3, <1>6 DEF CollectInv, OrderInv
  <2>7. (\A i, j \in DOMAIN results : i < j => Before(results[i].gate, results[j].gate))'
    BY <2>3
  <2> QED BY <2>4, <2>5, <2>6, <2>7 DEF OrderInv
<1>8. ResultsInv'
  <2> SUFFICES ASSUME NEW x \in ResultSet \cup {r}
               PROVE  x = ErrorResult(x.gate) \/ x \in Evaluates(x.gate, artifact, sandbox, d)
    BY <1>2, <1>3, <1>5 DEF ResultsInv
  <2>1. CASE x = r
    BY <1>4, <2>1 DEF RunGate
  <2>2. CASE x \in ResultSet
    <3>1. x.gate # "behavioral"
      BY <1>3, <2>2 DEF CollectInv, OrderInv, Ran
    <3>2. x.gate \in GateIds
      BY <2>2, PossibleSound DEF Sound, ResultSet, GInv, TypeInv
    <3>3. Evaluates(x.gate, artifact, sandbox, d) = Evaluates(x.gate, artifact, sandbox, detonation)
      BY <3>1, <3>2, StaticIgnoresSandbox
    <3> QED BY <2>2, <3>3 DEF CollectInv, ResultsInv
  <2> QED BY <2>1, <2>2
<1> QED BY <1>7, <1>8 DEF CollectInv

LEMMA SkipGateCollects ==
    ASSUME GInv, CollectInv, NEW g \in GateIds, SkipGate(g)
    PROVE  CollectInv'
<1>1. /\ IsNext(g) /\ g \in pending /\ pending' = pending \ {g} /\ shortCircuit
      /\ UNCHANGED <<artifact, sandbox, results, detonation>> /\ Cost(g) = "expensive"
  BY DEF SkipGate, IsNext
<1>2. g = "behavioral"
  BY <1>1 DEF Cost
<1>3. pending = {"behavioral"}
  BY <1>1, <1>2, ExpensiveIsLast DEF GInv, TypeInv, Applicable
<1>4. ResultSet' = ResultSet /\ Ran' = Ran
  BY <1>1 DEF ResultSet, Ran
<1>5. \E r \in ResultSet : r.status = "fail"
  BY <1>1 DEF GInv, LoopInv
<1>6. Ran' \cup pending' = Applicable(artifact'.type) \ {"behavioral"} /\ pending' = {}
  BY <1>1, <1>2, <1>3, <1>4 DEF CollectInv, OrderInv
<1>7. OrderInv'
  BY <1>1, <1>4, <1>5, <1>6 DEF CollectInv, OrderInv
<1>8. ResultsInv'
  BY <1>1, <1>4 DEF CollectInv, ResultsInv
<1> QED BY <1>7, <1>8 DEF CollectInv

LEMMA CollectStays ==
    ASSUME CollectInv, UNCHANGED <<artifact, sandbox, pending, results, detonation>>
    PROVE  CollectInv'
<1>1. ResultSet' = ResultSet /\ Ran' = Ran
  BY DEF ResultSet, Ran
<1>2. OrderInv'
  BY <1>1 DEF CollectInv, OrderInv
<1>3. ResultsInv'
  BY <1>1 DEF CollectInv, ResultsInv
<1> QED BY <1>2, <1>3 DEF CollectInv

LEMMA Collects == Spec => []CollectInv
<1>1. Init => CollectInv
  <2> SUFFICES ASSUME Init PROVE CollectInv
    OBVIOUS
  <2>1. results = <<>> /\ pending = Applicable(artifact.type)
    BY DEF Init, ScanInit
  <2>2. DOMAIN results = {} /\ ResultSet = {} /\ Ran = {}
    BY <2>1 DEF ResultSet, Ran
  <2> QED BY <2>1, <2>2 DEF CollectInv, OrderInv, ResultsInv
<1>2. GInv /\ CollectInv /\ [Next]_vars => CollectInv'
  <2> SUFFICES ASSUME GInv, CollectInv, [Next]_vars PROVE CollectInv'
    OBVIOUS
  <2>1. CASE \E g \in GateIds : NextGate(g)
    BY <2>1, NextGateCollects
  <2>2. CASE \E g \in GateIds : SkipGate(g)
    BY <2>2, SkipGateCollects
  <2>3. CASE Decide \/ Attest \/ Promote \/ UNCHANGED vars
    BY <2>3, CollectStays DEF Decide, Attest, Promote, vars, scan
  <2> QED BY <2>1, <2>2, <2>3 DEF Next, Scan, ScanStep
<1> QED BY <1>1, <1>2, Invariance, PTL DEF Spec

(* Every verdict rests on the whole evidence: all applicable gates ran, each
   once and in cost order, whatever raised or failed on the way, and only a
   failure spares the expensive one (pipeline.py:8-11). *)
THEOREM EverythingCollectedHolds == Spec => []EverythingCollected
<1>1. GInv /\ CollectInv => EverythingCollected
  BY DEF GInv, DecisionInv, CollectInv, OrderInv, EverythingCollected
<1> QED BY <1>1, Invariance, Collects, PTL

-----------------------------------------------------------------------------
(* What a gate's status says of the artifact *)

LEMMA Ranks ==
    /\ SeverityRank["info"] = 0 /\ SeverityRank["low"] = 1 /\ SeverityRank["medium"] = 2
    /\ SeverityRank["high"] = 3 /\ SeverityRank["critical"] = 4
  BY DEF SeverityRank

LEMMA SeverityOf ==
    ASSUME NEW code, NEW severity PROVE Finding(code, severity).severity = severity
  BY DEF Finding

LEMMA StaticResult ==
    ASSUME NEW g, NEW status, NEW findings, NEW r \in Static(g, status, findings)
    PROVE  r.status = status /\ r.findings = findings
  BY DEF Static, Result

(* A static gate that passes has seen nothing it is there to see. *)
LEMMA DigestMeans ==
    ASSUME NEW a \in Artifacts, NEW r \in Digest(a)
    PROVE  /\ r.status \in {"pass", "skipped"} => a.traits \cap {"badHeader", "undecodableHeader"} = {}
           /\ r.status = "fail" => "badHeader" \in a.traits
<1> DEFINE A == If(a.expected \notin {NoDigest, a.digest}, "digest_mismatch", "critical")
           B == If(a.expected = NoDigest, "unpinned_reference", "info")
           C == If("badHeader" \in a.traits, "malformed_safetensors", "high")
           status == IF AtLeast(A \cup B \cup C, "high") THEN "fail" ELSE "pass"
<1>1. "undecodableHeader" \notin a.traits /\ r \in Static("digest", status, A \cup B \cup C)
  BY DEF Digest
<1>2. r.status = status
  BY <1>1, StaticResult
<1>3. A = {} /\ (\A f \in B : f.severity = "info") /\ (\A f \in C : "badHeader" \in a.traits)
      /\ ("badHeader" \in a.traits => \E f \in C : f.severity = "high")
  BY SeverityOf, ArtifactAssumption DEF If
<1> HIDE DEF A, B, C
<1>4. AtLeast(A \cup B \cup C, "high") <=> "badHeader" \in a.traits
  BY <1>3, Ranks DEF AtLeast
<1> QED BY <1>1, <1>2, <1>4

LEMMA FormatMeans ==
    ASSUME NEW a, NEW r \in FormatAllowlist(a)
    PROVE  /\ r.status \in {"pass", "skipped"} => a.traits \cap Sees("format_allowlist") = {}
           /\ r.status = "fail" => a.traits \cap {"pickleFormat", "packedPickle"} # {}
<1> DEFINE A == If(a.traits \cap {"pickleFormat", "packedPickle"} # {}, "unsafe_serialization_format", "critical")
           B == If(a.traits \cap {"arrayFormat", "graphFormat"} # {}, "code_on_load_format", "medium")
           C == If("archive" \in a.traits, "archive_format", "medium")
           D == If("python" \in a.traits, "custom_model_code", "medium")
           E == If("remoteCode" \in a.traits, "trust_remote_code", "medium")
           F == If(~(a.traits \cap WeightFormats # {}), "no_recognised_weight_format", "medium")
           found == A \cup B \cup C \cup D \cup E \cup F
<1>1. r \in Static("format_allowlist", FailOnHigh(found), found)
  BY DEF FormatAllowlist
<1>2. r.status = FailOnHigh(found)
  BY <1>1, StaticResult
<1>3. /\ A = {} <=> a.traits \cap {"pickleFormat", "packedPickle"} = {}
      /\ B = {} <=> a.traits \cap {"arrayFormat", "graphFormat"} = {}
      /\ C = {} <=> "archive" \notin a.traits
      /\ D = {} <=> "python" \notin a.traits
      /\ E = {} <=> "remoteCode" \notin a.traits
  BY SeverityOf DEF If
<1>4. \A f \in B \cup C \cup D \cup E \cup F : f.severity = "medium"
  BY SeverityOf DEF If
<1> HIDE DEF A, B, C, D, E, F
<1>5. r.status \in {"pass", "skipped"} => found = {}
  BY <1>2 DEF FailOnHigh
<1>6. r.status = "fail" => A # {}
  BY <1>2, <1>4, Ranks DEF FailOnHigh, AtLeast
<1>7. Sees("format_allowlist") =
        {"pickleFormat", "packedPickle", "arrayFormat", "graphFormat", "archive", "python", "remoteCode"}
  BY Zenon DEF Sees
<1> QED BY <1>3, <1>5, <1>6, <1>7

LEMMA SerializationMeans ==
    ASSUME NEW a \in Artifacts, NEW r \in SerializationSafety(a)
    PROVE  /\ r.status \in {"pass", "skipped"} =>
                 a.traits \cap {"dangerousGlobal", "suspiciousGlobal", "unscannable"} = {}
           /\ r.status = "fail" => a.traits \cap {"dangerousGlobal", "unscannable"} # {}
<1>1. CASE r \in WithoutPicklescan(a)
  <2>1. r.status = IF Scannable(a) THEN "warn" ELSE "pass"
    BY <1>1, StaticResult DEF WithoutPicklescan
  <2>2. Consistent(a.traits)
    BY ArtifactAssumption
  <2> QED BY <2>1, <2>2 DEF Consistent, Scannable
<1>2. CASE r \in WithPicklescan(a)
  <2> DEFINE A == If("unscannable" \in a.traits, "serialization_scan_error", "high")
             B == If("dangerousGlobal" \in a.traits, "unsafe_pickle_global", "critical")
             C == If("suspiciousGlobal" \in a.traits, "suspicious_pickle_global", "medium")
             D == If("plainGlobal" \in a.traits, "pickle_global", "info")
             found == A \cup B \cup C \cup D
             status == IF AtLeast(found, "high") THEN "fail"
                       ELSE IF AtLeast(found, "low") THEN "warn" ELSE "pass"
  <2>1. r \in Static("serialization_safety", status, found)
    BY <1>2 DEF WithPicklescan
  <2>2. r.status = status
    BY <2>1, StaticResult
  <2>3. /\ \A f \in A : f.severity = "high" /\ "unscannable" \in a.traits
        /\ \A f \in B : f.severity = "critical" /\ "dangerousGlobal" \in a.traits
        /\ \A f \in C : f.severity = "medium"
        /\ \A f \in D : f.severity = "info"
        /\ "unscannable" \in a.traits => \E f \in A : f.severity = "high"
        /\ "dangerousGlobal" \in a.traits => \E f \in B : f.severity = "critical"
        /\ "suspiciousGlobal" \in a.traits => \E f \in C : f.severity = "medium"
    BY SeverityOf DEF If
  <2> HIDE DEF A, B, C, D
  <2>4. AtLeast(found, "high") <=> a.traits \cap {"dangerousGlobal", "unscannable"} # {}
    BY <2>3, Ranks DEF AtLeast
  <2>5. "suspiciousGlobal" \in a.traits => AtLeast(found, "low")
    BY <2>3, Ranks DEF AtLeast
  <2> QED BY <2>2, <2>4, <2>5
<1> QED BY <1>1, <1>2 DEF SerializationSafety

LEMMA SecretsMeans ==
    ASSUME NEW a, NEW r \in Secrets(a)
    PROVE  /\ r.status \in {"pass", "skipped"} => "secret" \notin a.traits
           /\ r.status # "fail"
<1> DEFINE found == If("secret" \in a.traits, "secret_detected", "high")
<1>1. r.status = WarnOnly(found)
  BY StaticResult DEF Secrets
<1>2. found = {} <=> "secret" \notin a.traits
  BY SeverityOf DEF If
<1> QED BY <1>1, <1>2 DEF WarnOnly

LEMMA LicenseMeans ==
    ASSUME NEW a, NEW r \in LicenseMetadata(a)
    PROVE  /\ r.status \in {"pass", "skipped"} => "restrictive" \notin a.traits
           /\ r.status # "fail"
<1> DEFINE A == If("licensed" \notin a.traits, "no_license", "info")
           B == If("restrictive" \in a.traits, "restrictive_license", "medium")
           status == IF AtLeast(A \cup B, "medium") THEN "warn" ELSE "pass"
<1>1. r \in Static("license_metadata", status, A \cup B)
  BY DEF LicenseMetadata
<1>2. r.status = status
  BY <1>1, StaticResult
<1>3. "restrictive" \in a.traits => \E f \in B : f.severity = "medium"
  BY SeverityOf DEF If
<1> HIDE DEF A, B
<1>4. "restrictive" \in a.traits => AtLeast(A \cup B, "medium")
  BY <1>3, Ranks DEF AtLeast
<1> QED BY <1>2, <1>4

LEMMA StaticCodeMeans ==
    ASSUME NEW a, NEW r \in StaticCode(a)
    PROVE  /\ r.status \in {"pass", "skipped"} =>
                 a.traits \cap {"execCall", "capabilityCall", "unparseable"} = {}
           /\ r.status = "fail" => "execCall" \in a.traits
<1> DEFINE A == If("execCall" \in a.traits, "dynamic_code_execution", "critical")
           B == If("capabilityCall" \in a.traits, "suspicious_capability", "medium")
           C == If("unparseable" \in a.traits, "unparseable_python", "medium")
           found == A \cup B \cup C
<1>1. r \in Static("static_code", FailOnHigh(found), found)
  BY DEF StaticCode
<1>2. r.status = FailOnHigh(found)
  BY <1>1, StaticResult
<1>3. /\ A = {} <=> "execCall" \notin a.traits
      /\ B = {} <=> "capabilityCall" \notin a.traits
      /\ C = {} <=> "unparseable" \notin a.traits
      /\ \A f \in B \cup C : f.severity = "medium"
  BY SeverityOf DEF If
<1> HIDE DEF A, B, C
<1>4. r.status \in {"pass", "skipped"} => found = {}
  BY <1>2 DEF FailOnHigh
<1>5. r.status = "fail" => A # {}
  BY <1>2, <1>3, Ranks DEF FailOnHigh, AtLeast
<1> QED BY <1>3, <1>4, <1>5

LEMMA PromptMeans ==
    ASSUME NEW a, NEW r \in PromptInjection(a)
    PROVE  /\ r.status \in {"pass", "skipped"} => "injection" \notin a.traits
           /\ r.status # "fail"
<1> DEFINE found == If("injection" \in a.traits, "prompt_injection_suspected", "medium")
<1>1. r.status = WarnOnly(found)
  BY StaticResult DEF PromptInjection
<1>2. found = {} <=> "injection" \notin a.traits
  BY SeverityOf DEF If
<1> QED BY <1>1, <1>2 DEF WarnOnly

LEMMA SkillMeans ==
    ASSUME NEW a, NEW r \in Skill(a)
    PROVE  /\ r.status \in {"pass", "skipped"} =>
                 a.traits \cap {"dangerousGrant", "runnable", "python"} = {}
           /\ r.status # "fail"
<1> DEFINE A == If("manifest" \notin a.traits, "skill_missing_manifest", "medium")
           B == If("dangerousGrant" \in a.traits, "skill_dangerous_tool_grant", "high")
           C == If(a.traits \cap {"runnable", "python"} # {}, "skill_bundles_executables", "medium")
           found == A \cup B \cup C
<1>1. r \in Static("agent_skill", WarnOnly(found), found)
  BY DEF Skill
<1>2. r.status = WarnOnly(found)
  BY <1>1, StaticResult
<1>3. /\ B = {} <=> "dangerousGrant" \notin a.traits
      /\ C = {} <=> a.traits \cap {"runnable", "python"} = {}
  BY SeverityOf DEF If
<1> HIDE DEF A, B, C
<1>4. r.status \in {"pass", "skipped"} => found = {}
  BY <1>2 DEF WarnOnly
<1> QED BY <1>2, <1>3, <1>4 DEF WarnOnly

(* Only a run that was observed, or timed out, counts as behavioural, and only
   one that was observed not to call out passes. *)
LEMMA BehavioralMeans ==
    ASSUME NEW a, NEW s \in Sandboxes, NEW d \in Detonation, NEW r \in Behavioral(a, s, d)
    PROVE  /\ r.status = "pass" =>
                 s \in {"docker", "gvisor"} /\ d.document = "observed" /\ ~d.egress
           /\ r.status = "fail" => d.egress
<1> DEFINE o == Observe(s, d, TRUE)
<1>1. r = [gate |-> "behavioral", status |-> o.status, rigor |-> o.rigor,
           findings |-> o.findings, named |-> TRUE, versioned |-> TRUE]
  BY DEF Behavioral, Result
<1> HIDE DEF o
<1>2. r.status = o.status
  BY <1>1
<1>3. d.document \in {"none", "malformed", "observed"}
  BY DEF Detonation
<1> QED BY <1>2, <1>3 DEF o, Observe, ObserveRun, ObserveDocument, Inconclusive, Observation, Sandboxes

(* A gate that passes, or is skipped, has seen nothing it is there to see; one
   that fails has seen something conclusive, or a connection. *)
LEMMA GateMeans ==
    ASSUME NEW g \in GateIds, NEW a \in Artifacts, NEW s \in Sandboxes, NEW d \in Detonation,
           NEW r \in Evaluates(g, a, s, d)
    PROVE  /\ r.status \in {"pass", "skipped"} => a.traits \cap Sees(g) = {}
           /\ r.status = "fail" => a.traits \cap Conclusive # {} \/ d.egress
<1> USE DEF Conclusive
<1>1. CASE g = "digest"
  <2>1. Evaluates(g, a, s, d) = Digest(a) /\ Sees(g) = {"badHeader", "undecodableHeader"}
    BY <1>1, Zenon DEF Evaluates, Sees
  <2> QED BY <2>1, DigestMeans
<1>2. CASE g = "format_allowlist"
  <2>1. Evaluates(g, a, s, d) = FormatAllowlist(a)
    BY <1>2, Zenon DEF Evaluates
  <2> QED BY <1>2, <2>1, FormatMeans
<1>3. CASE g = "serialization_safety"
  <2>1. /\ Evaluates(g, a, s, d) = SerializationSafety(a)
        /\ Sees(g) = {"dangerousGlobal", "suspiciousGlobal", "unscannable"}
    BY <1>3, Zenon DEF Evaluates, Sees
  <2> QED BY <2>1, SerializationMeans
<1>4. CASE g = "secrets"
  <2>1. Evaluates(g, a, s, d) = Secrets(a) /\ Sees(g) = {"secret"}
    BY <1>4, Zenon DEF Evaluates, Sees
  <2> QED BY <2>1, SecretsMeans
<1>5. CASE g = "license_metadata"
  <2>1. Evaluates(g, a, s, d) = LicenseMetadata(a) /\ Sees(g) = {"restrictive"}
    BY <1>5, Zenon DEF Evaluates, Sees
  <2> QED BY <2>1, LicenseMeans
<1>6. CASE g = "static_code"
  <2>1. /\ Evaluates(g, a, s, d) = StaticCode(a)
        /\ Sees(g) = {"execCall", "capabilityCall", "unparseable"}
    BY <1>6, Zenon DEF Evaluates, Sees
  <2> QED BY <2>1, StaticCodeMeans
<1>7. CASE g = "prompt_injection"
  <2>1. Evaluates(g, a, s, d) = PromptInjection(a) /\ Sees(g) = {"injection"}
    BY <1>7, Zenon DEF Evaluates, Sees
  <2> QED BY <2>1, PromptMeans
<1>8. CASE g = "agent_skill"
  <2>1. Evaluates(g, a, s, d) = Skill(a) /\ Sees(g) = {"dangerousGrant", "runnable", "python"}
    BY <1>8, Zenon DEF Evaluates, Sees
  <2> QED BY <2>1, SkillMeans
<1>9. CASE g = "behavioral"
  <2>1. Evaluates(g, a, s, d) = Behavioral(a, s, d) /\ Sees(g) = {}
    BY <1>9, Zenon DEF Evaluates, Sees
  <2> QED BY <2>1, BehavioralMeans
<1> QED BY <1>1, <1>2, <1>3, <1>4, <1>5, <1>6, <1>7, <1>8, <1>9 DEF GateIds

(* What an approval rests on: every applicable gate looked, and none objected. *)
LEMMA ApprovalMeans ==
    ASSUME GInv, CollectInv, decision = "approve"
    PROVE  /\ Ran = Applicable(artifact.type)
           /\ \A r \in ResultSet :
                 /\ Sound(r) /\ r.status \in {"pass", "skipped"}
                 /\ r \in Evaluates(r.gate, artifact, sandbox, detonation)
           /\ artifact.type \in ExecutableTypes =>
                 /\ BehavioralRan(ResultSet)
                 /\ sandbox \in {"docker", "gvisor"}
                 /\ detonation.document = "observed" /\ ~detonation.egress
<1>1. pending = {} /\ Evaluate(policy, artifact, ResultSet) = "approve"
  BY DEF GInv, DecisionInv
<1>2. /\ Statuses(ResultSet) \cap {"fail", "error", "warn"} = {}
      /\ IsExecutable(artifact) => BehavioralRan(ResultSet)
  BY <1>1, PolicyIsAFloor
<1>3. \A r \in ResultSet : Sound(r) /\ r.status \in {"pass", "skipped"}
  <2>1. \A r \in ResultSet : Sound(r)
    BY PossibleSound DEF GInv, TypeInv, ResultSet
  <2>2. \A r \in ResultSet : r.status \in Statuses(ResultSet)
    BY DEF Statuses
  <2> QED BY <1>2, <2>1, <2>2 DEF Sound, GateStatuses
<1>4. \A r \in ResultSet : r \in Evaluates(r.gate, artifact, sandbox, detonation)
  BY <1>3, ErrorSound DEF CollectInv, ResultsInv, Sound
<1>5. Ran = Applicable(artifact.type)
  BY <1>1, <1>3 DEF CollectInv, OrderInv
<1>6. ASSUME artifact.type \in ExecutableTypes
      PROVE  /\ BehavioralRan(ResultSet) /\ sandbox \in {"docker", "gvisor"}
             /\ detonation.document = "observed" /\ ~detonation.egress
  <2>1. PICK r \in ResultSet : r.status = "pass" /\ r.gate = "behavioral"
    BY <1>2, <1>3, <1>6 DEF IsExecutable, BehavioralRan, Executed, ExecutedStatuses, Sound
  <2>2. r \in Behavioral(artifact, sandbox, detonation)
    <3>1. Evaluates("behavioral", artifact, sandbox, detonation) = Behavioral(artifact, sandbox, detonation)
      BY Zenon DEF Evaluates
    <3> QED BY <1>4, <2>1, <3>1
  <2>3. sandbox \in Sandboxes /\ detonation \in Detonation
    BY SandboxAssumption DEF GInv, TypeInv
  <2> QED BY <1>2, <1>6, <2>1, <2>2, <2>3, BehavioralMeans DEF IsExecutable
<1> QED BY <1>3, <1>4, <1>5, <1>6

(* An approval means what it says: nothing any gate for this type looks for is
   there, and what executes code was run under confinement and kept quiet, for
   every artifact, policy, sandbox and gate that raises (I8, I9). *)
THEOREM ApprovedIsCleanHolds == Spec => []ApprovedIsClean
<1>1. GInv /\ CollectInv => ApprovedIsClean
  <2> SUFFICES ASSUME GInv, CollectInv, decision = "approve"
               PROVE  /\ artifact.traits \cap Alarming(artifact.type) = {}
                      /\ artifact.type \in ExecutableTypes =>
                            /\ sandbox \in {"docker", "gvisor"}
                            /\ detonation.document = "observed" /\ ~detonation.egress
    BY DEF ApprovedIsClean
  <2>1. sandbox \in Sandboxes /\ detonation \in Detonation /\ artifact \in Artifacts
    BY SandboxAssumption DEF GInv, TypeInv
  <2>2. ASSUME NEW g \in GateIds, artifact.type \in AppliesTo(g)
        PROVE  artifact.traits \cap Sees(g) = {}
    <3>1. PICK r \in ResultSet : r.gate = g
      BY <2>2, ApprovalMeans DEF Applicable, Ran
    <3>2. r \in Evaluates(g, artifact, sandbox, detonation) /\ r.status \in {"pass", "skipped"}
      BY <3>1, ApprovalMeans
    <3> QED BY <2>1, <3>2, GateMeans
  <2>3. artifact.traits \cap Alarming(artifact.type) = {}
    BY <2>2 DEF Alarming
  <2> QED BY <2>3, ApprovalMeans
<1> QED BY <1>1, Invariance, Collects, PTL

(* A rejection has a conclusive sign behind it, or a rule that asks for it:
   heuristics alone lead to review, in every policy (I9). *)
THEOREM SignalsNeverRejectHolds == Spec => []SignalsNeverReject
<1>1. GInv /\ CollectInv => SignalsNeverReject
  <2> SUFFICES ASSUME GInv, CollectInv, decision = "reject"
               PROVE  \/ artifact.traits \cap Conclusive # {}
                      \/ detonation.egress
                      \/ \E i \in DOMAIN policy.rules :
                            /\ policy.rules[i].action = "reject"
                            /\ RuleMatches(policy.rules[i], artifact, ResultSet)
    BY DEF SignalsNeverReject
  <2> DEFINE declared == DecisionFromActions(MatchedActions(policy, artifact, ResultSet))
             baseline == DefaultDecision(artifact, ResultSet)
  <2>1. Evaluate(policy, artifact, ResultSet) = "reject"
    BY DEF GInv, DecisionInv
  <2>2. declared = "reject" \/ baseline = "reject"
    BY <2>1 DEF Evaluate
  <2>3. CASE baseline = "reject"
    <3>1. PICK r \in ResultSet : r.status = "fail"
      BY <2>3 DEF DefaultDecision, Statuses
    <3>2. Sound(r)
      BY PossibleSound DEF GInv, TypeInv, ResultSet
    <3>3. r.gate \in GateIds /\ r \in Evaluates(r.gate, artifact, sandbox, detonation)
      BY <3>1, <3>2, ErrorSound DEF CollectInv, ResultsInv, Sound
    <3>4. sandbox \in Sandboxes /\ detonation \in Detonation /\ artifact \in Artifacts
      BY SandboxAssumption DEF GInv, TypeInv
    <3> QED BY <3>1, <3>3, <3>4, GateMeans
  <2>4. CASE declared = "reject"
    <3>1. "reject" \in MatchedActions(policy, artifact, ResultSet)
      BY <2>4 DEF DecisionFromActions
    <3> QED BY <3>1 DEF MatchedActions
  <2> QED BY <2>2, <2>3, <2>4
<1> QED BY <1>1, Invariance, Collects, PTL

-----------------------------------------------------------------------------
(* What is approved is promoted *)

(* The attestation ingest signs of what it scanned and decided. *)
Statement ==
    BuildAttestation(artifact, PipelineVerdict, [id |-> policy.id, version |-> policy.version],
                     Confinement(sandbox))

SignedInv == stage # "scan" => envelope = <<SignAttestation(Statement, Signer)>>

LEMMA StatementStays ==
    ASSUME UNCHANGED <<artifact, policy, sandbox, results, decision>>
    PROVE  SignAttestation(Statement, Signer)' = SignAttestation(Statement, Signer)
<1>1. ResultSet' = ResultSet
  BY DEF ResultSet
<1>2. PipelineVerdict' = PipelineVerdict
  BY <1>1 DEF PipelineVerdict
<1>3. Statement' = Statement
  BY <1>2 DEF Statement, BuildAttestation, RigorSummary, Executed, RigorRank,
     ExecutedStatuses, Confinement
<1> QED BY <1>3 DEF SignAttestation

LEMMA StatementSays ==
    /\ Statement.digest = artifact.digest /\ Statement.type = artifact.type
    /\ Statement.decision = decision /\ Statement.gates = ResultSet
    /\ Statement.rigor = RigorSummary(ResultSet) /\ Statement.confinement = Confinement(sandbox)
    /\ Statement.policy.id = policy.id /\ Statement.policy.version = policy.version
  BY DEF Statement, BuildAttestation, PipelineVerdict

(* The summary is behavioural as soon as one executed result is. *)
LEMMA RigorIsBehavioral ==
    ASSUME NEW rs, \A r \in rs : r.rigor \in RigorLevels, BehavioralRan(rs)
    PROVE  RigorSummary(rs) = "behavioral"
<1> DEFINE achieved == {r.rigor : r \in Executed(rs)}
           Deepest(l) == \A m \in achieved : RigorRank[m] <= RigorRank[l]
<1>1. "behavioral" \in achieved /\ achieved \subseteq RigorLevels
  BY DEF BehavioralRan, Executed
<1>2. RigorRank["none"] = 0 /\ RigorRank["static"] = 1 /\ RigorRank["behavioral"] = 2
  BY DEF RigorRank
<1>3. RigorSummary(rs) = CHOOSE l \in achieved : Deepest(l)
  BY <1>1 DEF RigorSummary
<1> HIDE DEF achieved
<1>4. Deepest("behavioral")
  BY <1>1, <1>2 DEF RigorLevels
<1>5. \A l \in achieved : Deepest(l) => l = "behavioral"
  BY <1>1, <1>2 DEF RigorLevels
<1> HIDE DEF Deepest
<1> QED BY <1>1, <1>3, <1>4, <1>5

(* What the signer signs with its own key verifies against the same bytes. *)
LEMMA OwnSignatureVerifies ==
    ASSUME NEW att, AttributionProblems(att.gates) = {}
    PROVE  LET v == VerifyAttestation(SignAttestation(att, Signer), Verifier, AnyKeyid, {att.digest})
           IN  /\ ~v.raises /\ v.ok /\ \A c \in DOMAIN v.checks : v.checks[c]
               /\ v.scheme = Signer.scheme /\ v.keyid = Signer.keyid
<1> DEFINE env == SignAttestation(att, Signer)
           c == Checks(env, Verifier, AnyKeyid, {att.digest})
<1>1. /\ env.payload.form = "vetting" /\ env.payload.subject = att.digest /\ env.payload.att = att
      /\ env.sigs = <<[scheme |-> Signer.scheme, keyid |-> Signer.keyid, key |-> Signer.key]>>
  BY DEF SignAttestation
<1> HIDE DEF env
<1>2. /\ DOMAIN env.sigs = {1} /\ env.sigs # <<>> /\ env.sigs[1].scheme = Signer.scheme
      /\ env.sigs[1].keyid = Signer.keyid /\ env.sigs[1].key = Signer.key
  BY <1>1
<1>3. Verifier.scheme = Signer.scheme /\ Verifier.key = Signer.key
  BY DEF Verifier
<1>4. Matching(env, Verifier) = {1}
  BY <1>2, <1>3 DEF Matching
<1>5. SignatureHolds(env, Verifier)
  BY <1>2, <1>3, <1>4 DEF SignatureHolds
<1>6. /\ VerifyEnvelope(env, Verifier) = "statement" /\ WellFormed(env)
      /\ ~SubjectCrashes(env, Verifier)
  BY <1>1, <1>2, <1>5 DEF VerifyEnvelope, WellFormed, SubjectCrashes
<1>7. c.signature /\ c.digest_rebind /\ c.attribution /\ c.keyid
  BY <1>1, <1>6 DEF Checks, StatementUsable
<1>8. \A x \in DOMAIN c : c[x]
  BY <1>7 DEF Checks
<1>9. ReportedKeyid(env, Verifier) = Signer.keyid
  BY <1>2, <1>4 DEF ReportedKeyid
<1> HIDE DEF c
<1>10. VerifyAttestation(env, Verifier, AnyKeyid, {att.digest}) =
           [raises |-> FALSE, checks |-> c, ok |-> \A x \in DOMAIN c : c[x],
            scheme |-> Verifier.scheme, keyid |-> ReportedKeyid(env, Verifier)]
  BY <1>6 DEF VerifyAttestation, c
<1> QED BY <1>3, <1>8, <1>9, <1>10 DEF env

(* The gate configuration is one that this signer's signatures can meet. *)
SignerAccepted ==
    /\ GateConfig.asymmetric => Signer.scheme # "hmac-sha256"
    /\ GateConfig.keyids # {} => Signer.keyid \in GateConfig.keyids

LEMMA ApprovalIsAllowed ==
    ASSUME GInv, CollectInv, SignerAccepted, decision = "approve", policy.id, policy.version
    PROVE  LET env == SignAttestation(Statement, Signer)
               v   == VerifyAttestation(env, Verifier, AnyKeyid, {artifact.digest})
           IN  ~v.raises /\ FloorAllows(InputDoc(v, env.payload.att), GateConfig)
<1> DEFINE env == SignAttestation(Statement, Signer)
           v   == VerifyAttestation(env, Verifier, AnyKeyid, {artifact.digest})
<1>1. \A r \in ResultSet : Sound(r)
  BY ApprovalMeans
<1>2. AttributionProblems(Statement.gates) = {}
  BY <1>1, StatementSays DEF AttributionProblems, Executed, Sound
<1>3. /\ ~v.raises /\ v.ok /\ \A c \in DOMAIN v.checks : v.checks[c]
      /\ v.scheme = Signer.scheme /\ v.keyid = Signer.keyid
  BY <1>2, OwnSignatureVerifies, StatementSays
<1>4. env.payload.att = Statement
  BY DEF SignAttestation
<1>5. Statement.type \in ExecutableTypes =>
          Statement.rigor = "behavioral" /\ Statement.confinement \in Confined
  <2>1. \A r \in ResultSet : r.rigor \in RigorLevels
    BY <1>1 DEF Sound
  <2>2. artifact.type \in ExecutableTypes =>
            BehavioralRan(ResultSet) /\ sandbox \in {"docker", "gvisor"}
    BY ApprovalMeans
  <2>3. artifact.type \in ExecutableTypes => RigorSummary(ResultSet) = "behavioral"
    BY <2>1, <2>2, RigorIsBehavioral
  <2> QED BY <2>2, <2>3, StatementSays DEF Confinement, Confined
<1> HIDE DEF v, env
<1>6. FloorAllows(InputDoc(v, Statement), GateConfig)
  BY <1>3, <1>5, StatementSays DEF FloorAllows, InputDoc, SignerAccepted
<1> QED BY <1>3, <1>4, <1>6 DEF v, env

LEMMA NextPromotable ==
    ASSUME GInv, CollectInv, SignedInv, ApprovedIsPromotable, SignerAccepted, [Next]_vars
    PROVE  SignedInv' /\ ApprovedIsPromotable'
<1>1. CASE Scan
  BY <1>1 DEF Scan, SignedInv, ApprovedIsPromotable
<1>2. CASE Attest
  <2>1. /\ envelope' = <<SignAttestation(Statement, Signer)>> /\ stage' = "signed"
        /\ UNCHANGED <<artifact, policy, sandbox, results, decision>>
    BY <1>2, Attestable DEF Attest, Statement, scan
  <2> QED BY <2>1, StatementStays DEF SignedInv, ApprovedIsPromotable
<1>3. CASE Promote
  <2>1. /\ UNCHANGED <<artifact, policy, sandbox, results, decision, envelope>> /\ stage = "signed"
    BY <1>3 DEF Promote, scan
  <2>2. envelope = <<SignAttestation(Statement, Signer)>>
    BY <2>1 DEF SignedInv
  <2>3. Head(envelope) = SignAttestation(Statement, Signer)
    BY <2>2
  <2>4. ASSUME decision = "approve", live' = artifact.digest, policy.id, policy.version
        PROVE  stage' = "allowed"
    BY <1>3, <2>3, <2>4, ApprovalIsAllowed DEF Promote
  <2>5. ApprovedIsPromotable'
    BY <2>1, <2>4 DEF ApprovedIsPromotable
  <2> QED BY <2>1, <2>2, <2>5, StatementStays DEF SignedInv
<1>4. CASE UNCHANGED vars
  <2>1. UNCHANGED <<artifact, policy, sandbox, results, decision, envelope, stage, live>>
    BY <1>4 DEF vars, scan
  <2> QED BY <2>1, StatementStays DEF SignedInv, ApprovedIsPromotable
<1> QED BY <1>1, <1>2, <1>3, <1>4 DEF Next

(* The two decisions agree: what ingest approves, promotion accepts, for every
   artifact, policy and sandbox, as long as the bytes are the ones scanned, the
   policy is identified and the gate was configured to accept this signer. *)
THEOREM ApprovedIsPromotableHolds == ASSUME SignerAccepted PROVE Spec => []ApprovedIsPromotable
<1>1. Init => SignedInv /\ ApprovedIsPromotable
  BY DEF Init, SignedInv, ApprovedIsPromotable
<1>2. GInv /\ CollectInv /\ SignedInv /\ ApprovedIsPromotable /\ [Next]_vars
        => SignedInv' /\ ApprovedIsPromotable'
  BY NextPromotable
<1> QED BY <1>1, <1>2, Invariance, Collects, PTL DEF Spec
=============================================================================
