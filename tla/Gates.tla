------------------------------- MODULE Gates -------------------------------
(***************************************************************************)
(* The built-in gates of gates/, each a function of what the files of an   *)
(* artifact are.  An artifact is [ref, type, digest, expected, traits,      *)
(* extensions]: digest is what the source computed (NoDigest: nothing),     *)
(* expected the digest its reference names (NoDigest: none), and traits the *)
(* set of the things its files show that some gate looks for.  One trait     *)
(* stands for every pattern that gives a finding of the same weight.         *)
(***************************************************************************)
EXTENDS Sandbox, Sequences

Traits == {
    "safeWeights", "badHeader", "undecodableHeader",       \* safetensors or gguf, and its header
    "pickleFormat",   \* .pkl, .pt, .bin: a pickle, and scanned as one
    "packedPickle",   \* .pkl.gz: a pickle, but not scanned
    "arrayFormat",    \* .npy, .npz, .pt2: code on load, and scanned
    "graphFormat",    \* .h5, .keras, .pb: code on load, but not scanned
    "dataFile",       \* .dat, .model: scanned, but no weight format
    "archive",
    "dangerousGlobal", "suspiciousGlobal", "plainGlobal", "unscannable",  \* of a scanned file
    "python", "execCall", "capabilityCall", "unparseable", \* .py files and what they call
    "remoteCode", "licensed", "restrictive",               \* config.json and LICENSE
    "secret", "injection",                                 \* of text files it can read
    "manifest", "dangerousGrant", "runnable",              \* of an agent skill
    "callsOut"}                                            \* what loading it does

WeightFormats == {"safeWeights", "pickleFormat", "packedPickle", "arrayFormat", "graphFormat",
                  "archive"}
Scanned == {"pickleFormat", "arrayFormat", "dataFile"}   \* _SCANNABLE

(* Which traits files can show together. *)
Consistent(traits) ==
    /\ traits \cap {"badHeader", "undecodableHeader"} # {} => "safeWeights" \in traits
    /\ traits \cap {"dangerousGlobal", "suspiciousGlobal", "plainGlobal", "unscannable"} # {} =>
          traits \cap Scanned # {}
    /\ traits \cap {"execCall", "capabilityCall", "unparseable"} # {} => "python" \in traits
    /\ "dangerousGrant" \in traits => "manifest" \in traits
    /\ "restrictive" \in traits => "licensed" \in traits
    /\ "callsOut" \in traits => traits \cap {"pickleFormat", "arrayFormat", "python"} # {}

(* The file extensions a policy can name. *)
Extensions(traits) ==
    traits \cap (WeightFormats \cup {"dataFile", "python"})

WeightTypes == {"model", "adapter", "embedding_model"}

GateIds == {"format_allowlist", "digest", "serialization_safety", "secrets",
            "license_metadata", "static_code", "prompt_injection", "agent_skill", "behavioral"}

(* The order of gates/__init__.py. *)
DefaultGates ==
    <<"format_allowlist", "digest", "serialization_safety", "secrets", "license_metadata",
      "static_code", "prompt_injection", "agent_skill", "behavioral">>

Cost(gate) ==
    IF gate = "behavioral" THEN "expensive"
    ELSE IF gate \in {"static_code", "prompt_injection", "agent_skill"} THEN "medium" ELSE "cheap"

AppliesTo(gate) ==
    IF gate = "format_allowlist" THEN WeightTypes
    ELSE IF gate = "agent_skill" THEN {"agent_skill"} ELSE ArtifactTypes

-----------------------------------------------------------------------------
Result(gate, status, rigor, findings) ==
    [gate |-> gate, status |-> status, rigor |-> rigor, findings |-> findings,
     named |-> TRUE, versioned |-> TRUE]

(* A finding for a trait the artifact shows, or for traits it lacks. *)
If(condition, code, severity) == IF condition THEN {Finding(code, severity)} ELSE {}

AtLeast(findings, severity) ==
    \E f \in findings : SeverityRank[f.severity] >= SeverityRank[severity]

(* How most static gates turn their findings into a status. *)
FailOnHigh(findings) ==
    IF AtLeast(findings, "high") THEN "fail" ELSE IF findings # {} THEN "warn" ELSE "pass"
WarnOnly(findings) == IF findings # {} THEN "warn" ELSE "pass"

Static(gate, status, findings) == {Result(gate, status, "static", findings)}

(* json.loads on undecodable or over-nested header bytes raises what the gate
   does not catch: no result. *)
Digest(a) ==
    LET found ==   If(a.expected \notin {NoDigest, a.digest}, "digest_mismatch", "critical")
              \cup If(a.expected = NoDigest, "unpinned_reference", "info")
              \cup If("badHeader" \in a.traits, "malformed_safetensors", "high")
    IN  IF "undecodableHeader" \in a.traits THEN {}
        ELSE Static("digest", IF AtLeast(found, "high") THEN "fail" ELSE "pass", found)

FormatAllowlist(a) ==
    LET Shows(some) == a.traits \cap some # {}
        found ==   If(Shows({"pickleFormat", "packedPickle"}), "unsafe_serialization_format", "critical")
              \cup If(Shows({"arrayFormat", "graphFormat"}), "code_on_load_format", "medium")
              \cup If("archive" \in a.traits, "archive_format", "medium")
              \cup If("python" \in a.traits, "custom_model_code", "medium")
              \cup If("remoteCode" \in a.traits, "trust_remote_code", "medium")
              \cup If(~Shows(WeightFormats), "no_recognised_weight_format", "medium")
    IN  Static("format_allowlist", FailOnHigh(found), found)

Scannable(a) == a.traits \cap Scanned # {}

(* Mutant: the missing scanner is reported under its own, unknown version. *)
WithoutPicklescanUnversioned(a) ==
    {[r EXCEPT !.versioned = ~Scannable(a)] :
        r \in Static("serialization_safety", IF Scannable(a) THEN "warn" ELSE "pass",
                     If(Scannable(a), "serialization_scan_unavailable", "medium"))}

WithoutPicklescan(a) ==
    Static("serialization_safety", IF Scannable(a) THEN "warn" ELSE "pass",
           If(Scannable(a), "serialization_scan_unavailable", "medium"))

WithPicklescan(a) ==
    LET found ==   If("unscannable" \in a.traits, "serialization_scan_error", "high")
              \cup If("dangerousGlobal" \in a.traits, "unsafe_pickle_global", "critical")
              \cup If("suspiciousGlobal" \in a.traits, "suspicious_pickle_global", "medium")
              \cup If("plainGlobal" \in a.traits, "pickle_global", "info")
        status == IF AtLeast(found, "high") THEN "fail"
                  ELSE IF AtLeast(found, "low") THEN "warn" ELSE "pass"
    IN  Static("serialization_safety", status, found)

(* picklescan is an optional dependency. *)
SerializationSafety(a) == WithoutPicklescan(a) \cup WithPicklescan(a)

Secrets(a) ==
    LET found == If("secret" \in a.traits, "secret_detected", "high")
    IN  Static("secrets", WarnOnly(found), found)

LicenseMetadata(a) ==
    LET found ==   If("licensed" \notin a.traits, "no_license", "info")
              \cup If("restrictive" \in a.traits, "restrictive_license", "medium")
    IN  Static("license_metadata", IF AtLeast(found, "medium") THEN "warn" ELSE "pass", found)

StaticCode(a) ==
    LET found ==   If("execCall" \in a.traits, "dynamic_code_execution", "critical")
              \cup If("capabilityCall" \in a.traits, "suspicious_capability", "medium")
              \cup If("unparseable" \in a.traits, "unparseable_python", "medium")
    IN  Static("static_code", FailOnHigh(found), found)

(* Mutant: a suspicious phrase fails the gate. *)
PromptInjectionFailing(a) ==
    LET found == If("injection" \in a.traits, "prompt_injection_suspected", "medium")
    IN  Static("prompt_injection", IF found # {} THEN "fail" ELSE "pass", found)

PromptInjection(a) ==
    LET found == If("injection" \in a.traits, "prompt_injection_suspected", "medium")
    IN  Static("prompt_injection", WarnOnly(found), found)

Skill(a) ==
    LET found ==   If("manifest" \notin a.traits, "skill_missing_manifest", "medium")
              \cup If("dangerousGrant" \in a.traits, "skill_dangerous_tool_grant", "high")
              \cup If(a.traits \cap {"runnable", "python"} # {}, "skill_bundles_executables", "medium")
    IN  Static("agent_skill", WarnOnly(found), found)

(* An artifact source lists at least one file, so hasFiles holds. *)
Behavioral(a, sandbox, detonation) ==
    LET o == Observe(sandbox, detonation, TRUE)
    IN  {Result("behavioral", o.status, o.rigor, o.findings)}

(* gate.evaluate(): its possible results, none when it is bound to raise. *)
Evaluates(gate, a, sandbox, detonation) ==
    CASE gate = "digest"               -> Digest(a)
      [] gate = "format_allowlist"     -> FormatAllowlist(a)
      [] gate = "serialization_safety" -> SerializationSafety(a)
      [] gate = "secrets"              -> Secrets(a)
      [] gate = "license_metadata"     -> LicenseMetadata(a)
      [] gate = "static_code"          -> StaticCode(a)
      [] gate = "prompt_injection"     -> PromptInjection(a)
      [] gate = "agent_skill"          -> Skill(a)
      [] gate = "behavioral"           -> Behavioral(a, sandbox, detonation)
=============================================================================
