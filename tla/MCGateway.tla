----------------------------- MODULE MCGateway -----------------------------
(* Artifacts of four types, each showing one thing that some gate looks for, or
   one of the combinations that matter, beside what its type always has. *)
EXTENDS Gateway, TLC

CONSTANTS ref, tree, other

Types == {"model", "dataset", "notebook", "agent_skill"}

Always(type) ==
    CASE type = "model"       -> {"safeWeights", "licensed"}
      [] type = "notebook"    -> {"licensed", "python"}
      [] type = "agent_skill" -> {"licensed", "manifest"}
      [] OTHER                -> {}

Combinations ==
    {{t} : t \in Traits} \cup
    {{"python", t} : t \in {"execCall", "capabilityCall", "unparseable", "callsOut"}} \cup
    {{"arrayFormat", t} : t \in {"dangerousGlobal", "suspiciousGlobal", "unscannable", "callsOut"}} \cup
    {{}, {"pickleFormat", "dangerousGlobal"}, {"dataFile", "plainGlobal"}, {"injection", "secret"},
     {"licensed", "restrictive"}, {"python", "execCall", "secret"}}

Shown(type) == {t \in {Always(type) \cup some : some \in Combinations} : Consistent(t)}

Of(type, expected, traits) ==
    [ref |-> ref, type |-> type, digest |-> tree, expected |-> expected, traits |-> traits,
     extensions |-> Extensions(traits)]

(* A source computes the digest and refuses bytes that do not have the expected one. *)
AllArtifacts ==
    UNION {{Of(type, tree, t) : t \in Shown(type)} : type \in Types}
        \cup {Of("model", NoDigest, Always("model"))}

When(key, values)      == [key |-> key, values |-> values, malformed |-> FALSE]
Malformed(key)         == [key |-> key, values |-> {}, malformed |-> TRUE]
Rule(when, action)     == [when |-> when, action |-> action]
Policy(version, rules) == [id |-> TRUE, version |-> version, rules |-> rules]

(* policies/model-ingestion.yaml *)
ModelIngestion == Policy(TRUE, <<
    Rule(<<When("artifact.file_ext_in", {"pickleFormat"})>>, "reject"),
    Rule(<<When("artifact.type", {"model"}), When("artifact.format_not_in", {"safeWeights"})>>,
         "require_review"),
    Rule(<<When("artifact.type_in", {"mcp_server", "python_package", "notebook"}),
           When("rigor_below", {"behavioral"})>>, "require_review"),
    Rule(<<When("finding.code", {"prompt_injection_suspected"})>>, "warn")>>)

AllPolicies == {
    Policy(TRUE, <<>>),
    Policy(FALSE, <<>>),
    ModelIngestion,
    Policy(TRUE, <<Rule(<<>>, "reject"),
                   Rule(<<When("gate_failed", {"static_code"})>>, "warn"),
                   Rule(<<When("finding.severity_at_least", {"high"})>>, "reject")>>),
    Policy(TRUE, <<Rule(<<When("finding.code_in", {"gate_error", "no_license"}),
                          Malformed("rigor_below")>>, "require_review"),
                   Rule(<<When("artifact.type", {"dataset"}), Malformed("artifact.colour")>>,
                        "warn")>>)}

TheSigner == [scheme |-> "ed25519", keyid |-> "id1", key |-> "k1"]
TheGate   == [keyids |-> {}, asymmetric |-> FALSE, opa |-> FALSE]
=============================================================================
