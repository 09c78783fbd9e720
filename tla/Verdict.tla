------------------------------ MODULE Verdict ------------------------------
(***************************************************************************)
(* The categorical vocabulary of core/verdict.py and core/artifact.py and  *)
(* the summaries of a set of gate results that decide anything.  A gate    *)
(* result is a record                                                      *)
(*   [gate, status, rigor, findings, named, versioned]                     *)
(* where findings is a set of [code, severity] and the last two say        *)
(* whether scanner_name and scanner_version are non-empty.                 *)
(***************************************************************************)
EXTENDS Integers

GateStatuses == {"pass", "warn", "fail", "skipped", "error"}
RigorLevels  == {"none", "static", "behavioral"}
Decisions    == {"approve", "review_required", "reject"}

NoDigest == "no digest"      \* Artifact.digest, ArtifactRef.expected_digest: None

ArtifactTypes ==
    {"model", "adapter", "dataset", "tokenizer", "embedding_model", "agent_skill",
     "mcp_server", "python_package", "npm_package", "container_image", "notebook",
     "prompt_template", "eval_set"}

(* Types that execute code when loaded. *)
ExecutableTypes ==
    {"mcp_server", "python_package", "npm_package", "notebook", "container_image",
     "agent_skill"}

ExecutedStatuses == {"pass", "warn", "fail"}
RigorRank    == [none |-> 0, static |-> 1, behavioral |-> 2]
SeverityRank == [info |-> 0, low |-> 1, medium |-> 2, high |-> 3, critical |-> 4]

Findings(results) == UNION {r.findings : r \in results}
Executed(results) == {r \in results : r.status \in ExecutedStatuses}

(* Mutant: the level that every executed gate reached. *)
RigorSummaryWeakest(results) ==
    LET achieved == {r.rigor : r \in Executed(results)}
    IN  IF achieved = {} THEN "none"
        ELSE CHOOSE l \in achieved : \A m \in achieved : RigorRank[l] <= RigorRank[m]

(* The deepest level among the gates that actually executed. *)
RigorSummary(results) ==
    LET achieved == {r.rigor : r \in Executed(results)}
    IN  IF achieved = {} THEN "none"
        ELSE CHOOSE l \in achieved : \A m \in achieved : RigorRank[m] <= RigorRank[l]

BehavioralRan(results) == \E r \in Executed(results) : r.rigor = "behavioral"
=============================================================================
