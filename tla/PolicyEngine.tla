---------------------------- MODULE PolicyEngine ----------------------------
(***************************************************************************)
(* The ingest decision of policy/engine.py: the safety baseline, and the   *)
(* declarative rules that can only raise it.  A policy is [id, version,    *)
(* rules]: the first two say whether the strings are non-empty, rules is    *)
(* the sequence of its rules [when, action].  when is the sequence of a     *)
(* rule's conditions, in the order of the document: [key, values,           *)
(* malformed].  values is the set of what the value lists, a singleton for  *)
(* a scalar; malformed says that it has the wrong shape or names no level.   *)
(***************************************************************************)
EXTENDS Verdict, Sequences

Keys == {"artifact.type", "artifact.type_in", "artifact.file_ext_in",
         "artifact.format_not_in", "rigor_below", "finding.code", "finding.code_in",
         "finding.severity_at_least", "gate_failed"}

Actions == {"reject", "require_review", "warn"}

DecisionRank == [approve |-> 0, review_required |-> 1, reject |-> 2]

IsExecutable(artifact) == artifact.type \in ExecutableTypes

Statuses(results) == {r.status : r \in results}

(* Mutant: a gate that raised is overlooked. *)
DefaultDecisionIgnoringErrors(artifact, results) ==
    IF "fail" \in Statuses(results) THEN "reject"
    ELSE IF IsExecutable(artifact) /\ ~BehavioralRan(results) THEN "review_required"
    ELSE IF "warn" \in Statuses(results) THEN "review_required"
    ELSE "approve"

(* The safety baseline (I8, I9). *)
DefaultDecision(artifact, results) ==
    IF "fail" \in Statuses(results) THEN "reject"
    ELSE IF "error" \in Statuses(results) THEN "review_required"
    ELSE IF IsExecutable(artifact) /\ ~BehavioralRan(results) THEN "review_required"
    ELSE IF "warn" \in Statuses(results) THEN "review_required"
    ELSE "approve"

Codes(results)       == {f.code : f \in Findings(results)}
FailedGates(results) == {r.gate : r \in {x \in results : x.status = "fail"}}

(* _predicate_matches, for a condition that does not raise. *)
Holds(c, artifact, results) ==
    CASE c.key \in {"artifact.type", "artifact.type_in"} -> artifact.type \in c.values
      [] c.key = "artifact.file_ext_in"   -> artifact.extensions \cap c.values # {}
      [] c.key = "artifact.format_not_in" -> artifact.extensions \cap c.values = {}
      [] c.key = "rigor_below" ->
            \E level \in c.values : RigorRank[RigorSummary(results)] < RigorRank[level]
      [] c.key \in {"finding.code", "finding.code_in"} -> Codes(results) \cap c.values # {}
      [] c.key = "finding.severity_at_least" ->
            \E severity \in c.values : \E f \in Findings(results) :
                SeverityRank[f.severity] >= SeverityRank[severity]
      [] c.key = "gate_failed" -> FailedGates(results) \cap c.values # {}

(* The keys whose value is compared as a string take any value. *)
ConditionRaises(c) ==
    \/ c.key \notin Keys
    \/ c.malformed /\ c.key \notin {"artifact.type", "finding.code", "gate_failed"}

(* all() stops at the first condition that does not hold: one behind it is
   not looked at, however malformed. *)
RuleRaises(rule, artifact, results) ==
    \E i \in DOMAIN rule.when :
        /\ ConditionRaises(rule.when[i])
        /\ \A j \in 1..(i - 1) : ~ConditionRaises(rule.when[j]) /\ Holds(rule.when[j], artifact, results)

RuleMatches(rule, artifact, results) ==
    /\ rule.when # <<>>
    /\ \A i \in DOMAIN rule.when :
          ~ConditionRaises(rule.when[i]) /\ Holds(rule.when[i], artifact, results)

(* The actions of matched_rules. *)
MatchedActions(policy, artifact, results) ==
    {policy.rules[i].action :
        i \in {j \in DOMAIN policy.rules : RuleMatches(policy.rules[j], artifact, results)}}

PolicyRaises(policy, artifact, results) ==
    \E i \in DOMAIN policy.rules : RuleRaises(policy.rules[i], artifact, results)

DecisionFromActions(actions) ==
    IF "reject" \in actions THEN "reject"
    ELSE IF "require_review" \in actions THEN "review_required" ELSE "approve"

(* Mutant: a matching rule has the last word. *)
EvaluateOverriding(policy, artifact, results) ==
    LET matched == MatchedActions(policy, artifact, results)
    IN  IF PolicyRaises(policy, artifact, results) THEN "PolicyError"
        ELSE IF matched # {} THEN DecisionFromActions(matched)
        ELSE DefaultDecision(artifact, results)

(* The more severe of the baseline and the rules' decision, or PolicyError. *)
Evaluate(policy, artifact, results) ==
    LET baseline == DefaultDecision(artifact, results)
        declared == DecisionFromActions(MatchedActions(policy, artifact, results))
    IN  IF PolicyRaises(policy, artifact, results) THEN "PolicyError"
        ELSE IF DecisionRank[declared] > DecisionRank[baseline] THEN declared ELSE baseline
=============================================================================
