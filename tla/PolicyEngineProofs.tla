------------------------- MODULE PolicyEngineProofs -------------------------
(***************************************************************************)
(* The policy is a floor: for every policy, well-formed or not, and every   *)
(* set of gate results.  Which rules match is left open: the facts need     *)
(* only what is done with their actions.                                    *)
(***************************************************************************)
EXTENDS PolicyEngine, TLAPS

(* Both halves of the decision are decisions, whatever the actions and results. *)
LEMMA DecidesOne ==
    ASSUME NEW artifact, NEW results, NEW actions
    PROVE  /\ DefaultDecision(artifact, results) \in Decisions
           /\ DecisionFromActions(actions) \in Decisions
  BY DEF DefaultDecision, DecisionFromActions, Decisions

(* The baseline approves only what nothing failed, raised or warned about and
   what was run if it executes code (engine.py:50-62). *)
LEMMA BaselineApproves ==
    ASSUME NEW artifact, NEW results,
           DefaultDecision(artifact, results) = "approve"
    PROVE  /\ Statuses(results) \cap {"fail", "error", "warn"} = {}
           /\ IsExecutable(artifact) => BehavioralRan(results)
  BY DEF DefaultDecision

(* A document either raises or can only make the decision more severe
   (engine.py:168-172). *)
THEOREM RulesOnlyRaise ==
    ASSUME NEW policy, NEW artifact, NEW results,
           Evaluate(policy, artifact, results) # "PolicyError"
    PROVE  /\ Evaluate(policy, artifact, results) \in Decisions
           /\ DecisionRank[Evaluate(policy, artifact, results)]
                  >= DecisionRank[DefaultDecision(artifact, results)]
<1> DEFINE declared == DecisionFromActions(MatchedActions(policy, artifact, results))
           baseline == DefaultDecision(artifact, results)
<1>1. declared \in Decisions /\ baseline \in Decisions
  BY DecidesOne
<1>2. Evaluate(policy, artifact, results) =
          IF DecisionRank[declared] > DecisionRank[baseline] THEN declared ELSE baseline
  BY DEF Evaluate
<1> HIDE DEF declared, baseline
<1>3. DecisionRank[declared] \in Int /\ DecisionRank[baseline] \in Int
  BY <1>1 DEF DecisionRank, Decisions
<1>4. Evaluate(policy, artifact, results) \in Decisions
      /\ DecisionRank[Evaluate(policy, artifact, results)] >= DecisionRank[baseline]
  BY <1>1, <1>2, <1>3
<1> QED BY <1>4 DEF baseline

(* No policy whatever approves an artifact that a gate failed, warned about or
   could not look at, or one that executes code and was not run (I4, I8, I9). *)
THEOREM PolicyIsAFloor ==
    ASSUME NEW policy, NEW artifact, NEW results,
           Evaluate(policy, artifact, results) = "approve"
    PROVE  /\ Statuses(results) \cap {"fail", "error", "warn"} = {}
           /\ IsExecutable(artifact) => BehavioralRan(results)
<1>1. DecisionRank["approve"] >= DecisionRank[DefaultDecision(artifact, results)]
  BY RulesOnlyRaise
<1>2. DefaultDecision(artifact, results) \in Decisions
  BY DecidesOne
<1>3. DefaultDecision(artifact, results) = "approve"
  BY <1>1, <1>2 DEF Decisions, DecisionRank
<1> QED BY <1>3, BaselineApproves
=============================================================================
