------------------------------ MODULE Pipeline ------------------------------
(***************************************************************************)
(* run_pipeline of core/pipeline.py: the applicable gates in cost order,   *)
(* one at a time; a gate may raise; a failed cheap or medium gate spares    *)
(* the expensive one; the policy engine decides.                            *)
(***************************************************************************)
EXTENDS Gates, PolicyEngine, FiniteSets

CONSTANTS
    Artifacts,   \* what a source may deliver
    Policies,    \* what --policy may load
    Configured,  \* the sandboxes that may be configured
    MaxRaises    \* the bound: how many gates of a scan may raise unforeseen

ASSUME SandboxAssumption == Configured \subseteq Sandboxes

(* Both sources hash what they fetched, and refuse what does not have the digest
   its reference names; and traits are said of files that can show them. *)
ASSUME ArtifactAssumption ==
    \A a \in Artifacts :
        /\ a.type \in ArtifactTypes
        /\ a.digest # NoDigest /\ a.expected \in {NoDigest, a.digest}
        /\ Consistent(a.traits)

VARIABLES
    artifact, policy, sandbox,   \* the arguments
    pending,        \* the applicable gates the loop has not come to
    results,        \* the results so far, in order
    shortCircuit,   \* short_circuit_expensive
    detonation,     \* history: what happened in the sandbox
    decision        \* verdict.decision, "none" before

scan == <<artifact, policy, sandbox, pending, results, shortCircuit, detonation, decision>>

CostRank == [cheap |-> 0, medium |-> 1, expensive |-> 2]
Listed(gate) == CHOOSE i \in DOMAIN DefaultGates : DefaultGates[i] = gate

(* order_gates is stable: gates of one cost stay in their order. *)
Before(g, h) ==
    \/ CostRank[Cost(g)] < CostRank[Cost(h)]
    \/ CostRank[Cost(g)] = CostRank[Cost(h)] /\ Listed(g) < Listed(h)

Applicable(type) == {g \in GateIds : type \in AppliesTo(g)}

IsNext(gate) == gate \in pending /\ \A h \in pending \ {gate} : Before(gate, h)

ResultSet == {results[i] : i \in DOMAIN results}

ScanInit ==
    /\ artifact \in Artifacts
    /\ policy \in Policies
    /\ sandbox \in Configured
    /\ pending = Applicable(artifact.type)
    /\ results = <<>>
    /\ shortCircuit = FALSE
    /\ detonation = Silent
    /\ decision = "none"

(* What stands for the exception: a result without a scanner's name. *)
ErrorResult(gate) ==
    [gate |-> gate, status |-> "error", rigor |-> "none",
     findings |-> {Finding("gate_error", "medium")}, named |-> FALSE, versioned |-> FALSE]

Raised(r) == Finding("gate_error", "medium") \in r.findings
Raises == Cardinality({i \in DOMAIN results : Raised(results[i])})

(* _run_gate: a result of the gate, or its exception made into one. *)
RunGate(gate, d) ==
    LET evaluated == Evaluates(gate, artifact, sandbox, d)
    IN  IF evaluated = {} \/ Raises < MaxRaises
        THEN evaluated \cup {ErrorResult(gate)} ELSE evaluated

(* Mutant: a finding of any weight spares the expensive gate. *)
SparesExpensiveOnWarn(gate, r) == r.status \in {"warn", "fail"} /\ Cost(gate) # "expensive"

SparesExpensive(gate, r) == r.status = "fail" /\ Cost(gate) # "expensive"

(* What happens in the sandbox while a gate runs; only docker runs anything. *)
Happens(gate) ==
    IF gate = "behavioral" /\ sandbox \in {"docker", "gvisor"}
    THEN UNION {Detonations(mount, "callsOut" \in artifact.traits) : mount \in Mounts}
    ELSE {Silent}

(* Mutant: the loop ends at the first failure. *)
NextGateStopping(gate) ==
    /\ IsNext(gate)
    /\ \E d \in Happens(gate) : \E r \in RunGate(gate, d) :
          /\ results' = Append(results, r)
          /\ pending' = IF r.status = "fail" THEN {} ELSE pending \ {gate}
          /\ shortCircuit' = (r.status = "fail")
          /\ detonation' = d
    /\ UNCHANGED <<artifact, policy, sandbox, decision>>

NextGate(gate) ==
    /\ IsNext(gate)
    /\ ~(shortCircuit /\ Cost(gate) = "expensive")
    /\ \E d \in Happens(gate) : \E r \in RunGate(gate, d) :
          /\ results' = Append(results, r)
          /\ shortCircuit' = (shortCircuit \/ SparesExpensive(gate, r))
          /\ detonation' = d
    /\ pending' = pending \ {gate}
    /\ UNCHANGED <<artifact, policy, sandbox, decision>>

SkipGate(gate) ==
    /\ IsNext(gate)
    /\ shortCircuit /\ Cost(gate) = "expensive"
    /\ pending' = pending \ {gate}
    /\ UNCHANGED <<artifact, policy, sandbox, results, shortCircuit, detonation, decision>>

(* The verdict, or PolicyError. *)
Decide ==
    /\ pending = {} /\ decision = "none"
    /\ decision' = Evaluate(policy, artifact, ResultSet)
    /\ UNCHANGED <<artifact, policy, sandbox, pending, results, shortCircuit, detonation>>

ScanStep ==
    \/ \E gate \in GateIds : NextGate(gate) \/ SkipGate(gate)
    \/ Decide

ScanTypeOK ==
    /\ artifact \in Artifacts /\ policy \in Policies /\ sandbox \in Sandboxes
    /\ pending \subseteq Applicable(artifact.type)
    /\ \A i \in DOMAIN results :
          /\ results[i].gate \in GateIds
          /\ results[i].status \in GateStatuses
          /\ results[i].rigor \in RigorLevels
    /\ shortCircuit \in BOOLEAN
    /\ detonation \in Detonation
    /\ decision \in Decisions \cup {"none", "PolicyError"}
=============================================================================
