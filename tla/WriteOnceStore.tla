--------------------------- MODULE WriteOnceStore ---------------------------
(***************************************************************************)
(* What the trusted store promises to its callers: one map from digests to *)
(* attestations, written once per digest, each call deciding in one        *)
(* indivisible step.  TrustedStore, with its tmp directories, renames and  *)
(* crashes, implements it (TrustedStoreRefinement).                        *)
(***************************************************************************)
CONSTANTS Attempts, Envelopes, SubjectOf, Absent, Nobody

Digests == {SubjectOf[e] : e \in Envelopes}

VARIABLES
    entry,     \* entry[d]: the attestation filed under d, or Absent
    want,      \* want[a]: the attestation a asked to file
    outcome    \* outcome[a]: what became of a's call

vars == <<entry, want, outcome>>

Outcomes == {"none", "open", "committed", "present", "refused", "failed", "crashed"}

TypeOK ==
    /\ entry   \in [Digests -> Envelopes \cup {Absent}]
    /\ want    \in [Attempts -> Envelopes \cup {Nobody}]
    /\ outcome \in [Attempts -> Outcomes]

Init ==
    /\ entry   = [d \in Digests |-> Absent]
    /\ want    = [a \in Attempts |-> Nobody]
    /\ outcome = [a \in Attempts |-> "none"]

Decided(a, r) ==
    /\ outcome[a] = "open"
    /\ outcome' = [outcome EXCEPT ![a] = r]
    /\ UNCHANGED want

Ask(a, e) ==
    /\ outcome[a] = "none"
    /\ want' = [want EXCEPT ![a] = e]
    /\ outcome' = [outcome EXCEPT ![a] = "open"]
    /\ UNCHANGED entry

Commit(a) ==
    /\ Decided(a, "committed")
    /\ entry[SubjectOf[want[a]]] = Absent
    /\ entry' = [entry EXCEPT ![SubjectOf[want[a]]] = want[a]]

Confirm(a) ==
    /\ Decided(a, "present")
    /\ entry[SubjectOf[want[a]]] = want[a]
    /\ UNCHANGED entry

Decline(a) ==
    /\ Decided(a, "refused") \/ Decided(a, "failed")
    /\ UNCHANGED entry

(* The caller may die before it has heard the outcome, decided or not. *)
Die(a) ==
    /\ outcome[a] \notin {"none", "crashed"}
    /\ outcome' = [outcome EXCEPT ![a] = "crashed"]
    /\ UNCHANGED <<entry, want>>

Decide(a) == Commit(a) \/ Confirm(a) \/ Decline(a)

Next == \E a \in Attempts : (\E e \in Envelopes : Ask(a, e)) \/ Decide(a) \/ Die(a)

Spec == Init /\ [][Next]_vars

(* A call is decided, unless its caller dies. *)
Fairness == \A a \in Attempts : WF_vars(Decide(a))
=============================================================================
