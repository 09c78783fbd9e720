--------------------------- MODULE PromotionProofs ---------------------------
(***************************************************************************)
(* Proofs about Promotion for any attempts, envelopes and their contents,  *)
(* verifier, gate configuration and faults.  First that promotion is a     *)
(* client the trusted store was specified for (PSpec implements Spec), so  *)
(* that every theorem of TrustedStoreProofs holds of it; then what is      *)
(* stored is vetted, what an attempt reports is what it did, and what is   *)
(* vetted is promoted.                                                     *)
(***************************************************************************)
EXTENDS Promotion, TrustedStoreProofs

USE DEF Env, Key, Goto, Leave, Suffer, Step, Finish, Meet

(* The variables of promote_artifact itself. *)
HostTypeOK ==
    /\ phase   \in [Attempts -> Phases]
    /\ ask     \in [Attempts -> Envelopes \cup {NoCall}]
    /\ fetched \in [Attempts -> Fetched \cup {Absent}]
    /\ outcome \in [Attempts -> Outcomes]
    /\ log     \in [Attempts -> Seq(Outcomes)]
    /\ index   \in SUBSET Attempts
    /\ hurt    \in [Attempts -> SUBSET HostFaultKinds]

(* The quarantine verify_attestation hashes is the one handed to the store:
   from the gate on it carries the digest the loaded envelope attests, and
   past the gate the envelope is vetted. *)
CheckedFor(a) ==
    /\ phase[a] \in {"workspace", "fetch", "verify", "gate", "write"} => ask[a] \in Envelopes
    /\ phase[a] \in {"verify", "gate", "write"} =>
          fetched[a] # Absent /\ fetched[a].files \subseteq DOMAIN fetched[a].tree
    /\ phase[a] \in {"gate", "write"} =>
          HashTree(fetched[a].tree, fetched[a].files) = SubjectOf[ask[a]]
    /\ phase[a] = "gate" => ~Verification(a, LiveDigest(a)).raises /\ Verification(a, LiveDigest(a)).ok
    /\ phase[a] = "write" => Vetted(ask[a]) /\ a \notin DryRuns

HostInv == HostTypeOK /\ \A a \in Attempts : CheckedFor(a)

-----------------------------------------------------------------------------
(* Verifying and deciding *)

(* A verification that is ok compared the live digest with the signed one. *)
LEMMA OkBinds ==
    ASSUME NEW env, NEW live, NEW verifier, NEW expected,
           LET v == VerifyAttestation(env, verifier, expected, live)
           IN  ~v.raises /\ v.ok
    PROVE  live = {env.payload.subject}
  BY DEF VerifyAttestation, Checks

(* A verification that is ok says everything of the envelope that Vetted does,
   up to the decision. *)
LEMMA OkMeans ==
    ASSUME NEW env, NEW live, NEW verifier, NEW expected,
           LET v == VerifyAttestation(env, verifier, expected, live)
           IN  ~v.raises /\ v.ok
    PROVE  /\ SignatureHolds(env, verifier)
           /\ expected # AnyKeyid => \E i \in Matching(env, verifier) : env.sigs[i].keyid = expected
           /\ env.payload.form = "vetting"
           /\ env.payload.att.digest = env.payload.subject
           /\ AttributionProblems(env.payload.att.gates) = {}
<1>1. LET c == Checks(env, verifier, expected, live)
      IN  c.signature /\ c.digest_rebind /\ c.attribution /\ c.keyid
  BY DEF VerifyAttestation, Checks
<1>2. SignatureHolds(env, verifier)
  BY <1>1 DEF Checks, VerifyEnvelope
<1> QED
  BY <1>1, <1>2 DEF Checks, StatementUsable

(* The floor adds the decision, the behavioural run and the policy. *)
LEMMA FloorMeans ==
    ASSUME NEW v, NEW att, NEW cfg, NEW answer, GateAllows(InputDoc(v, att), cfg, answer)
    PROVE  /\ att.decision = "approve"
           /\ att.type \in ExecutableTypes => att.rigor = "behavioral" /\ att.confinement \in Confined
           /\ att.policy.id /\ att.policy.version
  BY DEF GateAllows, FloorAllows, InputDoc

(* What the gate lets through is vetted. *)
LEMMA AllowedIsVetted ==
    ASSUME HostInv, NEW a \in Attempts, phase[a] = "gate", NEW answer,
           GateAllows(Doc(a), GateConfig, answer)
    PROVE  Vetted(ask[a])
<1> DEFINE env == Content[ask[a]]
<1>1. LET v == VerifyAttestation(env, Verifier, ExpectedKeyid, LiveDigest(a)) IN ~v.raises /\ v.ok
  BY DEF HostInv, CheckedFor, Verification
<1>2. /\ SignatureHolds(env, Verifier)
      /\ ExpectedKeyid # AnyKeyid =>
            \E i \in Matching(env, Verifier) : env.sigs[i].keyid = ExpectedKeyid
      /\ env.payload.form = "vetting"
      /\ env.payload.att.digest = env.payload.subject
      /\ AttributionProblems(env.payload.att.gates) = {}
  BY <1>1, OkMeans
<1>3. /\ env.payload.att.decision = "approve"
      /\ env.payload.att.type \in ExecutableTypes =>
            env.payload.att.rigor = "behavioral" /\ env.payload.att.confinement \in Confined
      /\ env.payload.att.policy.id /\ env.payload.att.policy.version
  BY FloorMeans DEF Doc
<1> QED
  BY <1>2, <1>3 DEF Vetted

-----------------------------------------------------------------------------
(* The invariant of the host steps *)

LEMMA InitHostInv == PInit => HostInv
  BY DEF PInit, HostInv, HostTypeOK, CheckedFor, Phases, Outcomes

LEMMA MeetType ==
    ASSUME HostTypeOK, NEW a \in Attempts, NEW f \in HostFaults
    PROVE  [hurt EXCEPT ![a] = @ \cup {f}] \in [Attempts -> SUBSET HostFaultKinds]
  BY SourceAssumption DEF HostTypeOK

LEMMA NextHostTypeOK ==
    ASSUME HostInv, [PNext]_pvars PROVE HostTypeOK'
<1> USE DEF HostInv, HostTypeOK
<1>a. ASSUME NEW a \in Attempts,
             \/ Load(a) \/ PromoteStep(a) \/ Raise(a) \/ StoreTrouble(a) \/ Die(a)
      PROVE  HostTypeOK'
  <2>1. CASE Load(a)
    <3>1. phase' \in [Attempts -> Phases] /\ outcome' \in [Attempts -> Outcomes]
      BY <2>1 DEF Load, Phases, Outcomes
    <3>2. hurt' \in [Attempts -> SUBSET HostFaultKinds]
      BY <2>1, MeetType DEF Load
    <3> QED
      BY <2>1, <3>1, <3>2 DEF Load
  <2>2. CASE MakeWorkspace(a)
    <3>1. [tree |-> EmptyTree, files |-> {}] \in Fetched
      BY EmptyTreeIsTree DEF Fetched
    <3>2. phase' \in [Attempts -> Phases]
      BY <2>2 DEF MakeWorkspace, Phases
    <3>3. hurt' \in [Attempts -> SUBSET HostFaultKinds]
      <4>1. hurt' = hurt \/ Meet(a, "mkdtemp")
        BY <2>2 DEF MakeWorkspace
      <4>2. CASE Meet(a, "mkdtemp")
        <5>1. hurt' = [hurt EXCEPT ![a] = @ \cup {"mkdtemp"}] /\ "mkdtemp" \in HostFaults
          BY <4>2
        <5>2. [hurt EXCEPT ![a] = @ \cup {"mkdtemp"}] \in [Attempts -> SUBSET HostFaultKinds]
          BY <5>1, MeetType
        <5> QED
          BY <5>1, <5>2
      <4> QED
        BY <4>1, <4>2
    <3> QED
      BY <2>2, <3>1, <3>2, <3>3 DEF MakeWorkspace
  <2>3. CASE Fetch(a)
    <3>1. PICK t \in Trees : fetched' = [fetched EXCEPT ![a] = [tree |-> t, files |-> DOMAIN t \ Bookkeeping]]
      BY <2>3 DEF Fetch
    <3>2. [tree |-> t, files |-> DOMAIN t \ Bookkeeping] \in Fetched
      BY DEF Fetched, Trees
    <3> QED
      BY <2>3, <3>1, <3>2 DEF Fetch, Phases
  <2>4. CASE Verify(a)
    <3>1. phase' \in [Attempts -> Phases] /\ outcome' \in [Attempts -> Outcomes]
      BY <2>4 DEF Verify, Phases, Outcomes
    <3>2. hurt' \in [Attempts -> SUBSET HostFaultKinds]
      BY <2>4, MeetType DEF Verify
    <3> QED
      BY <2>4, <3>1, <3>2 DEF Verify
  <2>5. CASE Gate(a)
    BY <2>5 DEF Gate, Phases, Outcomes
  <2>6. CASE Write(a)
    BY <2>6 DEF Write, Phases
  <2>7. CASE StoreStep(a) \/ StoreTrouble(a)
    BY <2>7 DEF StoreStep, StoreTrouble, host
  <2>8. CASE StoreReturns(a)
    BY <2>8 DEF StoreReturns, Phases, Outcomes
  <2>9. CASE Record(a)
    <3>1. log[a] \in Seq(Outcomes) /\ outcome[a] \in Outcomes
      OBVIOUS
    <3>2. Append(log[a], outcome[a]) \in Seq(Outcomes)
      BY <3>1
    <3> QED
      BY <2>9, <3>2 DEF Record, Phases
  <2>10. CASE Mirror(a)
    BY <2>10 DEF Mirror, AfterAudit, Phases, HostFaultKinds
  <2>11. CASE RemoveQuarantine(a)
    <3>1. phase' \in [Attempts -> Phases]
      BY <2>11 DEF RemoveQuarantine, Phases
    <3>2. hurt' \in [Attempts -> SUBSET HostFaultKinds]
      BY <2>11, MeetType DEF RemoveQuarantine
    <3> QED
      BY <2>11, <3>1, <3>2 DEF RemoveQuarantine
  <2>12. CASE Raise(a)
    BY <2>12 DEF Raise, Phases, Outcomes, HostFaultKinds
  <2>13. CASE Die(a)
    BY <2>13 DEF Die, Phases
  <2> QED
    BY <1>a, <2>1, <2>2, <2>3, <2>4, <2>5, <2>6, <2>7, <2>8, <2>9, <2>10, <2>11, <2>12,
       <2>13 DEF PromoteStep
<1> QED
  BY <1>a DEF PNext, PDone, pvars, host

(* A step of one attempt leaves the others' phase, envelope and quarantine. *)
LEMMA HostFrame ==
    ASSUME HostInv, NEW a \in Attempts, NEW b \in Attempts, b # a,
           \/ Load(a) \/ PromoteStep(a) \/ Raise(a) \/ StoreTrouble(a) \/ Die(a)
    PROVE  /\ phase'[b] = phase[b] /\ ask'[b] = ask[b] /\ fetched'[b] = fetched[b]
           /\ outcome'[b] = outcome[b] /\ log'[b] = log[b] /\ hurt'[b] = hurt[b]
           /\ b \in index' <=> b \in index
<1> USE DEF HostInv, HostTypeOK
<1>1. CASE Load(a) \/ MakeWorkspace(a) \/ Fetch(a) \/ Verify(a) \/ Gate(a) \/ Write(a)
  BY <1>1 DEF Load, MakeWorkspace, Fetch, Verify, Gate, Write
<1>2. CASE StoreStep(a) \/ StoreTrouble(a) \/ StoreReturns(a) \/ Record(a) \/ Mirror(a)
           \/ RemoveQuarantine(a) \/ Raise(a) \/ Die(a)
  BY <1>2 DEF StoreStep, StoreTrouble, StoreReturns, Record, Mirror, RemoveQuarantine,
     Raise, Die, host
<1> QED
  BY <1>1, <1>2 DEF PromoteStep

LEMMA NextHostInv == HostInv /\ [PNext]_pvars => HostInv'
<1> SUFFICES ASSUME HostInv, [PNext]_pvars PROVE HostInv'
  OBVIOUS
<1>t. HostTypeOK'
  BY NextHostTypeOK
<1> USE DEF HostInv, HostTypeOK
<1>a. ASSUME NEW a \in Attempts,
             \/ Load(a) \/ PromoteStep(a) \/ Raise(a) \/ StoreTrouble(a) \/ Die(a)
      PROVE  CheckedFor(a)'
  <2>1. CASE Load(a)
    BY <2>1 DEF Load, CheckedFor
  <2>2. CASE MakeWorkspace(a)
    BY <2>2 DEF MakeWorkspace, CheckedFor
  <2>3. CASE Fetch(a)
    <3>1. PICK t \in Trees : fetched' = [fetched EXCEPT ![a] = [tree |-> t, files |-> DOMAIN t \ Bookkeeping]]
      BY <2>3 DEF Fetch
    <3>2. [tree |-> t, files |-> DOMAIN t \ Bookkeeping] \in Fetched
      BY DEF Fetched, Trees
    <3>3. /\ fetched'[a].tree = t /\ fetched'[a].files = DOMAIN t \ Bookkeeping
          /\ fetched'[a] # Absent
      BY <3>1, <3>2, QuarantineAssumption
    <3> QED
      BY <2>3, <3>3 DEF Fetch, CheckedFor
  <2>4. CASE Verify(a)
    <3>1. PICK live \in {LiveDigest(a), {}} :
            LET v == Verification(a, live)
            IN  IF v.raises THEN Finish(a, "verify", "error")
                ELSE IF v.ok THEN Step(a, "verify", "gate") /\ UNCHANGED outcome
                ELSE Finish(a, "verify", "verification_failed")
      BY <2>4 DEF Verify
    <3>2. ask' = ask /\ fetched' = fetched /\ phase[a] = "verify" /\ phase'[a] \in {"gate", "record"}
      BY <2>4, <3>1 DEF Verify
    <3>3. CASE phase'[a] = "gate"
      <4>1. ~Verification(a, live).raises /\ Verification(a, live).ok
        BY <3>1, <3>3
      <4>2. live = {Content[ask[a]].payload.subject}
        BY <4>1, OkBinds DEF Verification
      <4>3. live = LiveDigest(a)
        BY <3>1, <4>2
      <4>4. ask[a] \in Envelopes /\ fetched[a] # Absent /\ fetched[a].files \subseteq DOMAIN fetched[a].tree
        BY <3>2 DEF CheckedFor
      <4>5. HashTree(fetched[a].tree, fetched[a].files) = SubjectOf[ask[a]]
        BY <4>2, <4>3, <4>4, ContentAssumption DEF LiveDigest
      <4>6. Verification(a, LiveDigest(a))' = Verification(a, LiveDigest(a))
        BY <3>2 DEF Verification, LiveDigest
      <4> QED
        BY <3>2, <3>3, <4>1, <4>3, <4>4, <4>5, <4>6 DEF CheckedFor
    <3>4. CASE phase'[a] = "record"
      BY <3>4 DEF CheckedFor
    <3> QED
      BY <3>2, <3>3, <3>4
  <2>5. CASE Gate(a)
    <3>1. PICK answer \in OpaAnswers :
            IF GateAllows(Doc(a), GateConfig, answer)
            THEN IF a \in DryRuns THEN Finish(a, "gate", "would_promote")
                 ELSE Step(a, "gate", "write") /\ UNCHANGED outcome
            ELSE Finish(a, "gate", "denied")
      BY <2>5 DEF Gate
    <3>2. ask' = ask /\ fetched' = fetched /\ phase[a] = "gate" /\ phase'[a] \in {"write", "record"}
      BY <2>5, <3>1 DEF Gate
    <3>3. CASE phase'[a] = "write"
      <4>1. GateAllows(Doc(a), GateConfig, answer) /\ a \notin DryRuns
        BY <3>1, <3>3
      <4>2. Vetted(ask[a])
        BY <4>1, <3>2, AllowedIsVetted
      <4> QED
        BY <3>2, <3>3, <4>1, <4>2 DEF CheckedFor
    <3>4. CASE phase'[a] = "record"
      BY <3>4 DEF CheckedFor
    <3> QED
      BY <3>2, <3>3, <3>4
  <2>6. CASE Write(a) \/ StoreStep(a) \/ StoreTrouble(a)
    BY <2>6 DEF Write, StoreStep, StoreTrouble, host, CheckedFor, Verification, LiveDigest
  <2>7. CASE StoreReturns(a) \/ Record(a) \/ Mirror(a) \/ RemoveQuarantine(a) \/ Raise(a) \/ Die(a)
    <3>1. phase'[a] \in {"record", "mirror", "cleanup", "done", "dead"}
      BY <2>7 DEF StoreReturns, Record, Mirror, AfterAudit, RemoveQuarantine, Raise, Die
    <3> QED
      BY <3>1 DEF CheckedFor
  <2> QED
    BY <1>a, <2>1, <2>2, <2>3, <2>4, <2>5, <2>6, <2>7 DEF PromoteStep
<1>b. ASSUME NEW a \in Attempts, NEW b \in Attempts, b # a,
             \/ Load(a) \/ PromoteStep(a) \/ Raise(a) \/ StoreTrouble(a) \/ Die(a)
      PROVE  CheckedFor(b)'
  <2>1. phase'[b] = phase[b] /\ ask'[b] = ask[b] /\ fetched'[b] = fetched[b]
    BY <1>b, HostFrame
  <2>2. Verification(b, LiveDigest(b))' = Verification(b, LiveDigest(b))
    BY <2>1 DEF Verification, LiveDigest
  <2> QED
    BY <2>1, <2>2 DEF CheckedFor
<1>c. ASSUME UNCHANGED host PROVE \A b \in Attempts : CheckedFor(b)'
  BY <1>c DEF host, CheckedFor, Verification, LiveDigest
<1> QED
  BY <1>t, <1>a, <1>b, <1>c DEF PNext, PDone, pvars

LEMMA HostInductive == PSpec => []HostInv
  BY InitHostInv, NextHostInv, PTL DEF PSpec

-----------------------------------------------------------------------------
(* Promotion implements the store's specification *)

(* promote_artifact calls write() with what write() expects. *)
LEMMA WriteOpens ==
    ASSUME HostInv, NEW a \in Attempts, Write(a) PROVE Open(a)
<1>1. phase[a] = "write" /\ Call(a, ask[a], fetched[a].files)
      /\ quar' = [quar EXCEPT ![a] = fetched[a].tree]
  BY DEF Write
<1>2. /\ ask[a] \in Envelopes /\ fetched[a] # Absent
      /\ fetched[a].files \subseteq DOMAIN fetched[a].tree
      /\ HashTree(fetched[a].tree, fetched[a].files) = SubjectOf[ask[a]]
  BY <1>1 DEF HostInv, CheckedFor
<1>3. fetched[a].tree \in Trees
  BY <1>2 DEF HostInv, HostTypeOK, Fetched
<1> QED
  BY <1>1, <1>2, <1>3 DEF Open

LEMMA StepImplements == ASSUME HostInv, [PNext]_pvars PROVE [Next]_vars
<1>a. ASSUME NEW a \in Attempts,
             \/ Load(a) \/ PromoteStep(a) \/ Raise(a) \/ StoreTrouble(a) \/ Die(a)
      PROVE  Next \/ UNCHANGED vars
  <2>1. CASE Write(a)
    BY <2>1, WriteOpens DEF Next, Environment
  <2>2. CASE StoreStep(a) \/ StoreTrouble(a) \/ Die(a)
    BY <2>2 DEF StoreStep, StoreTrouble, Die, Next, Environment
  <2>3. CASE ~(Write(a) \/ StoreStep(a) \/ StoreTrouble(a) \/ Die(a))
    BY <1>a, <2>3 DEF PromoteStep, Load, MakeWorkspace, Fetch, Verify, Gate,
       StoreReturns, Record, Mirror, RemoveQuarantine, Raise
  <2> QED
    BY <2>1, <2>2, <2>3
<1> QED
  BY <1>a DEF PNext, PDone, pvars, Next

(* Every run of promote_artifact is, to the trusted store, a run its
   specification allows: write() is called only with a quarantine that hashes to
   the subject of the envelope it is given, so what is proved of TrustedStore
   holds of the promotions that use it. *)
THEOREM PromotionUsesStore == PSpec => Spec
<1>1. PInit => Init
  BY DEF PInit
<1>2. HostInv /\ [PNext]_pvars => [Next]_vars
  BY StepImplements
<1> QED
  BY <1>1, <1>2, HostInductive, PTL DEF PSpec, Spec

LEMMA StoreInductive == PSpec => []IInv
  BY PromotionUsesStore, Inductive, PTL

(* The variables of a promotion, the store's included, keep their types. *)
THEOREM PromotionTypeCorrect == PSpec => []PTypeOK
<1>1. HostInv /\ IInv => PTypeOK
  BY DEF HostInv, HostTypeOK, IInv, PTypeOK
<1> QED
  BY <1>1, HostInductive, StoreInductive, PTL

-----------------------------------------------------------------------------
(* What is stored is vetted *)

VettedEnvelopes == {e \in Envelopes : Vetted(e)}

VettedInv ==
    /\ \A a \in Attempts : call[a] # NoCall => Env(a) \in VettedEnvelopes
    /\ \A d \in Digests : keys[d] # Absent => keys[d].att \in VettedEnvelopes \cup {Torn}

(* Whether an envelope is vetted does not depend on the state. *)
LEMMA VettedForEver == VettedEnvelopes' = VettedEnvelopes
  BY DEF VettedEnvelopes, Vetted, SignatureHolds, Matching, AnyKeyid, AttributionProblems,
     Executed, ExecutedStatuses, ExecutableTypes, Confined

LEMMA NextVetted ==
    ASSUME HostInv, IInv, VettedInv, [PNext]_pvars PROVE VettedInv'
<1> USE VettedForEver DEF IInv, Digests
<1>n. [Next]_vars
  BY StepImplements
<1>a. ASSUME NEW a \in Attempts, WriteStep(a) \/ IOError(a) \/ Crash(a) \/ Disturb(a)
      PROVE  VettedInv'
  <2>0. call' = call
    BY <1>a DEF WriteStep, IOError, Crash, Disturb, CheckComplete, AssertTree, AssertAtt,
       Rebind, MakeTmp, CopyFile, EndCopy, CheckStaged, WriteAtt, WriteReceipt,
       WriteMarker, Replace, AfterLostRace, Cleanup
  <2>1. CASE Replace(a) /\ keys[Key(a)] = Absent
    <3>1. /\ call[a] # NoCall /\ staged[a].att \in {Env(a), Torn}
          /\ keys' = [keys EXCEPT ![Key(a)] = staged[a]]
      BY <2>1 DEF Replace, StagedOK, StagedFor
    <3>2. Key(a) \in Digests
      BY <3>1, KeyType
    <3>3. \A d \in Digests : keys'[d] = IF d = Key(a) THEN staged[a] ELSE keys[d]
      BY <3>1, <3>2 DEF TypeOK
    <3> QED
      BY <2>0, <3>1, <3>2, <3>3 DEF VettedInv
  <2>2. CASE ~(Replace(a) /\ keys[Key(a)] = Absent)
    <3>1. keys' = keys
      BY <1>a, <2>2 DEF WriteStep, IOError, Crash, Disturb, CheckComplete, AssertTree,
         AssertAtt, Rebind, MakeTmp, CopyFile, EndCopy, CheckStaged, WriteAtt,
         WriteReceipt, WriteMarker, Replace, AfterLostRace, Cleanup
    <3> QED
      BY <2>0, <3>1 DEF VettedInv
  <2> QED
    BY <2>1, <2>2
<1>w. ASSUME NEW a \in Attempts, Write(a) PROVE VettedInv'
  <2>1. ask[a] \in VettedEnvelopes
    BY <1>w DEF Write, HostInv, CheckedFor, VettedEnvelopes
  <2>2. keys' = keys /\ call' = [call EXCEPT ![a] = [env |-> ask[a], files |-> fetched[a].files]]
    BY <1>w DEF Write, Call
  <2>3. \A b \in Attempts : call'[b] = IF b = a THEN [env |-> ask[a], files |-> fetched[a].files] ELSE call[b]
    BY <2>2 DEF TypeOK
  <2> QED
    BY <2>1, <2>2, <2>3 DEF VettedInv
<1>d. ASSUME NEW d \in Digests, Decay(d) PROVE VettedInv'
  <2>1. \A e \in Digests : keys'[e] # Absent /\ keys[e] # Absent =>
            keys'[e].att = keys[e].att
    BY <1>n, KeysStay
  <2>2. call' = call /\ keys[d] # Absent /\ \A e \in Digests \ {d} : keys'[e] = keys[e]
    BY <1>d DEF Decay, TypeOK
  <2> QED
    BY <2>1, <2>2 DEF VettedInv
<1>u. UNCHANGED vars => VettedInv'
  BY DEF vars, VettedInv
<1>p. ASSUME NEW a \in Attempts,
             \/ Load(a) \/ PromoteStep(a) \/ Raise(a) \/ StoreTrouble(a) \/ Die(a)
      PROVE  VettedInv'
  BY <1>p, <1>a, <1>w, <1>u DEF PromoteStep, Load, MakeWorkspace, Fetch, Verify, Gate,
     StoreStep, StoreTrouble, StoreReturns, Record, Mirror, RemoveQuarantine, Raise, Die
<1> QED
  BY <1>p, <1>d, <1>u DEF PNext, PDone, pvars

LEMMA VettedInductive == PSpec => []VettedInv
<1>1. PInit => VettedInv
  BY DEF PInit, Init, VettedInv
<1>2. HostInv /\ IInv /\ VettedInv /\ [PNext]_pvars => VettedInv'
  BY NextVetted
<1> QED
  BY <1>1, <1>2, HostInductive, StoreInductive, PTL DEF PSpec

(* Whatever the races, crashes, fetched bytes, OPA answers and failing calls,
   every attestation in the trusted store is one the operator's key signed for
   exactly that digest, of an approved artifact, every executed gate attributed,
   run under confinement if it executes code. *)
THEOREM OnlyVettedStored == PSpec => []OnlyVettedIsStored
<1>1. IInv /\ VettedInv => OnlyVettedIsStored
  BY ContentAssumption DEF IInv, EntryIntegrity, VettedInv, VettedEnvelopes,
     OnlyVettedIsStored
<1> QED
  BY <1>1, VettedInductive, StoreInductive, PTL

-----------------------------------------------------------------------------
(* What an attempt reports and leaves behind *)

BeforeStore == {"idle", "workspace", "fetch", "verify", "gate", "write"}

(* The store is not called before the gate allowed and never by a dry run, and
   an outcome recorded after it is the store's; one audit entry per attempt. *)
ReportedFor(a) ==
    /\ phase[a] \in BeforeStore => pc[a] = "idle"
    /\ phase[a] \in BeforeStore \cup {"store"} => outcome[a] = "none"
    /\ pc[a] # "idle" => a \notin DryRuns
    /\ pc[a] # "idle" /\ outcome[a] # "none" =>
          pc[a] = "returned" /\ (result[a] = "committed" => outcome[a] = "promoted")
    /\ phase[a] \in BeforeStore \cup {"store", "record"} => log[a] = <<>>
    /\ phase[a] \in {"mirror", "cleanup", "done"} => log[a] = <<outcome[a]>>
    /\ phase[a] \in {"cleanup", "done"} => "mirror" \in hurt[a] \/ a \in index
    /\ phase[a] = "done" => "rmtree" \in hurt[a] \/ fetched[a] = Absent

Reported == \A a \in Attempts : ReportedFor(a)

LEMMA NextReported ==
    ASSUME HostInv, IInv, Reported, [PNext]_pvars PROVE Reported'
<1> USE DEF HostInv, HostTypeOK, IInv, Reported, BeforeStore
<1>a. ASSUME NEW a \in Attempts,
             \/ Load(a) \/ PromoteStep(a) \/ Raise(a) \/ StoreTrouble(a) \/ Die(a)
      PROVE  ReportedFor(a)'
  <2>1. CASE Load(a)
    BY <2>1 DEF Load, ReportedFor, vars
  <2>2. CASE MakeWorkspace(a)
    BY <2>2 DEF MakeWorkspace, ReportedFor, vars
  <2>3. CASE Fetch(a)
    BY <2>3 DEF Fetch, ReportedFor, vars
  <2>4. CASE Verify(a)
    <3>1. /\ phase[a] = "verify" /\ phase'[a] \in {"gate", "record"} /\ pc' = pc /\ log' = log
          /\ phase'[a] = "gate" => outcome' = outcome
      BY <2>4 DEF Verify, vars
    <3> QED
      BY <3>1 DEF ReportedFor
  <2>5. CASE Gate(a)
    <3>1. /\ phase[a] = "gate" /\ phase'[a] \in {"write", "record"} /\ pc' = pc /\ log' = log
          /\ phase'[a] = "write" => outcome' = outcome
      BY <2>5 DEF Gate, vars
    <3> QED
      BY <3>1 DEF ReportedFor
  <2>6. CASE Write(a)
    <3>1. a \notin DryRuns
      BY <2>6 DEF Write, CheckedFor
    <3> QED
      BY <2>6, <3>1 DEF Write, ReportedFor
  <2>7. CASE StoreStep(a) \/ StoreTrouble(a)
    <3>1. phase[a] = "store" /\ UNCHANGED host /\ pc[a] # "idle"
      BY <2>7 DEF StoreStep, StoreTrouble, WriteStep, IOError, Disturb, CheckComplete,
         AssertTree, AssertAtt, Rebind, MakeTmp, CopyFile, EndCopy, CheckStaged, WriteAtt,
         WriteReceipt, WriteMarker, Replace, AfterLostRace, Cleanup
    <3> QED
      BY <3>1 DEF ReportedFor, host
  <2>8. CASE StoreReturns(a)
    <3>1. /\ phase[a] = "store" /\ phase'[a] = "record" /\ pc[a] = "returned"
          /\ log' = log /\ pc' = pc /\ result' = result
          /\ result[a] = "committed" => outcome'[a] = "promoted"
      BY <2>8 DEF StoreReturns, vars
    <3> QED
      BY <3>1 DEF ReportedFor
  <2>9. CASE Record(a)
    <3>1. /\ phase[a] = "record" /\ phase'[a] = "mirror" /\ pc' = pc /\ result' = result
          /\ outcome' = outcome /\ log'[a] = Append(log[a], outcome[a])
      BY <2>9 DEF Record, vars
    <3>2. log[a] = <<>>
      BY <3>1 DEF ReportedFor
    <3>3. Append(<<>>, outcome[a]) = <<outcome[a]>>
      OBVIOUS
    <3>4. log'[a] = <<outcome[a]>>
      BY <3>1, <3>2, <3>3
    <3> QED
      BY <3>1, <3>4 DEF ReportedFor
  <2>10. CASE Mirror(a)
    <3>1. /\ phase[a] = "mirror" /\ phase'[a] = AfterAudit(a) /\ pc' = pc /\ result' = result
          /\ outcome' = outcome /\ log' = log /\ fetched' = fetched
      BY <2>10 DEF Mirror, AfterAudit, vars
    <3>2. "mirror" \in hurt'[a] \/ a \in index'
      BY <2>10 DEF Mirror
    <3> QED
      BY <3>1, <3>2 DEF ReportedFor, AfterAudit
  <2>11. CASE RemoveQuarantine(a)
    <3>1. /\ phase[a] = "cleanup" /\ phase'[a] = "done" /\ pc' = pc /\ result' = result
          /\ outcome' = outcome /\ log' = log /\ index' = index
          /\ hurt[a] \subseteq hurt'[a]
      BY <2>11 DEF RemoveQuarantine, vars
    <3>2. "rmtree" \in hurt'[a] \/ fetched'[a] = Absent
      BY <2>11 DEF RemoveQuarantine
    <3> QED
      BY <3>1, <3>2 DEF ReportedFor
  <2>12. CASE Raise(a)
    <3>1. /\ phase[a] \in {"fetch", "verify", "gate"} /\ phase'[a] = "record"
          /\ pc' = pc /\ log' = log
      BY <2>12 DEF Raise, vars
    <3> QED
      BY <3>1 DEF ReportedFor
  <2>13. CASE Die(a)
    <3>1. phase'[a] = "dead" /\ UNCHANGED <<ask, fetched, outcome, log, index, hurt>>
      BY <2>13 DEF Die
    <3>2. CASE phase[a] = "store" /\ pc[a] # "returned"
      BY <2>13, <3>1, <3>2 DEF Die, Crash, ReportedFor
    <3>3. CASE ~(phase[a] = "store" /\ pc[a] # "returned")
      BY <2>13, <3>1, <3>3 DEF Die, ReportedFor, vars
    <3> QED
      BY <3>2, <3>3
  <2> QED
    BY <1>a, <2>1, <2>2, <2>3, <2>4, <2>5, <2>6, <2>7, <2>8, <2>9, <2>10, <2>11, <2>12,
       <2>13 DEF PromoteStep
<1>b. ASSUME NEW a \in Attempts, NEW b \in Attempts, b # a,
             \/ Load(a) \/ PromoteStep(a) \/ Raise(a) \/ StoreTrouble(a) \/ Die(a)
      PROVE  ReportedFor(b)'
  <2>1. UNCHANGED vars \/ WriteStep(a) \/ Environment(a)
    BY <1>b, WriteOpens DEF PromoteStep, Load, MakeWorkspace, Fetch, Verify, Gate, Environment,
       StoreStep, StoreTrouble, StoreReturns, Record, Mirror, RemoveQuarantine, Raise, Die
  <2>2. pc'[b] = pc[b] /\ result'[b] = result[b]
    BY <1>b, <2>1, StepFrame DEF vars
  <2> QED
    BY <1>b, <2>2, HostFrame DEF ReportedFor
<1>c. ASSUME UNCHANGED host, UNCHANGED <<pc, result>> PROVE \A b \in Attempts : ReportedFor(b)'
  BY <1>c DEF host, ReportedFor
<1> QED
  BY <1>a, <1>b, <1>c DEF PNext, PDone, pvars, vars, Decay

LEMMA ReportedInductive == PSpec => []Reported
<1>1. PInit => Reported
  BY DEF PInit, Init, Reported, ReportedFor, BeforeStore
<1>2. HostInv /\ IInv /\ Reported /\ [PNext]_pvars => Reported'
  BY NextReported
<1> QED
  BY <1>1, <1>2, HostInductive, StoreInductive, PTL DEF PSpec

(* A dry run, a denial, a failed verification and an error leave no entry of
   their own in the trusted store. *)
THEOREM OnlyPromotionsWriteHolds == PSpec => []OnlyPromotionsWrite
<1>1. IInv /\ Reported => OnlyPromotionsWrite
  <2> SUFFICES ASSUME IInv, Reported, NEW d \in Digests, NEW a \in Attempts,
                      keys[d] # Absent, keys[d].receipt = a
               PROVE  a \notin DryRuns /\ outcome[a] \in {"none", "promoted"}
    BY DEF OnlyPromotionsWrite
  <2>1. call[a] # NoCall /\ result[a] = "committed"
    BY DEF IInv, ReceiptOK
  <2>2. pc[a] # "idle"
    BY <2>1 DEF IInv, StagedOK, StagedFor
  <2> QED
    BY <2>1, <2>2 DEF Reported, ReportedFor
<1> QED
  BY <1>1, ReportedInductive, StoreInductive, PTL

(* An attempt that returns has emitted its outcome through the audit logger,
   once, and has removed its quarantine unless rmtree failed. *)
THEOREM ReturnsAuditedHolds == PSpec => []ReturnsAudited
<1>1. Reported => ReturnsAudited
  BY DEF Reported, ReportedFor, ReturnsAudited
<1> QED
  BY <1>1, ReportedInductive, PTL

-----------------------------------------------------------------------------
(* What an outcome says *)

(* A vetted envelope verifies against the bytes it attests, ... *)
LEMMA VettedVerifies ==
    ASSUME NEW e, Vetted(e)
    PROVE  LET v == VerifyAttestation(Content[e], Verifier, ExpectedKeyid, {Content[e].payload.subject})
           IN  ~v.raises /\ v.ok
<1> DEFINE env == Content[e]
           c == Checks(env, Verifier, ExpectedKeyid, {env.payload.subject})
<1>1. env.payload.form = "vetting" /\ SignatureHolds(env, Verifier)
  BY DEF Vetted
<1>2. VerifyEnvelope(env, Verifier) = "statement"
  BY <1>1 DEF VerifyEnvelope
<1>3. WellFormed(env) /\ ~SubjectCrashes(env, Verifier)
  BY <1>1 DEF WellFormed, SignatureHolds, Matching, SubjectCrashes
<1>4. c.signature /\ c.digest_rebind /\ c.attribution /\ c.keyid
  BY <1>1, <1>2 DEF Checks, StatementUsable, Vetted
<1>5. \A x \in DOMAIN c : c[x]
  BY <1>4 DEF Checks
<1> QED
  BY <1>2, <1>3, <1>5 DEF VerifyAttestation

(* ... and the floor has nothing against it, allowlists apart. *)
LEMMA VettedPassesFloor ==
    ASSUME NEW e, Vetted(e), GateConfig.keyids = {}, ~GateConfig.asymmetric,
           NEW v, v.ok, \A c \in DOMAIN v.checks : v.checks[c]
    PROVE  FloorAllows(InputDoc(v, Content[e].payload.att), GateConfig)
  BY DEF FloorAllows, InputDoc, Vetted

LEMMA OkHasChecks ==
    ASSUME NEW a \in Attempts, NEW live, ~Verification(a, live).raises, Verification(a, live).ok
    PROVE  \A c \in DOMAIN Verification(a, live).checks : Verification(a, live).checks[c]
  BY DEF Verification, VerifyAttestation

Audited == {"record", "mirror", "cleanup"}

(* What write() was called with, and what brought each outcome about. *)
ExplainedFor(a) ==
    /\ fetched[a] # Absent => fetched[a].files = DOMAIN fetched[a].tree \ Bookkeeping
    /\ pc[a] # "idle" => call[a].env = ask[a]
    /\ pc[a] # "idle" /\ phase[a] \in {"store"} \cup Audited =>
          /\ fetched[a] # Absent /\ call[a].files = fetched[a].files
          /\ quar[a] = fetched[a].tree \/ "disturb" \in mishap[a]
    /\ outcome[a] \in {"promoted", "idempotent_noop"} =>
          ask[a] \in Envelopes /\ keys[SubjectOf[ask[a]]] # Absent
    /\ phase[a] \in Audited =>
          /\ outcome[a] # "none" /\ (ask[a] \in Envelopes \/ hurt[a] # {})
          /\ outcome[a] = "denied" =>
                /\ ~Verification(a, LiveDigest(a)).raises /\ Verification(a, LiveDigest(a)).ok
                /\ GateConfig.opa \/ ~FloorAllows(Doc(a), GateConfig)
          /\ outcome[a] = "verification_failed" =>
                "vanish" \in hurt[a] \/ ~Verification(a, LiveDigest(a)).ok
          /\ outcome[a] = "error" =>
                \/ hurt[a] # {} \/ Verification(a, LiveDigest(a)).raises
                \/ pc[a] = "returned" /\ result[a] \in {"refused", "failed"}

Explained == \A a \in Attempts : ExplainedFor(a)

(* Verifying again gives the same answer while nothing is fetched or loaded. *)
LEMMA VerificationStays ==
    ASSUME NEW a \in Attempts, ask'[a] = ask[a], fetched'[a] = fetched[a]
    PROVE  /\ Verification(a, LiveDigest(a))' = Verification(a, LiveDigest(a))
           /\ Doc(a)' = Doc(a)
           /\ FloorAllows(Doc(a), GateConfig)' = FloorAllows(Doc(a), GateConfig)
<1>1. Verification(a, LiveDigest(a))' = Verification(a, LiveDigest(a)) /\ Doc(a)' = Doc(a)
  BY DEF Verification, LiveDigest, Doc
<1> QED
  BY <1>1 DEF FloorAllows, Confined

LEMMA OwnExplained ==
    ASSUME NEW a \in Attempts, HostInv, IInv, Faithful, Reported, ExplainedFor(a), [PNext]_pvars,
           \/ Load(a) \/ PromoteStep(a) \/ Raise(a) \/ StoreTrouble(a) \/ Die(a)
    PROVE  ExplainedFor(a)'
<1> USE DEF HostInv, HostTypeOK, Audited
<1>n. [Next]_vars /\ TypeOK /\ StagedOK /\ ReportedFor(a)
  BY StepImplements DEF IInv, Reported
<1>1. CASE Load(a)
  <2>1. /\ phase[a] = "idle" /\ phase'[a] \in {"workspace", "record"} /\ UNCHANGED vars
        /\ fetched' = fetched /\ outcome'[a] \in {outcome[a], "error"}
        /\ phase'[a] = "workspace" => outcome'[a] = outcome[a]
        /\ phase'[a] = "record" => outcome'[a] = "error" /\ Meet(a, "load")
    BY <1>1 DEF Load
  <2>3. Meet(a, "load") => "load" \in hurt'[a]
    OBVIOUS
  <2>2. pc[a] = "idle" /\ outcome[a] = "none"
    BY <1>n, <2>1 DEF ReportedFor, BeforeStore
  <2> QED
    BY <2>1, <2>2, <2>3 DEF ExplainedFor, vars
<1>2. CASE MakeWorkspace(a)
  <2>1. /\ phase[a] = "workspace" /\ phase'[a] \notin Audited \cup {"store"} /\ ask' = ask
        /\ outcome' = outcome /\ UNCHANGED vars
    BY <1>2 DEF MakeWorkspace
  <2>2. fetched'[a] = fetched[a] \/ fetched'[a] = [tree |-> EmptyTree, files |-> {}]
    BY <1>2 DEF MakeWorkspace
  <2>3. {} = DOMAIN EmptyTree \ Bookkeeping
    BY DEF EmptyTree
  <2> QED
    BY <1>n, <2>1, <2>2, <2>3 DEF ExplainedFor, ReportedFor, BeforeStore, vars
<1>3. CASE Fetch(a)
  <2>1. PICK t \in Trees : fetched' = [fetched EXCEPT ![a] = [tree |-> t, files |-> DOMAIN t \ Bookkeeping]]
    BY <1>3 DEF Fetch
  <2>2. fetched'[a].tree = t /\ fetched'[a].files = DOMAIN t \ Bookkeeping
    BY <2>1
  <2>3. phase[a] = "fetch" /\ phase'[a] = "verify" /\ ask' = ask /\ outcome' = outcome /\ UNCHANGED vars
    BY <1>3 DEF Fetch
  <2> QED
    BY <1>n, <2>2, <2>3 DEF ExplainedFor, ReportedFor, BeforeStore, vars
<1>4. CASE Verify(a)
  <2>1. PICK live \in {LiveDigest(a), {}} :
          /\ LET v == Verification(a, live)
             IN  IF v.raises THEN Finish(a, "verify", "error")
                 ELSE IF v.ok THEN Step(a, "verify", "gate") /\ UNCHANGED outcome
                 ELSE Finish(a, "verify", "verification_failed")
          /\ IF live = {} THEN Meet(a, "vanish") ELSE UNCHANGED hurt
    BY <1>4 DEF Verify
  <2>2. /\ ask' = ask /\ fetched' = fetched /\ phase[a] = "verify" /\ UNCHANGED vars
        /\ phase'[a] \in {"gate", "record"} /\ pc[a] = "idle" /\ outcome[a] = "none"
        /\ ask[a] \in Envelopes
    BY <1>4, <1>n, <2>1 DEF Verify, ReportedFor, BeforeStore, CheckedFor
  <2>3. "vanish" \in hurt'[a] \/ live = LiveDigest(a)
    BY <2>1
  <2>4. CASE phase'[a] = "gate"
    BY <2>1, <2>2, <2>4 DEF ExplainedFor, vars
  <2>5. CASE phase'[a] = "record"
    <3>1. \/ outcome'[a] = "error" /\ Verification(a, live).raises
          \/ outcome'[a] = "verification_failed" /\ ~Verification(a, live).ok
      BY <2>1, <2>2, <2>5
    <3> QED
      BY <3>1, <2>2, <2>3, <2>5, VerificationStays DEF ExplainedFor, vars
  <2> QED
    BY <2>2, <2>4, <2>5
<1>5. CASE Gate(a)
  <2>1. PICK answer \in OpaAnswers :
          IF GateAllows(Doc(a), GateConfig, answer)
          THEN IF a \in DryRuns THEN Finish(a, "gate", "would_promote")
               ELSE Step(a, "gate", "write") /\ UNCHANGED outcome
          ELSE Finish(a, "gate", "denied")
    BY <1>5 DEF Gate
  <2>2. /\ ask' = ask /\ fetched' = fetched /\ phase[a] = "gate" /\ UNCHANGED vars
        /\ phase'[a] \in {"write", "record"} /\ pc[a] = "idle" /\ outcome[a] = "none"
        /\ ask[a] \in Envelopes
    BY <1>5, <1>n, <2>1 DEF Gate, ReportedFor, BeforeStore, CheckedFor
  <2>3. ~Verification(a, LiveDigest(a)).raises /\ Verification(a, LiveDigest(a)).ok
    BY <2>2 DEF CheckedFor
  <2>4. CASE phase'[a] = "write"
    BY <2>1, <2>2, <2>4 DEF ExplainedFor, vars
  <2>5. CASE phase'[a] = "record"
    <3>1. \/ outcome'[a] = "would_promote"
          \/ outcome'[a] = "denied" /\ (GateConfig.opa \/ ~FloorAllows(Doc(a), GateConfig))
      BY <2>1, <2>2, <2>5 DEF GateAllows
    <3> QED
      BY <3>1, <2>2, <2>3, <2>5, VerificationStays DEF ExplainedFor, vars
  <2> QED
    BY <2>2, <2>4, <2>5
<1>6. CASE Raise(a)
  <2>1. /\ phase[a] \in {"fetch", "verify", "gate"} /\ phase'[a] = "record" /\ outcome'[a] = "error"
        /\ ask' = ask /\ fetched' = fetched /\ UNCHANGED vars
    BY <1>6 DEF Raise
  <2>2. "raise" \in hurt'[a]
    BY <1>6 DEF Raise
  <2> QED
    BY <1>n, <2>1, <2>2 DEF ExplainedFor, ReportedFor, BeforeStore, vars
<1>7. CASE Write(a)
  <2>1. /\ phase[a] = "write" /\ phase'[a] = "store" /\ ask' = ask /\ fetched' = fetched
        /\ outcome' = outcome /\ keys' = keys
        /\ call'[a] = [env |-> ask[a], files |-> fetched[a].files]
        /\ quar'[a] = fetched[a].tree
    BY <1>7, <1>n DEF Write, Call, TypeOK
  <2>2. fetched[a] # Absent /\ outcome[a] = "none"
    BY <1>n, <2>1 DEF CheckedFor, ReportedFor, BeforeStore
  <2> QED
    BY <2>1, <2>2 DEF ExplainedFor
<1>8. CASE StoreStep(a) \/ StoreTrouble(a)
  <2>1. /\ UNCHANGED host /\ phase[a] = "store" /\ (WriteStep(a) \/ Environment(a))
        /\ ~Open(a) /\ pc[a] # "idle"
    BY <1>8 DEF StoreStep, StoreTrouble, Environment, WriteStep, IOError, Disturb, CheckComplete,
       AssertTree, AssertAtt, Rebind, MakeTmp, CopyFile, EndCopy, CheckStaged, WriteAtt,
       WriteReceipt, WriteMarker, Replace, AfterLostRace, Cleanup, Open, Call
  <2>2. call'[a] = call[a] /\ (quar'[a] = quar[a] \/ "disturb" \in mishap'[a])
        /\ mishap[a] \subseteq mishap'[a]
    BY <1>n, <2>1, BegunStays
  <2>3. outcome[a] = "none"
    BY <1>n, <2>1 DEF ReportedFor
  <2> QED
    BY <2>1, <2>2, <2>3 DEF host, ExplainedFor
<1>9. CASE StoreReturns(a)
  <2>1. /\ phase[a] = "store" /\ phase'[a] = "record" /\ pc[a] = "returned" /\ UNCHANGED vars
        /\ ask' = ask /\ fetched' = fetched /\ hurt' = hurt
        /\ outcome'[a] = CASE result[a] = "committed" -> "promoted"
                            [] result[a] = "present"   -> "idempotent_noop"
                            [] OTHER                   -> "error"
    BY <1>9 DEF StoreReturns
  <2>2. result[a] \in {"committed", "present", "refused", "failed"}
    BY <1>n, <2>1 DEF Faithful, FaithfulFor, TypeOK, Results
  <2>3. result[a] \in {"committed", "present"} => keys[Key(a)] # Absent
    BY <2>1 DEF IInv, OutcomeOK
  <2>4. call[a].env = ask[a] /\ call[a] # NoCall
    BY <1>n, <2>1 DEF ExplainedFor, StagedOK, StagedFor
  <2>5. ask[a] \in Envelopes
    BY <1>n, <2>4, KeyType
  <2>6. \/ result[a] \in {"committed", "present"} /\ outcome'[a] \in {"promoted", "idempotent_noop"}
        \/ result[a] \in {"refused", "failed"} /\ outcome'[a] = "error"
    BY <2>1, <2>2
  <2> QED
    BY <2>1, <2>3, <2>4, <2>5, <2>6 DEF ExplainedFor, vars
<1>10. CASE Record(a) \/ Mirror(a)
  <2>1. /\ phase[a] \in Audited /\ phase'[a] \in {"mirror", "cleanup", "done"} /\ UNCHANGED vars
        /\ ask' = ask /\ fetched' = fetched /\ outcome' = outcome /\ hurt[a] \subseteq hurt'[a]
    BY <1>10 DEF Record, Mirror, AfterAudit
  <2> QED
    BY <2>1, VerificationStays DEF ExplainedFor, vars
<1>11. CASE RemoveQuarantine(a)
  <2>1. /\ phase'[a] = "done" /\ UNCHANGED vars /\ ask' = ask /\ outcome' = outcome
        /\ fetched'[a] \in {fetched[a], Absent}
    BY <1>11 DEF RemoveQuarantine
  <2> QED
    BY <2>1 DEF ExplainedFor, vars
<1>12. CASE Die(a)
  <2>1. /\ phase'[a] = "dead" /\ UNCHANGED <<ask, fetched, outcome>>
        /\ UNCHANGED vars \/ Crash(a)
    BY <1>12 DEF Die
  <2>2. keys' = keys /\ call' = call /\ (pc'[a] # "idle" => pc[a] # "idle")
    BY <2>1 DEF Crash, vars
  <2> QED
    BY <2>1, <2>2 DEF ExplainedFor
<1> QED
  BY <1>1, <1>2, <1>3, <1>4, <1>5, <1>6, <1>7, <1>8, <1>9, <1>10, <1>11, <1>12 DEF PromoteStep

(* A step of another attempt, or of the environment. *)
LEMMA OtherExplained ==
    ASSUME IInv, [Next]_vars, NEW b \in Attempts, ExplainedFor(b),
           phase'[b] = phase[b], ask'[b] = ask[b], fetched'[b] = fetched[b],
           outcome'[b] = outcome[b], hurt'[b] = hurt[b],
           pc'[b] = pc[b], call'[b] = call[b], result'[b] = result[b],
           quar'[b] = quar[b], mishap'[b] = mishap[b]
    PROVE  ExplainedFor(b)'
<1>1. ask[b] \in Envelopes => SubjectOf[ask[b]] \in Digests
  BY DEF Digests
<1>2. TypeOK /\ StagedOK
  BY DEF IInv
<1>3. outcome'[b] \in {"promoted", "idempotent_noop"} => ask'[b] \in Envelopes /\ keys'[SubjectOf[ask[b]]] # Absent
  BY <1>1, <1>2, KeysStay DEF ExplainedFor
<1> QED
  BY <1>3, VerificationStays DEF ExplainedFor, Audited

LEMMA NextExplained ==
    ASSUME HostInv, IInv, Faithful, Reported, Explained, [PNext]_pvars PROVE Explained'
<1>0. [Next]_vars /\ TypeOK /\ StagedOK
  BY StepImplements DEF IInv
<1> SUFFICES ASSUME NEW b \in Attempts PROVE ExplainedFor(b)'
  BY DEF Explained
<1>e. ExplainedFor(b)
  BY DEF Explained
<1>1. ASSUME NEW a \in Attempts,
             \/ Load(a) \/ PromoteStep(a) \/ Raise(a) \/ StoreTrouble(a) \/ Die(a)
      PROVE  ExplainedFor(b)'
  <2>1. CASE a = b
    BY <1>1, <1>e, <2>1, OwnExplained
  <2>2. CASE a # b
    <3>1. UNCHANGED vars \/ WriteStep(a) \/ Environment(a)
      BY <1>1, WriteOpens DEF PromoteStep, Load, MakeWorkspace, Fetch, Verify, Gate, Environment,
         StoreStep, StoreTrouble, StoreReturns, Record, Mirror, RemoveQuarantine, Raise, Die
    <3>2. /\ pc'[b] = pc[b] /\ call'[b] = call[b] /\ result'[b] = result[b]
          /\ quar'[b] = quar[b] /\ mishap'[b] = mishap[b]
      BY <1>0, <2>2, <3>1, StepFrame, HistoryFrame DEF vars
    <3> QED
      BY <1>0, <1>1, <1>e, <2>2, <3>2, HostFrame, OtherExplained
  <2> QED
    BY <2>1, <2>2
<1>2. ASSUME NEW d \in Digests, Decay(d), UNCHANGED host PROVE ExplainedFor(b)'
  BY <1>0, <1>2, <1>e, OtherExplained DEF Decay, host
<1>3. CASE UNCHANGED pvars
  BY <1>0, <1>3, <1>e, OtherExplained DEF pvars, vars, host
<1> QED
  BY <1>1, <1>2, <1>3 DEF PNext, PDone

LEMMA StoreFaithful == PSpec => []Faithful
  BY PromotionUsesStore, AlwaysFaithful, PTL

LEMMA ExplainedInductive == PSpec => []Explained
<1>1. PInit => Explained
  BY DEF PInit, Init, Explained, ExplainedFor, Audited
<1>2. HostInv /\ IInv /\ Faithful /\ Reported /\ Explained /\ [PNext]_pvars => Explained'
  BY NextExplained
<1> QED
  BY <1>1, <1>2, HostInductive, StoreInductive, StoreFaithful, ReportedInductive, PTL DEF PSpec

(* The outcome an attempt audits is the truth: a success means that a complete
   entry for the attested digest is in the store, a denial that these very bytes
   carried an authentic attestation, a failed verification that some check
   failed on them. *)
THEOREM OutcomesAreTruthful == PSpec => []OutcomeIsTruthful
<1>1. IInv /\ Explained => OutcomeIsTruthful
  <2> SUFFICES ASSUME IInv, Explained, NEW a \in Attempts
               PROVE  /\ outcome[a] \in {"promoted", "idempotent_noop"} => CompleteExists(SubjectOf[ask[a]])
                      /\ (phase[a] = "cleanup" /\ "vanish" \notin hurt[a]) =>
                            /\ outcome[a] = "denied" => Verification(a, LiveDigest(a)).ok
                            /\ outcome[a] = "verification_failed" => ~Verification(a, LiveDigest(a)).ok
    BY DEF OutcomeIsTruthful
  <2>1. ExplainedFor(a)
    BY DEF Explained
  <2>2. ask[a] \in Envelopes => SubjectOf[ask[a]] \in Digests
    BY DEF Digests
  <2> QED
    BY <2>1, <2>2 DEF ExplainedFor, Audited, IInv, EntryIntegrity, CompleteExists
<1> QED
  BY <1>1, ExplainedInductive, StoreInductive, PTL

(* Promotion has no reason of its own to fail: a vetted envelope whose bytes
   were fetched as attested, with nothing going wrong around it, is promoted,
   found already there, or would be. *)
THEOREM VettedArePromoted == PSpec => []VettedIsPromoted
<1>1. HostInv /\ IInv /\ Faithful /\ Explained => VettedIsPromoted
  <2> SUFFICES ASSUME HostInv, IInv, Faithful, Explained, NEW a \in Attempts,
                      phase[a] = "cleanup", ~Excused(a), Vetted(ask[a]),
                      GateConfig.keyids = {}, ~GateConfig.asymmetric
               PROVE  outcome[a] \in {"promoted", "idempotent_noop", "would_promote"}
    BY DEF VettedIsPromoted
  <2>e. /\ ExplainedFor(a) /\ FaithfulFor(a) /\ outcome[a] \in Outcomes /\ phase[a] \in Audited
        /\ TypeOK /\ StagedOK
    BY DEF Explained, Faithful, HostInv, HostTypeOK, Audited, IInv
  <2>x. /\ hurt[a] = {} /\ mishap[a] = {} /\ ~GateConfig.opa
        /\ LiveDigest(a) = {SubjectOf[ask[a]]}
        /\ DOMAIN fetched[a].tree \cap Bookkeeping = {}
        /\ SubjectOf[ask[a]] \notin rot
        /\ keys[SubjectOf[ask[a]]] = Absent \/ keys[SubjectOf[ask[a]]].att = ask[a]
    BY DEF Excused
  <2>a. ask[a] \in Envelopes
    BY <2>e, <2>x DEF ExplainedFor
  <2>v. ~Verification(a, LiveDigest(a)).raises /\ Verification(a, LiveDigest(a)).ok
    BY <2>a, <2>x, VettedVerifies, ContentAssumption DEF Verification
  <2>1. outcome[a] # "denied"
    <3>1. FloorAllows(Doc(a), GateConfig)
      BY <2>v, OkHasChecks, VettedPassesFloor DEF Doc
    <3> QED
      BY <2>e, <2>x, <3>1 DEF ExplainedFor
  <2>2. outcome[a] # "verification_failed"
    BY <2>e, <2>x, <2>v DEF ExplainedFor
  <2>3. outcome[a] # "error"
    <3> SUFFICES ASSUME outcome[a] = "error" PROVE FALSE
      OBVIOUS
    <3>1. pc[a] = "returned" /\ result[a] \in {"refused", "failed"}
      BY <2>e, <2>x, <2>v DEF ExplainedFor
    <3>2. Cause(a) /\ call[a].env = ask[a]
      BY <2>e, <3>1 DEF FaithfulFor, ExplainedFor
    <3>3. call[a].files = DOMAIN quar[a]
      BY <2>e, <2>x, <3>1 DEF ExplainedFor
    <3> QED
      BY <2>x, <3>2, <3>3 DEF Cause
  <2> QED
    BY <2>e, <2>1, <2>2, <2>3 DEF ExplainedFor, Outcomes
<1> QED
  BY <1>1, HostInductive, StoreInductive, StoreFaithful, ExplainedInductive, PTL
=============================================================================
