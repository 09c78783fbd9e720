----------------------------- MODULE Promotion -----------------------------
(***************************************************************************)
(* promote_artifact of promotion/promote.py: load a signed attestation,    *)
(* fetch the artifact into a fresh quarantine, verify, ask the promotion   *)
(* gate, write to the trusted store, audit, remove the quarantine.  Each   *)
(* attempt is one process (one "mig promote"); they share the store and    *)
(* the audit index.  Extends the store, whose write() runs while an        *)
(* attempt's phase is "store": every promotion step is a store step or     *)
(* leaves the store alone.                                                 *)
(***************************************************************************)
EXTENDS TrustedStore, PromotionGate

CONSTANTS
    Content,        \* Content[e]: what the bytes of envelope e hold
    Bookkeeping,    \* paths the source leaves beside the artifact (HF: .cache)
    Verifier,       \* the operator's verifier, [scheme, key]
    ExpectedKeyid,  \* --expected-keyid, or AnyKeyid
    GateConfig,     \* [keyids, asymmetric, opa]
    DryRuns,        \* the attempts started with --dry-run
    HostFaults      \* what may go wrong outside the store

HostFaultKinds == {"load", "mkdtemp", "raise", "vanish", "mirror", "rmtree"}

ASSUME ContentAssumption ==
    \A e \in Envelopes : SubjectOf[e] = Content[e].payload.subject
ASSUME SourceAssumption ==
    Bookkeeping \subseteq Paths /\ DryRuns \subseteq Attempts /\ HostFaults \subseteq HostFaultKinds

Phases   == {"idle", "workspace", "fetch", "verify", "gate", "write", "store",
             "record", "mirror", "cleanup", "done", "escaped", "dead"}
Outcomes == {"none", "promoted", "idempotent_noop", "would_promote", "denied",
             "verification_failed", "error"}
Fetched  == [tree : Trees, files : SUBSET Paths]

VARIABLES
    phase,     \* phase[a]: the next step of a's promote_artifact
    ask,       \* ask[a]: the envelope loaded
    fetched,   \* fetched[a]: the quarantine as the source left it, or Absent
    outcome,   \* outcome[a]: PromotionResult.outcome
    log,       \* log[a]: the outcomes a has emitted through the audit logger
    index,     \* the attempts with a line in index/promotions.jsonl
    hurt       \* hurt[a]: history, the host faults a has met

host  == <<phase, ask, fetched, outcome, log, index, hurt>>
pvars == <<vars, host>>

ASSUME QuarantineAssumption == Absent \notin Fetched

PInit ==
    /\ Init
    /\ phase   = [a \in Attempts |-> "idle"]
    /\ ask     = [a \in Attempts |-> NoCall]
    /\ fetched = [a \in Attempts |-> Absent]
    /\ outcome = [a \in Attempts |-> "none"]
    /\ log     = [a \in Attempts |-> <<>>]
    /\ index   = {}
    /\ hurt    = [a \in Attempts |-> {}]

Step(a, from, to) == phase[a] = from /\ phase' = [phase EXCEPT ![a] = to]

(* finish(): the attempt has its result, and goes on to audit it. *)
Finish(a, from, o) ==
    /\ Step(a, from, "record")
    /\ outcome' = [outcome EXCEPT ![a] = o]

Meet(a, fault) ==
    /\ fault \in HostFaults
    /\ hurt' = [hurt EXCEPT ![a] = @ \cup {fault}]

-----------------------------------------------------------------------------
(* promote_artifact, step by step *)

Load(a) ==
    /\ \/ /\ Step(a, "idle", "workspace")
          /\ \E e \in Envelopes : ask' = [ask EXCEPT ![a] = e]
          /\ UNCHANGED <<outcome, hurt>>
       \/ /\ Finish(a, "idle", "error")       \* unreadable, or not a JSON object
          /\ Meet(a, "load")
          /\ UNCHANGED ask
    /\ UNCHANGED <<vars, fetched, log, index>>

(* mkdtemp is called before the try statement. *)
MakeWorkspace(a) ==
    /\ \/ /\ Step(a, "workspace", "fetch")
          /\ fetched' = [fetched EXCEPT ![a] = [tree |-> EmptyTree, files |-> {}]]
          /\ UNCHANGED hurt
       \/ /\ Step(a, "workspace", "escaped")
          /\ Meet(a, "mkdtemp")
          /\ UNCHANGED fetched
    /\ UNCHANGED <<vars, ask, outcome, log, index>>

(* The source stages a tree and lists it, its bookkeeping left out; it raises
   when nothing is listed. *)
Fetch(a) ==
    /\ Step(a, "fetch", "verify")
    /\ \E t \in Trees :
          /\ DOMAIN t \ Bookkeeping # {}
          /\ fetched' = [fetched EXCEPT ![a] = [tree |-> t, files |-> DOMAIN t \ Bookkeeping]]
    /\ UNCHANGED <<vars, ask, outcome, log, index, hurt>>

LiveDigest(a) == {HashTree(fetched[a].tree, fetched[a].files)}
Verification(a, live) == VerifyAttestation(Content[ask[a]], Verifier, ExpectedKeyid, live)

(* Mutant: a failed verification that still names a decision is left to the gate. *)
VerifyLenient(a) ==
    /\ phase[a] = "verify"
    /\ IF Verification(a, LiveDigest(a)).raises
       THEN Finish(a, "verify", "error")
       ELSE Step(a, "verify", "gate") /\ UNCHANGED outcome
    /\ UNCHANGED <<vars, ask, fetched, log, index, hurt>>

(* Mutant: what does not verify is fetched again. *)
VerifyRefetches(a) ==
    /\ phase[a] = "verify"
    /\ Step(a, "verify", IF Verification(a, LiveDigest(a)).ok THEN "gate" ELSE "fetch")
    /\ UNCHANGED <<vars, ask, fetched, outcome, log, index, hurt>>

Verify(a) ==
    /\ phase[a] = "verify"
    /\ \E live \in {LiveDigest(a), {}} :
          /\ LET v == Verification(a, live)
             IN  IF v.raises THEN Finish(a, "verify", "error")
                 ELSE IF v.ok THEN Step(a, "verify", "gate") /\ UNCHANGED outcome
                 ELSE Finish(a, "verify", "verification_failed")
          /\ IF live = {} THEN Meet(a, "vanish") ELSE UNCHANGED hurt
    /\ UNCHANGED <<vars, ask, fetched, log, index>>

Doc(a) == InputDoc(Verification(a, LiveDigest(a)), Content[ask[a]].payload.att)

(* Mutant: --dry-run is not looked at. *)
GateIgnoresDryRun(a) ==
    /\ phase[a] = "gate"
    /\ \E answer \in OpaAnswers :
          IF GateAllows(Doc(a), GateConfig, answer)
          THEN Step(a, "gate", "write") /\ UNCHANGED outcome
          ELSE Finish(a, "gate", "denied")
    /\ UNCHANGED <<vars, ask, fetched, log, index, hurt>>

(* Reload the attestation from the signed payload and ask the gate.  OPA's
   answer is the environment's, within what its process can come to. *)
Gate(a) ==
    /\ phase[a] = "gate"
    /\ \E answer \in OpaAnswers :
          IF GateAllows(Doc(a), GateConfig, answer)
          THEN IF a \in DryRuns THEN Finish(a, "gate", "would_promote")
               ELSE Step(a, "gate", "write") /\ UNCHANGED outcome
          ELSE Finish(a, "gate", "denied")
    /\ UNCHANGED <<vars, ask, fetched, log, index, hurt>>

(* An exception of the source, of a verifier that runs a subprocess, or one
   nobody foresaw: both handlers report an operator error. *)
Raise(a) ==
    /\ \E from \in {"fetch", "verify", "gate"} : Finish(a, from, "error")
    /\ Meet(a, "raise")
    /\ UNCHANGED <<vars, ask, fetched, log, index>>

(* The only call of write().  The quarantine is handed over as fetched; a
   change between the verification and this call is the store's Disturb at its
   first step, since nothing reads the quarantine in between. *)
Write(a) ==
    /\ Step(a, "write", "store")
    /\ Call(a, ask[a], fetched[a].files)
    /\ quar' = [quar EXCEPT ![a] = fetched[a].tree]
    /\ UNCHANGED <<ask, fetched, outcome, log, index, hurt>>

StoreStep(a) == phase[a] = "store" /\ WriteStep(a) /\ UNCHANGED host
StoreTrouble(a) == phase[a] = "store" /\ (IOError(a) \/ Disturb(a)) /\ UNCHANGED host

(* Mutant: the store's result is passed on as the outcome. *)
StoreReturnsRaw(a) ==
    /\ pc[a] = "returned"
    /\ Finish(a, "store", result[a])
    /\ UNCHANGED <<vars, ask, fetched, log, index, hurt>>

(* Mutant: an error of the store is raised to the caller. *)
StoreReturnsRaising(a) ==
    /\ pc[a] = "returned"
    /\ IF result[a] \in {"committed", "present"}
       THEN Finish(a, "store", IF result[a] = "committed" THEN "promoted" ELSE "idempotent_noop")
       ELSE Step(a, "store", "cleanup") /\ outcome' = [outcome EXCEPT ![a] = "error"]
    /\ UNCHANGED <<vars, ask, fetched, log, index, hurt>>

StoreReturns(a) ==
    /\ pc[a] = "returned"
    /\ Finish(a, "store", CASE result[a] = "committed" -> "promoted"
                            [] result[a] = "present"   -> "idempotent_noop"
                            [] OTHER                   -> "error")
    /\ UNCHANGED <<vars, ask, fetched, log, index, hurt>>

(* PromotionAuditSink.emit: the logger, unconditionally, ... *)
Record(a) ==
    /\ Step(a, "record", "mirror")
    /\ log' = [log EXCEPT ![a] = Append(@, outcome[a])]
    /\ UNCHANGED <<vars, ask, fetched, outcome, index, hurt>>

AfterAudit(a) == IF fetched[a] = Absent THEN "done" ELSE "cleanup"

(* ... then the index, best effort. *)
Mirror(a) ==
    /\ Step(a, "mirror", AfterAudit(a))
    /\ \/ index' = index \cup {a} /\ UNCHANGED hurt
       \/ Meet(a, "mirror") /\ UNCHANGED index
    /\ UNCHANGED <<vars, ask, fetched, outcome, log>>

(* The finally clause: rmtree(quarantine_root, ignore_errors=True). *)
RemoveQuarantine(a) ==
    /\ Step(a, "cleanup", "done")
    /\ \/ fetched' = [fetched EXCEPT ![a] = Absent] /\ UNCHANGED hurt
       \/ Meet(a, "rmtree") /\ UNCHANGED fetched
    /\ UNCHANGED <<vars, ask, outcome, log, index>>

(* The process dies anywhere, inside write() or outside. *)
Die(a) ==
    /\ phase[a] \notin {"idle", "done", "escaped", "dead"}
    /\ phase' = [phase EXCEPT ![a] = "dead"]
    /\ IF phase[a] = "store" /\ pc[a] # "returned"
       THEN Crash(a) ELSE "crash" \in Faults /\ UNCHANGED vars
    /\ UNCHANGED <<ask, fetched, outcome, log, index, hurt>>

PromoteStep(a) ==
    \/ MakeWorkspace(a) \/ Fetch(a) \/ Verify(a) \/ Gate(a) \/ Write(a)
    \/ StoreStep(a) \/ StoreReturns(a) \/ Record(a) \/ Mirror(a) \/ RemoveQuarantine(a)

PDone ==
    /\ \A a \in Attempts : phase[a] \in {"done", "escaped", "dead"}
    /\ UNCHANGED pvars

PNext ==
    \/ \E a \in Attempts : \/ Load(a) \/ PromoteStep(a)
                           \/ Raise(a) \/ StoreTrouble(a) \/ Die(a)
    \/ \E d \in Digests : Decay(d) /\ UNCHANGED host
    \/ PDone

PSpec == PInit /\ [][PNext]_pvars

(* A running process is scheduled; OPA runs under a timeout. *)
PFairSpec == PSpec /\ \A a \in Attempts : WF_pvars(PromoteStep(a))
-----------------------------------------------------------------------------
(* what promotion promises *)

PTypeOK ==
    /\ TypeOK
    /\ phase   \in [Attempts -> Phases]
    /\ ask     \in [Attempts -> Envelopes \cup {NoCall}]
    /\ fetched \in [Attempts -> Fetched \cup {Absent}]
    /\ outcome \in [Attempts -> Outcomes]
    /\ log     \in [Attempts -> Seq(Outcomes)]
    /\ index   \in SUBSET Attempts
    /\ hurt    \in [Attempts -> SUBSET HostFaultKinds]

(* The bytes of e are signed with the operator's key and attest, with every
   executed gate attributed, an approved artifact; one that executes code was
   run under confinement; a policy is named. *)
Vetted(e) ==
    LET p == Content[e].payload
    IN  /\ SignatureHolds(Content[e], Verifier)
        /\ ExpectedKeyid # AnyKeyid =>
              \E i \in Matching(Content[e], Verifier) : Content[e].sigs[i].keyid = ExpectedKeyid
        /\ p.form = "vetting"
        /\ p.att.digest = p.subject
        /\ p.att.decision = "approve"
        /\ AttributionProblems(p.att.gates) = {}
        /\ p.att.type \in ExecutableTypes =>
              p.att.rigor = "behavioral" /\ p.att.confinement \in Confined
        /\ p.att.policy.id /\ p.att.policy.version

(* Nothing unverified, tampered or not approved reaches the trusted store, and
   what is there carries its own vetted attestation (promote.py:3-5): whatever
   the interleaving, the fetched bytes, OPA's answer and the crashes. *)
OnlyVettedIsStored ==
    \A d \in Digests : (keys[d] # Absent /\ keys[d].att # Torn) =>
            Vetted(keys[d].att) /\ Content[keys[d].att].payload.subject = d

(* An attempt that ends in anything but "promoted" has left no entry of its
   own in the store: not a dry run, a denial, a failed verification or an
   error, however late it came (promote.py:227-265). *)
OnlyPromotionsWrite ==
    \A d \in Digests : \A a \in Attempts :
        (keys[d] # Absent /\ keys[d].receipt = a) =>
            a \notin DryRuns /\ outcome[a] \in {"none", "promoted"}

(* What the exit code tells the operator: success means that a complete entry
   for the attested digest is in the store; exit 1 that an authentic
   attestation of exactly these bytes was denied; exit 3 that some check
   failed (promote.py:59, verify.py:13-15). *)
OutcomeIsTruthful ==
    \A a \in Attempts :
        /\ outcome[a] \in {"promoted", "idempotent_noop"} => CompleteExists(SubjectOf[ask[a]])
        /\ (phase[a] = "cleanup" /\ "vanish" \notin hurt[a]) =>
              /\ outcome[a] = "denied" => Verification(a, LiveDigest(a)).ok
              /\ outcome[a] = "verification_failed" => ~Verification(a, LiveDigest(a)).ok

(* An attempt that returns has audited its one outcome, exactly once, and has
   removed its quarantine unless rmtree failed (promote.py:15, 297-298). *)
ReturnsAudited ==
    \A a \in Attempts : phase[a] = "done" =>
        /\ log[a] = <<outcome[a]>>
        /\ "mirror" \notin hurt[a] => a \in index
        /\ "rmtree" \notin hurt[a] => fetched[a] = Absent

(* What cannot be helped: something failed, the bytes are not those attested,
   bookkeeping lies in the quarantine, OPA has a say, or another attestation
   (or a decayed entry) is filed under the digest. *)
Excused(a) ==
    \/ hurt[a] # {} \/ mishap[a] # {} \/ GateConfig.opa
    \/ LiveDigest(a) # {SubjectOf[ask[a]]}
    \/ DOMAIN fetched[a].tree \cap Bookkeeping # {}
    \/ SubjectOf[ask[a]] \in rot
    \/ keys[SubjectOf[ask[a]]] # Absent /\ keys[SubjectOf[ask[a]]].att # ask[a]

(* Promotion of a vetted artifact does not fail without a reason. *)
VettedIsPromoted ==
    \A a \in Attempts :
        ( /\ phase[a] = "cleanup" /\ ~Excused(a)
          /\ Vetted(ask[a]) /\ GateConfig.keyids = {} /\ ~GateConfig.asymmetric )
            => outcome[a] \in {"promoted", "idempotent_noop", "would_promote"}

(* Every attempt that got past its arguments ends: returned, escaped or dead. *)
EveryAttemptEnds ==
    \A a \in Attempts : phase[a] = "workspace" ~> phase[a] \in {"done", "escaped", "dead"}

(* The claim of huggingface.py:85-87 that the bookkeeping directory is not part
   of the artifact: it does not keep a vetted artifact out of the store. *)
BookkeepingIsHarmless ==
    \A a \in Attempts :
        (/\ phase[a] = "cleanup" /\ Vetted(ask[a])
         /\ hurt[a] = {} /\ mishap[a] = {}
         /\ LiveDigest(a) = {SubjectOf[ask[a]]}
         /\ keys[SubjectOf[ask[a]]] = Absent)
            => outcome[a] \notin {"error", "verification_failed", "denied"}
=============================================================================
