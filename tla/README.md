# MIG in TLA+

A verification project for the Model Ingestion Gateway (`mig`): TLA+ modules
translated from `src/mig`, TLC runs over small instances of them, and TLAPS
proofs for every instance. Paths below are relative to the repository.

MIG answers one question about an AI artifact (a model, a notebook, an agent
skill, ...): may it be trusted? `mig ingest` fetches it into quarantine, runs
a pipeline of gates, decides *approve*, *review_required* or *reject* and signs
an attestation of what was found. `mig promote`, a separate process, fetches the
artifact again, verifies the attestation against the live bytes, asks a
promotion gate and writes the artifact to the trusted store, the only writer of
that store. This project asks whether what is fetched is all there is, whether a
decision says what was found, whether an exit code of 0 and a verified attestation
were earned, whether what is promoted is what was vetted, and whether store and
audit index stay right under concurrent, crashing and failing writers and power
loss.

## 1. Inventory

| Component | Code | State | Operations | Talks to |
|---|---|---|---|---|
| Sources | `sources/local.py`, `huggingface.py` | a quarantine directory per fetch | `fetch`: stage, list, hash, check the pin | quarantine, HF hub |
| Quarantine | `storage/quarantine.py` | a directory per reference | `allocate`, `enforce`, `stage_local_tree` | sources, store |
| Pipeline | `core/pipeline.py` | results so far, short-circuit flag | `run_pipeline`, `_run_gate` | gates, policy engine |
| Static gates | `gates/*.py` | none | `evaluate` of 8 gates | quarantine files, picklescan |
| Behavioural gate, sandboxes | `gates/behavioral.py`, `sandbox/*.py` | a container per run | `detonate` | docker CLI, harness |
| Policy engine | `policy/engine.py`, `schema.py` | none | `default_decision`, `matched_rules`, `evaluate` | pipeline |
| Evidence | `evidence/*.py`, `core/serde.py` | none | build, sign, verify an attestation | CLI, promotion |
| Promotion gate | `promotion/gate.py`, `opa/cli.py`, `input_doc.py` | none | floor, OPA, deny-overrides | orchestrator, opa CLI |
| Promotion orchestrator | `promotion/promote.py` | one run: quarantine, result | `promote_artifact` | all of the above, store, audit |
| Trusted store | `promotion/stores/local_fs.py` | CAS directories on disk | `write` | quarantine, disk |
| Audit sink | `promotion/audit.py`, `audit/logger.py` | log, `index/` files | `emit` | orchestrator |
| CLI | `cli/main.py` | an exit code, `--out` and `--bundle` files | 7 subcommands | everything |
| Registry, loader, canonical JSON, bundle, banner | `core/registry.py`, `policy/loader.py`, `evidence/canonical.py`, `bundle.py`, `cli/banner.py` | none | | |

What is hard here, and what makes each part correct:

- **Sources and quarantine.** The local tree is edited and the hub's branch moves
  while a fetch runs; the hub may deliver fewer files than it declared, or more, or
  declare no sizes. Correct: a digest covers everything in its quarantine directory,
  a hub artifact is the whole commit it names, the limits hold on disk.
- **CLI.** Output files are truncated at `open` and filled at `close` while another
  command reads or writes them; fetch, gates, cosign and stdout fail in ways some
  handlers foresee and others do not. Correct: exit 0 is earned, what `verify` accepts
  was scanned, every command ends.
- **Trusted store.** No lock: concurrent `mig promote` processes race between
  `os.path.exists`, staging and `os.replace`; any system call may fail, the process
  may die, the quarantine may change while it is copied. Correct: entries are
  whole, filed under their own digest, never replaced, committed once, and a call
  reports neither a success nor a refusal without cause. On a disk that forgets what
  was not synced: an entry under its digest is whole after any outage, and a recorded
  success stays.
- **Audit index.** Promotions append to one file and overwrite each other's denial
  files. A flush that is cut short goes on by itself, behind whatever others appended
  meanwhile. Correct: a cut write costs two records at most, its own and one glued to its
  head; losing a denial from both places it is kept takes two mishaps; nothing readable is
  ever taken back.
- **Orchestrator.** Nine audited exits and one that is not; the
  verified bytes and the written bytes are read at different times. Correct: only
  vetted bytes are stored, the outcome is true, each attempt is audited once, a
  dry run writes nothing.
- **Evidence and promotion gate.** Everything decided about an envelope must come
  from its signed payload; the floor must agree with what ingest approves.
- **Pipeline and policy.** A gate that raises must not read as a pass; sparing the
  expensive gate must not change the decision; rules may only raise it.
- **Sandbox.** A run that shows nothing is not a clean run, however it ended.

Every hazard, with the line where it bites and the properties that cover it, is
listed under `hazards` in `PROJECT.json`.

## 2. Modules

    WriteOnceStore <--refines-- TrustedStoreRefinement --EXTENDS--> TrustedStore
                                        |                               ^
                                 TrustedStoreProofs                     |
                                        ^                               |
                                  PromotionProofs ----EXTENDS----> Promotion
                                                                        |
     Fetch <-- Cli ---> Verdict <-- Evidence <-- PromotionGate <--------+
                |          ^                          ^
            CliProofs   Sandbox <-- Gates             |
                ^          ^          ^               |
          LimitsProofs     |          |               |
                           |       Pipeline <------ Gateway <-- GatewayProofs
                       PolicyEngine <-^    (PolicyEngineProofs)

     DurableStore <-- DurableStoreProofs        AuditSink <-- AuditSinkProofs

(`Cli` extends `Fetch` and `Evidence`.)

| Module | Models | State and actions |
|---|---|---|
| `TrustedStore` | `LocalTrustedStore.write` with `stage_local_tree`, `_stage`, `_assert_stored_matches` | `keys` (the committed directories), `staged` (the tmp directory of each call), `quar`, `pc`; one action per system call that another process can come between. `IOError`, `Crash`, `Disturb`, `Decay` are the environment |
| `WriteOnceStore` | what a caller is promised: a map written once per digest | `Ask`, `Commit`, `Confirm`, `Decline`, `Die` |
| `TrustedStoreRefinement` | the mapping between the two | a call decides in the step that sets its result |
| `Verdict` | `core/verdict.py`, the enumerations of `core/artifact.py` | operators |
| `Evidence` | `build_attestation`, `sign_statement`, `verify_envelope`, `verify_attestation`, the decoders of `core/serde.py` | operators; signatures are ideal |
| `PromotionGate` | the embedded floor, OPA, the composite, `build_promotion_input` | operators; OPA's answer is a parameter |
| `Promotion` | `promote_artifact`, the audit sink's emission | `phase`, `ask`, `fetched`, `outcome`, `log`, `index` for each attempt, over the store's variables; one action per step |
| `Sandbox` | `DockerSandbox._run`, `_observation_from_stdout`, `NoopSandbox`, the harness | operators; every end of a run is a `Detonation` |
| `Gates` | the nine built-in gates | each a function from what the files show (*traits*) to its possible results |
| `PolicyEngine` | `default_decision`, `matched_rules`, `evaluate` | operators, with lazily raised `PolicyError` |
| `Pipeline` | `run_pipeline` | `pending`, `results`, `shortCircuit`, `decision`; `NextGate`, `SkipGate`, `Decide` |
| `Gateway` | `_produce_signed`, then verification and gating in another process | `Scan`, `Attest`, `Promote` |
| `Fetch` | `LocalSource.fetch`, `HuggingFaceSource.fetch`, the guards of `quarantine.py` | `source`, `head` (the world), `area` (a quarantine directory each), `job` (a fetch's locals); one action per file-system or hub call another process can come between; `EditLocal`, `PushToHub` |
| `Cli` | `scan`, `policy test`, `manifest`, `ingest`, `evidence`, `verify` | the fetch as their first step, then `phase`, `code`, `decided`, `env`, `file`; one action per step, `Cleanup` for the `finally` |
| `DurableStore` | `write()`'s `fsync` calls and `_mirror`'s, under power loss | `journal`, `durable`, `synced`, `torn`: what of the calls so far an outage can undo; `PowerLoss` |
| `AuditSink` | `PromotionAuditSink.emit` | `index` (the pieces written to `promotions.jsonl`, one per `write(2)`), `cuts`, `denied` (the files of `index/denied/`); one action per system call, so that a flush is as many as it needs; `Die` |
| `MC*` | instances for TLC | |
| `*Proofs` | theorems | |

Three modules look at the same `write()` from three distances. `TrustedStore` has every
call and every race, on a disk that keeps what it is told; `DurableStore` keeps the
order of calls of one artifact under one attestation and adds what a power failure
undoes; `Promotion` adds the caller. In the same way `Gateway` says what the gates
decide, and `Cli`, where they decide anything, what becomes of a decision.

Conventions. A digest *is* the tree it is the hash of: `hash_tree` is injective up
to SHA-256 collisions, which are not considered. A signature verifies exactly when
it was made with the verifier's key over that payload. Operators and actions whose
comment begins with *Mutant:* are deliberately wrong variants, kept beside the
definition they vary; nothing in a specification uses them. They document which
mistake each property would catch.

Abstraction of data. A gate looks for things in files: a dangerous pickle global, a
call of `exec`, a secret. The model has one *trait* for all patterns that give a
finding of the same weight, and `Consistent` says which traits can occur together.
What the pattern matchers recognise is not verified here; what happens with what
they recognise is. Files that a text gate cannot read (over 8 MiB, not UTF-8) show
no trait to it: the code treats them as clean.

## 3. Runs

| Run | Instance | Question |
|---|---|---|
| `store` | 2 writers, 2 paths, 3 envelopes (two attest one artifact), all 6 faults | `EntryIntegrity`, `CommitClaims`, `SuccessIsStored`, `RefusalHasCause`, `NoLitter`, `NoClobber` |
| `store_refine` | 2 writers, 1 path with 2 contents, 4 faults, fairness | `Linearizable` and `CallsDecided`: the store implements the write-once map |
| `promote_pair` | 2 promotions, 15 envelopes each wrong in one way at most, an expected keyid, changing quarantines, failing calls, short writes, decay, all 6 host faults | `OnlyVettedIsStored`, `VettedIsPromoted`, `OutcomeIsTruthful` |
| `promote_ends` | a promotion beside a dry run over 2 envelopes, one sound and one rejected, with keyid, allowlist and OPA, crashes, failing calls, decay, all 6 host faults, fairness | `OnlyPromotionsWrite`, `ReturnsAudited`, `EveryAttemptEnds` |
| `gateway` | artifacts of 4 types with one or two traits, 5 policies (one the repository's own), 3 sandboxes, 1 unforeseen raise | `ApprovedIsClean`, `SignalsNeverReject`, `EverythingCollected`, `SparingIsNeutral`, `VerdictsAttestable`, `PromotedWasVetted`, `ApprovedIsPromotable` |
| `cli` | pairs of commands that meet at the local tree, the hub or a file, 1 edit, all 15 kinds of failure, fairness | `ArtifactIsWhole`, `WithinLimits`, `CommitIsWhole`, `ZeroIsEarned`, `AcceptedWasScanned`, `InvocationsEnd` |
| `audit` | 3 denials in one second, two of one digest, 3 cut appends, all 7 faults | `OneCutCostsTwo`, `DenialLossTakesTwo`, `NothingUndone` |
| `durable` | 2 promotions, 2 outages anywhere, failing system calls | `MarkedIsWhole`, `RecordedIsStored`, `SuccessSurvives`, `OutagesLeaveNoScar` |

Each of these also checks its module's type invariant, except `store_refine` and
`promote_pair`, which share theirs with `store` and `promote_ends`. Four further runs
each refute one sentence of the repository; see section 6.

The bounds. Two writers are enough for every race in `write()`: the only state two
calls share is one key directory, and a third call meets the states two can
produce (the theorems do not depend on the number). Two contents per path make a
changed, a decayed and a foreign tree; two attestations of one digest make the
re-promotion. Faults are counted in `mishap` and `hurt` as sets, so the model is
finite without a limit on retries; `Disturb` and `Decay` happen once per call and
key. `promote_pair` has no crash: beside a process that dies, the other meets nothing
that it would not meet beside one that is never scheduled again. It has no allowlist
and no OPA either, as `VettedIsPromoted` is about attempts these have no say in; both are
in `promote_ends`, and the theorems are about any configuration. In `gateway`,
`MaxRaises` is 1: one gate of a scan raises for no reason visible in the model. A gate reads its own traits only, so artifacts with
one or two traits, beside those their type always has, exercise every branch; all
27 traits occur in every type where `Consistent` and the type allow. A
source computes the digest and refuses bytes that do not have the expected one, so
`digest_mismatch` does not occur through the built-in sources. `gateway` ends
in a decision: CHECK_DEADLOCK is off there, and on everywhere else, where `Done`,
`PDone`, `CEnded`, `DEnded` and `AEnded` are the only states without another step.

In `cli`, two commands suffice because they share nothing but the world and the files:
each pair of `MCStarts` is a meeting of two kinds (a writer and a reader of an
attestation, two writers, two fetches of a moving branch, an edited tree that one
scans and the other refuses). `MaxEdits` is 1: an edit or a push at any point where a
fetch may still see it (`Awaits`; later ones change nothing that is read). The limits
are set so that each can be met exactly and exceeded by one: 2 files, 2 bytes a file,
3 in all. In `durable`, `MaxOutages` 2 is an outage during the recovery from an outage;
one file of data is enough there, as an artifact's files are copied and synced alike
(two files with two outages, 8.3 million states, were also run and hold). `MaxCuts`
bounds the appends cut short. In `audit` three records and three cuts reach the bounds of
`OneCutCostsTwo`: one cut that loses two records, and three records lost. A denial can be
glued to a cut line, or cut itself, and its file overwritten by the second denial of its
digest; the third has the same second and another digest. All three are denials: an
admitted promotion does to the index what a denial does, and nothing after. A retained
file is written in two pieces at most; more would show a reader nothing else.

Fairness. `FairSpec` and `PFairSpec` assume weak fairness of each process's own
steps and nothing of the environment: `write()` and `promote_artifact` take no
lock, wait for no other process, and run OPA under a timeout. A process may still
die at any step. Fetching is assumed to return or raise. `CFairSpec` assumes weak fairness
of each command as a whole: processes are scheduled, and the hub's client, the
sandbox and cosign answer or time out (`cosign.py:33-57`, `docker.py:83-105`; of the
hub's client, a library, it is assumed). Commands are not killed there: a killed one
is one that takes no more steps, which the safety properties cover already.
`DSpec` and `ASpec` state no fairness and no liveness.

## 4. Proofs

TLAPS checks the theorems below for every value of the constants that satisfies
the named assumptions (`TrustedStore`, `Promotion`, `Pipeline`, `Fetch`, `Cli`,
`DurableStore` and `AuditSink` state theirs; TLC evaluates them in the runs).

**`TrustedStoreProofs`.** `EntryIntegrity` is not inductive: a rename installs what
was staged, so one must know what is in the tmp directory at each program point.
`IInv` adds this (`StagedOK`), that a receipt in the store belongs to a call that has
returned *committed* (`ReceiptOK`), that a call with a successful result has its
digest in the store (`OutcomeOK`), and that two commits of one key are one call
(`SoleCommit`). From it follow `TypeCorrect`, `EntriesAreWhole`, `CommitsAreSole`,
`SuccessIsTrue`, the action property `NeverClobbered`, and, when `os.write` is never
short, the refinement `StoreIsWriteOnce` (`NoTear` says that no torn blob exists;
each step maps to the step of the abstract map that its result names, or stutters).
`TmpIsRemoved` is inductive as it stands. `RefusalsAreCaused` is not: that a hash does
not match, or a rename finds the key taken, is a cause only by way of what the call
staged and from what. `Faithful` adds that, unless the quarantine was disturbed, what is
staged is a copy of it, which hashes to the call's own key; that a call which lost the
rename finds a key that exists; and that a cause, once there, stays.

**`PromotionProofs`.** `HostInv` carries what verification established to the step
that uses it: from *verify* to *write* the fetched tree hashes to the subject of the
loaded envelope, and at *write* that envelope is `Vetted`. This makes every promotion
step a step of `TrustedStore` (`PromotionUsesStore`), so the store's invariants hold
here without a second proof. `VettedInv` strengthens `OnlyVettedIsStored` to the staged
directories; `Reported` relates phase, outcome and log, which gives
`OnlyPromotionsWriteHolds` and `ReturnsAuditedHolds`. `Explained` keeps, from the step
that sets an outcome to the audit, what brought it about: a denial a verification that
holds and a floor or an OPA that does not, an error a fault, a verifier that raises or a
store that refused, the store's refusal its call, made with the attempt's own envelope
and files. `OutcomesAreTruthful` reads the causes off it; `VettedArePromoted` shows that
each of them contradicts evidence that is vetted and a run that nothing excuses, using
`RefusalsAreCaused` for the store.

**`PolicyEngineProofs`.** `RulesOnlyRaise` and `PolicyIsAFloor`, for any policy, any
artifact and any gate results, those of plug-in gates included.

**`GatewayProofs`.** `GInv` has one part for each stage of the run: the loop
(`LoopInv`: the behavioural gate is pending, has run, or was spared for a failure),
the decision (`DecisionInv`: it is what the engine makes of the results, all gates
done), the envelope (`EnvelopeInv`: it says what was scanned) and the gate
(`AllowedInv`). `CollectInv` says more of the loop: results are in cost order, what ran and
what is pending are together all that applies (`OrderInv`), and each result is one its
gate can return for this artifact, this sandbox and this detonation, or stands for an
exception (`ResultsInv`). That gives `EverythingCollectedHolds`, and with a lemma for
each gate (`DigestMeans` to `BehavioralMeans`: what a passing, and what a failing, result
says about the traits) `ApprovedIsCleanHolds` and `SignalsNeverRejectHolds`. They need of
an artifact that its digest is the one it was expected to have, which every source
ensures (`ArtifactAssumption`; `local.py:61-65`, `huggingface.py:157-160`).
`ApprovedIsPromotableHolds` is about any gate configuration that accepts this signer
(`SignerAccepted`: an asymmetric scheme where one is required, a keyid on the allowlist
where there is one); without this a configuration can refuse all that the signer signs.
`SignedInv` says that the envelope is the statement of this scan under its signer's key.
The results are typed by what the gates can return
(`PossibleResults`), which needs a lemma for each gate: only the behavioural gate
claims behavioural rigor, and what ran is named and versioned. One consequence is
worth a note: for an executable type, an approval alone implies the behavioural run,
so the floor's own rigor check is redundant for attestations MIG itself built, and
is needed for those built elsewhere with a trusted key.

**`CliProofs`.** The invariant has two halves. `IInv` is what each command knows by
itself: `JobOK` follows a fetch from the empty directory to the digest (while a commit is
being downloaded, what lies there agrees with it; at *fetched*, the digest is the
directory without `.cache`), `NowOK` says that what was measured cannot become a link
before it is copied, `CommandOK` carries digest, decision and envelope from phase to
phase and says what code 0 stands for, `WritesOK` that a file asked for is written or
still to be. It gives `ArtifactIsWholeHolds`, `CommitIsWholeHolds` and
`ZeroIsEarnedHolds`. `AcceptedWasScanned` speaks of two commands and a file between
them and needs `PInv`: any envelope under some signer's key, in a file or in a
command's hands, states a pair that is in `Vetted`, the set of what commands that
sign have scanned; `Vetted` only grows. A step of command *i* is shown to be `Moved(i)`
(it leaves the others alone and *i* still knows what it must) and `Handed(i)` (it hands on
only such envelopes), once for each action; that both suffice is shown once.

**`LimitsProofs`.** `WithinLimitsHolds`. `CopiedOK` is the invariant of a copy under way:
unless a file grew, the bytes copied and the size of the one measured and not yet copied
are at most the running total, and that at most `MaxTotalBytes`; what is copied, what is
measured and what is still listed are disjoint, so that the count is the number of files.
A download is bounded by `CheckStaged`, and `LimitsOK` keeps that to *fetched*. The sum
itself, `Bytes`, is a fold of the community modules: a recursive function on the
subsets of the files. That such a function exists, is unique, and that any file may be
taken out first (`SolutionExists`, `SolutionsAgree`, `BytesWithout`) is shown for finite
sets without an induction rule: the subsets that would be exceptions have a smallest one
(`SmallestIs`, from `WFMin`), and the smaller ones refute it.

**`DurableStoreProofs`.** `OrderInv` says in which order operations stand in the journal
(all parts before a rename, a rename before the line of a success, mirrored lines below
what an outage can undo), `SyncInv` that what was renamed or mirrored was synced and
nothing synced is torn, `StageInv` what an attempt has journaled and synced at each
stage. An outage keeps a prefix of the journal and the synced bytes, so all three survive
it (`OutageStep`).

**`AuditSinkProofs`.** `IndexInv` says that an attempt past the append has its whole record
in the index, in one piece or in several, and that every piece without its newline
stands for a counted cut. A split record has a piece without its newline
(`SplitAtMostCuts`); a lost record that is in one piece stands directly behind another
such piece, and two of them behind two (`LostFollowsCut`, `GluedAtMostCuts`): each kind is
no more than the cuts, which is `OneCutCostsTwoHolds`. `DeniedInv` says that a file of
`index/denied/` holds what its writer has put there so far unless another of that name
opened it, and `DenialLossTakesTwoHolds` puts the two together.

Every invariant and every action property that a passing run checks is stated by a
theorem, and so is the refinement `Linearizable`. Before it was proved, `LimitsOK` was
checked by TLC on the instance of `cli`.

Only model-checked: liveness (`CallsDecided`, `EveryAttemptEnds`, `InvocationsEnd`).
Fairness is stated with ENABLED, which this prover does not reason about. The prover also
cannot instantiate an induction rule, whose parameter is an operator; where a proof needed
induction, over finite sets, a smallest counterexample stands in for it.

## 5. Environment and assumptions

- The file system renames atomically and refuses to rename over a non-empty
  directory; `O_EXCL` excludes.
- In `DurableStore` it journals directory changes in the order of the calls and any
  `fsync` commits the journal up to that point, as ext4 and xfs do. Under bare POSIX the
  theorems do not hold: neither `artifact/` nor the parent of the key directory is
  ever synced, and what `local_fs.py:9-11` and `61-64` claim rests on that order.
- No local file is replaced by a symbolic link between `islink` and `copyfile`, and a
  local directory is flat and listed at once; `os.walk` lists a deep one step by step.
- No file holds a signature made with a command's key before that command starts
  (`ForgeryAssumption`).
- What `scan` attests can be attested: `build_attestation`'s `ValueError` is left out of
  `Cli` because `Gateway` shows that it does not occur (`VerdictsAttestable`).
- Cryptography is ideal, the canonical encoding injective.
- The container runtime confines what it runs. The code under detonation may exit,
  hang or print anything except a well-formed document with the run's nonce; a forged
  one, which the docstring of `docker.py` admits, is outside the model.
- OPA gives any answer its process can give.
- picklescan is installed or not; its judgement of a file is a trait.

## 6. Where the code and its documents disagree

Each of these runs stops at a counterexample.

| Run | The repository says | The code does |
|---|---|---|
| `store_repromote` | re-promoting a digest is a no-op (`local_fs.py:12`) | refuses it under a new attestation, and every ingest signs a new `created_at` |
| `promote_bookkeeping` | `.cache` is not part of the artifact (`huggingface.py:85-87`) | the store copies and hashes the whole quarantine, so such an artifact never commits |
| `gateway_header` | a malformed safetensors header fails the gate (`digest.py:5-6`) | one that is not UTF-8 raises out of the gate: review, not rejection |
| `gateway_unloaded` | an unreadable artifact is never a clean behavioural pass (`docker.py:364-367`) | the walk error the harness reports makes it one |

Others met while modelling, without a run of their own; where a property would refute
one, it exempts it by name.

- A blob is said to be durably written (`local_fs.py:51`), but `os.write`'s count is
  ignored: a short write commits a truncated attestation (`Torn`), which every later
  promotion of the digest then takes for tampering.
- An authentic malformed payload is said to be a verification failure, never an operator
  error or a crash (`verify.py:100-102`). One that is not JSON (`signing.py:159`), or whose
  `subject[0]` is no object (`statement.py:77`, an `AttributeError` that the guard does not
  name), is an operator error of `mig promote`, and the second is a traceback of
  `mig verify`.
- Every attempt is said to be recorded (`audit.py:1`) and `promote_artifact` never to
  raise (`promote.py:285`, `README.md:330-332`). `mkdtemp` is called before the `try`
  (`promote.py:141`): a full disk raises and leaves no record (the phase *escaped*).
- Artifacts over the caps are said to be rejected (`quarantine.py:7-8`, `32`), but a local
  file that grows between `getsize` and `copyfile` is copied whole, and nothing measures
  the copy (`changed`).
- `audit.py:29-31` says that a store write is never unrecorded; the audit follows the
  commit, and a crash between them leaves no line. The reverse, a line without its
  entry, does not happen (`RecordedIsStored`).
- `cosign.py:52-53` says that a hung cosign must not escape; `CosignUnavailableError`, a
  `SigningError`, is caught neither by `verify_attestation` (which, by `verify.py:15-17`,
  returns a result "rather than raising") nor by `_cmd_verify`: a traceback, exit 1.
- An `OSError` of a fetch (a full disk, a file gone, the hub unreachable) is not in
  `_FETCH_ERRORS`, against the list of what each exit code means (`main.py:61`): a
  traceback, exit 1, which a caller of `--fail-on` reads as a failing verdict.
- A denial is lost from both places it is kept (`audit.py:3`) by a cut append, its own or
  one before it, and another denial of its digest in its second; denials without a digest
  are all named `unknown`.
- `allocate` says that its subdirectory isolates a reference; under one shared root two
  references can map to one directory, which it does not empty. Every command makes
  a root of its own, so none is shared.
- A detonation that times out counts as behavioural rigor (`docker.py:266-279`); its
  WARN still prevents an approval.
- An unknown or malformed policy condition raises only when the conditions before it
  hold (`engine.py:146`), so a policy can be valid for one artifact and an error for
  the next.
- A policy whose version is the empty string approves at ingest and is denied at
  promotion; `ApprovedIsPromotable` exempts it by name.
- `Registry.discover` stores `entry_point.load` as the factory, so `create` returns
  the class instead of an instance.

## 7. Not modelled

- `_cmd_promote`'s wrapper: it prints `promote_artifact`'s result and returns its exit
  code; the function itself is `Promotion`.
- Canonical JSON (`canonical.py`): a pure function over strings, numbers and dates; it
  is taken for injective. Report and bundle layout, argument parsing, the banner.
- The parsing of policies; what a command does with one it cannot load is in `Cli`, what
  a loaded one means in `PolicyEngine`.
- The plug-in registry (no command uses it), packaging, the example Rego policy.
- The container's flags, the regular expressions and the AST walk inside the gates,
  `safe_join`'s path arithmetic, the arithmetic of HMAC and ed25519.

`PROJECT.json` lists every component with its status.

## 8. Plan

Done, in this order: the store and its refinement, promotion, the scan pipeline with its
gates and policy, ingest to promotion; then the disk under the store, the audit index,
the sources with quarantine, and the CLI; and the proofs of all of them.

Next:

1. What liveness rests on and a proof can show: a measure that every step of a `write()`,
   an attempt or a command lowers, so that a process which is scheduled runs out of steps.
2. A local tree with subdirectories, listed step by step.
3. `DurableStore` as an implementation of the write-once map between outages.
