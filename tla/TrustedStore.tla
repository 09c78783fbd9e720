---------------------------- MODULE TrustedStore ----------------------------
(***************************************************************************)
(* The local content-addressed trusted store, LocalTrustedStore.write of   *)
(* promotion/stores/local_fs.py, one action per file-system step.  Each    *)
(* attempt is one call of write() in a process of its own: attempts        *)
(* interleave freely on the shared key directories, each has a .tmp        *)
(* directory of its own, and any of them may crash between two steps.      *)
(*                                                                         *)
(* A tree maps relative paths to bytes.  SHA-256 is taken as collision     *)
(* free: the digest of a set of files is the tree they form, so equality   *)
(* of digests is equality of paths and bytes, which is what hash_tree      *)
(* binds.                                                                  *)
(***************************************************************************)
EXTENDS Integers, FiniteSets

CONSTANTS
    Attempts,    \* the calls of write()
    Paths,       \* relative file paths in an artifact tree
    Bytes,       \* file contents
    Envelopes,   \* signed DSSE envelopes (distinct bytes, so distinct values)
    SubjectOf,   \* SubjectOf[e]: the subject digest inside e's signed payload
    Faults,      \* what the environment may do, a subset of FaultKinds
    Absent,      \* no directory at this path
    NoBlob,      \* no such file in the entry
    Torn,        \* a file that holds a strict prefix of what was written
    NoCall       \* write() has not been called

FaultKinds == {"crash", "osError", "disturb", "shortWrite", "rot", "litter"}

Trees   == UNION {[S -> Bytes] : S \in SUBSET Paths}
Digests == {SubjectOf[e] : e \in Envelopes}

ASSUME SubjectAssumption == SubjectOf \in [Envelopes -> Trees]
ASSUME FaultAssumption   == Faults \subseteq FaultKinds
ASSUME SentinelAssumption ==
    /\ NoBlob \notin Envelopes \cup Attempts
    /\ Torn \notin Envelopes \cup Attempts
    /\ NoBlob # Torn

HashTree(tree, files) == [p \in files |-> tree[p]]      \* files \subseteq DOMAIN tree
TreeDigest(tree)      == HashTree(tree, DOMAIN tree)

AddFile(tree, p, b)   == [q \in DOMAIN tree \cup {p} |-> IF q = p THEN b ELSE tree[q]]

EmptyTree == [p \in {} |-> Bytes]

(* A directory of the store: the copied artifact, the two blobs, the marker. *)
Entry == [artifact : Trees,
          att      : Envelopes \cup {NoBlob, Torn},
          receipt  : Attempts \cup {NoBlob, Torn},   \* a receipt names its attempt
          complete : BOOLEAN]

(* Entries and calls are records, so these sentinels are never one of them. *)
ASSUME AbsentAssumption == Absent \notin Entry /\ NoCall \notin [env : Envelopes, files : SUBSET Paths]

VARIABLES
    keys,     \* keys[d]: the directory cas/sha256/<d[:2]>/<d>
    staged,   \* staged[a]: a's .tmp-<digest>-<random> directory
    quar,     \* quar[a]: the tree in a's quarantine
    call,     \* call[a]: the envelope and Artifact.files given to write()
    pc,       \* pc[a]: the next step of a's write()
    result,   \* result[a]: what write() returns or raises
    mishap,   \* mishap[a]: history, what the environment has done to a
    rot       \* history: digests whose stored bytes decayed

vars == <<keys, staged, quar, call, pc, result, mishap, rot>>

Labels  == {"idle", "check", "assertTree", "assertAtt", "rebind", "stage", "copy",
            "hash", "attBlob", "receiptBlob", "marker", "replace", "lost",
            "cleanup", "returned", "crashed"}
Results == {"none", "committed", "present", "refused", "failed"}
   \* (uri, FALSE), (uri, TRUE), PromotionError, OSError or QuarantineError

Env(a) == call[a].env
Key(a) == SubjectOf[Env(a)]        \* write() re-derives the key from the payload
CompleteExists(d) == keys[d] # Absent /\ keys[d].complete

Init ==
    /\ keys   = [d \in Digests |-> Absent]
    /\ staged = [a \in Attempts |-> Absent]
    /\ quar   = [a \in Attempts |-> EmptyTree]
    /\ call   = [a \in Attempts |-> NoCall]
    /\ pc     = [a \in Attempts |-> "idle"]
    /\ result = [a \in Attempts |-> "none"]
    /\ mishap = [a \in Attempts |-> {}]
    /\ rot    = {}

Goto(a, label) == pc' = [pc EXCEPT ![a] = label]

(* Mutant: no finally clause. *)
LeaveWithoutCleanup(a, r) ==
    /\ result' = [result EXCEPT ![a] = r]
    /\ Goto(a, "returned")

(* Leave write() with r; the finally clause removes tmp where there is one. *)
Leave(a, r) ==
    /\ result' = [result EXCEPT ![a] = r]
    /\ Goto(a, IF staged[a] = Absent THEN "returned" ELSE "cleanup")

Suffer(a, kind) ==
    /\ kind \in Faults
    /\ mishap' = [mishap EXCEPT ![a] = @ \cup {kind}]

-----------------------------------------------------------------------------
(* write(), step by step *)

(* The caller verified the files of the quarantine against e's subject.  What
   quar' is, the caller of this action says. *)
Call(a, e, files) ==
    /\ pc[a] = "idle"
    /\ call' = [call EXCEPT ![a] = [env |-> e, files |-> files]]
    /\ Goto(a, "check")
    /\ UNCHANGED <<keys, staged, result, mishap, rot>>

CheckComplete(a) ==
    /\ pc[a] = "check"
    /\ Goto(a, IF CompleteExists(Key(a)) THEN "assertTree" ELSE "rebind")
    /\ UNCHANGED <<keys, staged, quar, call, result, mishap, rot>>

AssertTree(a) ==
    /\ pc[a] = "assertTree"
    /\ \/ /\ TreeDigest(keys[Key(a)].artifact) = Key(a)
          /\ Goto(a, "assertAtt")
          /\ UNCHANGED result
       \/ /\ TreeDigest(keys[Key(a)].artifact) # Key(a)
          /\ Leave(a, "refused")
    /\ UNCHANGED <<keys, staged, quar, call, mishap, rot>>

AssertAtt(a) ==
    /\ pc[a] = "assertAtt"
    /\ Leave(a, IF keys[Key(a)].att = Env(a) THEN "present" ELSE "refused")
    /\ UNCHANGED <<keys, staged, quar, call, mishap, rot>>

(* The re-bind hashes exactly Artifact.files; one that vanished is an OSError. *)
Rebind(a) ==
    /\ pc[a] = "rebind"
    /\ IF ~(call[a].files \subseteq DOMAIN quar[a])
       THEN Leave(a, "failed")
       ELSE IF HashTree(quar[a], call[a].files) = Key(a)
            THEN Goto(a, "stage") /\ UNCHANGED result
            ELSE Leave(a, "refused")
    /\ UNCHANGED <<keys, staged, quar, call, mishap, rot>>

MakeTmp(a) ==
    /\ pc[a] = "stage"
    /\ staged' = [staged EXCEPT ![a] = [artifact |-> EmptyTree, att |-> NoBlob,
                                        receipt |-> NoBlob, complete |-> FALSE]]
    /\ Goto(a, "copy")
    /\ UNCHANGED <<keys, quar, call, result, mishap, rot>>

(* stage_local_tree walks the whole quarantine, not only Artifact.files. *)
CopyFile(a) ==
    /\ pc[a] = "copy"
    /\ \E p \in DOMAIN quar[a] \ DOMAIN staged[a].artifact :
          staged' = [staged EXCEPT ![a].artifact = AddFile(@, p, quar[a][p])]
    /\ UNCHANGED <<keys, quar, call, pc, result, mishap, rot>>

(* os.walk sees every file, unless the tree changes under it. *)
EndCopy(a) ==
    /\ pc[a] = "copy"
    /\ \/ DOMAIN quar[a] \subseteq DOMAIN staged[a].artifact
       \/ "disturb" \in mishap[a]
    /\ Goto(a, "hash")
    /\ UNCHANGED <<keys, staged, quar, call, result, mishap, rot>>

(* Mutant: the copy is taken for faithful. *)
CheckStagedTrusting(a) ==
    /\ pc[a] = "hash"
    /\ Goto(a, "attBlob")
    /\ UNCHANGED <<keys, staged, quar, call, result, mishap, rot>>

CheckStaged(a) ==
    /\ pc[a] = "hash"
    /\ IF TreeDigest(staged[a].artifact) = Key(a)
       THEN Goto(a, "attBlob") /\ UNCHANGED result
       ELSE Leave(a, "refused")
    /\ UNCHANGED <<keys, staged, quar, call, mishap, rot>>

(* os.write's count is not looked at: a short write is taken for a whole one. *)
WriteAtt(a) ==
    /\ pc[a] = "attBlob"
    /\ \/ /\ staged' = [staged EXCEPT ![a].att = Env(a)]
          /\ UNCHANGED mishap
       \/ /\ staged' = [staged EXCEPT ![a].att = Torn]
          /\ Suffer(a, "shortWrite")
    /\ Goto(a, "receiptBlob")
    /\ UNCHANGED <<keys, quar, call, result, rot>>

(* Mutant: the envelope is written where the receipt belongs. *)
WriteReceiptWrongBlob(a) ==
    /\ pc[a] = "receiptBlob"
    /\ staged' = [staged EXCEPT ![a].receipt = Env(a)]
    /\ Goto(a, "marker")
    /\ UNCHANGED <<keys, quar, call, result, mishap, rot>>

WriteReceipt(a) ==
    /\ pc[a] = "receiptBlob"
    /\ \/ /\ staged' = [staged EXCEPT ![a].receipt = a]
          /\ UNCHANGED mishap
       \/ /\ staged' = [staged EXCEPT ![a].receipt = Torn]
          /\ Suffer(a, "shortWrite")
    /\ Goto(a, "marker")
    /\ UNCHANGED <<keys, quar, call, result, rot>>

WriteMarker(a) ==
    /\ pc[a] = "marker"
    /\ staged' = [staged EXCEPT ![a].complete = TRUE]
    /\ Goto(a, "replace")
    /\ UNCHANGED <<keys, quar, call, result, mishap, rot>>

(* Mutant: whatever is at the key is removed first. *)
ReplaceClobbering(a) ==
    /\ pc[a] = "replace"
    /\ keys' = [keys EXCEPT ![Key(a)] = staged[a]]
    /\ staged' = [staged EXCEPT ![a] = Absent]
    /\ result' = [result EXCEPT ![a] = "committed"]
    /\ Goto(a, "returned")
    /\ UNCHANGED <<quar, call, mishap, rot>>

(* os.replace: rename() onto a populated directory fails, otherwise the whole
   tmp directory becomes the key in one step. *)
Replace(a) ==
    /\ pc[a] = "replace"
    /\ \/ /\ keys[Key(a)] = Absent
          /\ keys' = [keys EXCEPT ![Key(a)] = staged[a]]
          /\ staged' = [staged EXCEPT ![a] = Absent]
          /\ result' = [result EXCEPT ![a] = "committed"]
          /\ Goto(a, "returned")
       \/ /\ keys[Key(a)] # Absent
          /\ Goto(a, "lost")
          /\ UNCHANGED <<keys, staged, result>>
    /\ UNCHANGED <<quar, call, mishap, rot>>

(* Mutants: a failed rename is taken for a lost race and a no-op; for a commit
   by somebody else that counts as ours; for an error without looking; or it
   is tried again. *)
AfterLostRacePresumes(a) ==
    /\ pc[a] = "lost"
    /\ Leave(a, "present")
    /\ UNCHANGED <<keys, staged, quar, call, mishap, rot>>
AfterLostRaceClaims(a) ==
    /\ pc[a] = "lost"
    /\ Leave(a, IF CompleteExists(Key(a)) THEN "committed" ELSE "refused")
    /\ UNCHANGED <<keys, staged, quar, call, mishap, rot>>
AfterLostRaceGivesUp(a) ==
    /\ pc[a] = "lost"
    /\ Leave(a, "refused")
    /\ UNCHANGED <<keys, staged, quar, call, mishap, rot>>
AfterLostRaceRetries(a) ==
    /\ pc[a] = "lost"
    /\ Goto(a, "replace")
    /\ UNCHANGED <<keys, staged, quar, call, result, mishap, rot>>

(* The except clause: did a concurrent writer win the race? *)
AfterLostRace(a) ==
    /\ pc[a] = "lost"
    /\ IF CompleteExists(Key(a))
       THEN Goto(a, "assertTree") /\ UNCHANGED result
       ELSE Leave(a, "refused")
    /\ UNCHANGED <<keys, staged, quar, call, mishap, rot>>

(* rmtree(tmp, ignore_errors=True) *)
Cleanup(a) ==
    /\ pc[a] = "cleanup"
    /\ \/ /\ staged' = [staged EXCEPT ![a] = Absent]
          /\ UNCHANGED mishap
       \/ /\ Suffer(a, "litter")
          /\ UNCHANGED staged
    /\ Goto(a, "returned")
    /\ UNCHANGED <<keys, quar, call, result, rot>>

WriteStep(a) ==
    \/ CheckComplete(a) \/ AssertTree(a) \/ AssertAtt(a) \/ Rebind(a)
    \/ MakeTmp(a) \/ CopyFile(a) \/ EndCopy(a) \/ CheckStaged(a)
    \/ WriteAtt(a) \/ WriteReceipt(a) \/ WriteMarker(a)
    \/ Replace(a) \/ AfterLostRace(a) \/ Cleanup(a)

-----------------------------------------------------------------------------
(* the environment *)

(* A system call of write() fails.  os.path.exists and the clean-up swallow
   errors; a failing rename goes to the except clause; an unreadable stored
   attestation is a PromotionError; everything else propagates. *)
IOError(a) ==
    /\ Suffer(a, "osError")
    /\ \/ /\ pc[a] \in {"assertTree", "rebind", "stage", "copy", "hash",
                        "attBlob", "receiptBlob", "marker"}
          /\ Leave(a, "failed")
       \/ /\ pc[a] = "assertAtt"
          /\ Leave(a, "refused")
       \/ /\ pc[a] = "replace"
          /\ Goto(a, "lost")
          /\ UNCHANGED result
    /\ UNCHANGED <<keys, staged, quar, call, rot>>

(* The process dies: its tmp directory stays behind, nothing else of it does. *)
Crash(a) ==
    /\ pc[a] \notin {"idle", "returned", "crashed"}
    /\ Suffer(a, "crash")
    /\ Goto(a, "crashed")
    /\ UNCHANGED <<keys, staged, quar, call, result, rot>>

(* Somebody changes the quarantine while write() still reads it (the bound:
   once per call). *)
Disturb(a) ==
    /\ pc[a] \in {"check", "rebind", "stage", "copy"}
    /\ "disturb" \notin mishap[a]
    /\ Suffer(a, "disturb")
    /\ \E t \in Trees \ {quar[a]} : quar' = [quar EXCEPT ![a] = t]
    /\ UNCHANGED <<keys, staged, call, pc, result, rot>>

(* Stored artifact bytes decay (once per key). *)
Decay(d) ==
    /\ "rot" \in Faults
    /\ keys[d] # Absent
    /\ d \notin rot
    /\ \E t \in Trees \ {keys[d].artifact} : keys' = [keys EXCEPT ![d].artifact = t]
    /\ rot' = rot \cup {d}
    /\ UNCHANGED <<staged, quar, call, pc, result, mishap>>

(* A caller with a freshly verified quarantine. *)
Open(a) ==
    \E e \in Envelopes, t \in Trees : \E files \in SUBSET DOMAIN t :
        /\ HashTree(t, files) = SubjectOf[e]
        /\ Call(a, e, files)
        /\ quar' = [quar EXCEPT ![a] = t]

Environment(a) == Open(a) \/ IOError(a) \/ Crash(a) \/ Disturb(a)

(* All calls have ended: nothing is left to do. *)
Done ==
    /\ \A a \in Attempts : pc[a] \in {"returned", "crashed"}
    /\ UNCHANGED vars

Next ==
    \/ \E a \in Attempts : WriteStep(a) \/ Environment(a)
    \/ \E d \in Digests : Decay(d)
    \/ Done

Spec == Init /\ [][Next]_vars

(* A running process is scheduled: write() has no lock and nothing to wait for. *)
FairSpec == Spec /\ \A a \in Attempts : WF_vars(WriteStep(a))
-----------------------------------------------------------------------------
(* what the store promises *)

TypeOK ==
    /\ keys   \in [Digests -> Entry \cup {Absent}]
    /\ staged \in [Attempts -> Entry \cup {Absent}]
    /\ quar   \in [Attempts -> Trees]
    /\ call   \in [Attempts -> [env : Envelopes, files : SUBSET Paths] \cup {NoCall}]
    /\ pc     \in [Attempts -> Labels]
    /\ result \in [Attempts -> Results]
    /\ mishap \in [Attempts -> SUBSET FaultKinds]
    /\ rot    \in SUBSET Digests

(* A key directory is never half-populated or without its marker, its files
   are exactly the tree its name is the digest of (as long as the disk keeps
   them), and the signed subject of its attestation is that digest: whatever
   the races, crashes, disturbed quarantines and failing system calls
   ("content-addressed", "atomic + crash-safe", local_fs.py:7-11). *)
EntryIntegrity ==
    \A d \in Digests : keys[d] # Absent =>
        /\ keys[d].complete
        /\ d \notin rot => TreeDigest(keys[d].artifact) = d
        /\ keys[d].att # Torn => keys[d].att \in Envelopes /\ SubjectOf[keys[d].att] = d

(* The receipt beside an attestation is the one issued for that attestation,
   in the same call, and a call reports a fresh commit only when the entry is
   its own: of racing writers of one digest exactly one may claim it. *)
CommitClaims ==
    /\ \A d \in Digests : \A a \in Attempts :
          (keys[d] # Absent /\ keys[d].receipt = a) =>
              /\ call[a] # NoCall
              /\ keys[d].att \in {Env(a), Torn}
              /\ result[a] = "committed"
    /\ \A a, b \in Attempts :
          (result[a] = "committed" /\ result[b] = "committed" /\ Key(a) = Key(b)) => a = b

(* Success is never reported for a digest that is not there, and a no-op only
   over the very attestation that was being promoted. *)
SuccessIsStored ==
    \A a \in Attempts :
        /\ result[a] \in {"committed", "present"} => CompleteExists(Key(a))
        /\ result[a] = "present" => keys[Key(a)].att = Env(a)

(* A refusal always has a reason outside the store: a file that changed or is
   not in Artifact.files, a failed system call, decayed bytes, or another
   signed attestation (or a torn one) already filed under the digest.  Losing
   a race to the same attestation is not a reason. *)
RefusalHasCause ==
    \A a \in Attempts : result[a] \in {"refused", "failed"} =>
        \/ mishap[a] \cap {"osError", "disturb"} # {}
        \/ call[a].files # DOMAIN quar[a]
        \/ Key(a) \in rot
        \/ keys[Key(a)] # Absent /\ keys[Key(a)].att # Env(a)

(* A call that has ended leaves no tmp directory, unless rmtree failed. *)
NoLitter ==
    \A a \in Attempts :
        (pc[a] = "returned" /\ "litter" \notin mishap[a]) => staged[a] = Absent

(* No clobber: what a key holds besides its decaying bytes never changes. *)
NoClobber ==
    [][\A d \in Digests : keys[d] # Absent =>
          /\ keys'[d] # Absent
          /\ keys'[d].att = keys[d].att
          /\ keys'[d].receipt = keys[d].receipt
          /\ keys'[d].complete]_vars

(* The claim of local_fs.py:12 that re-promoting a digest is a no-op: with no
   mishap at all and the artifact intact, a second write is not refused. *)
RepromotionIsNoop ==
    \A a \in Attempts :
        (result[a] = "refused" /\ mishap[a] = {} /\ rot = {} /\ call[a].files = DOMAIN quar[a])
            => ~CompleteExists(Key(a))
=============================================================================
