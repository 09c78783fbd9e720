---------------------------- MODULE DurableStore ----------------------------
(***************************************************************************)
(* The trusted store and its audit index on a disk that forgets: what       *)
(* LocalTrustedStore.write (promotion/stores/local_fs.py) and the sink's    *)
(* _mirror (promotion/audit.py) leave behind when the power fails.          *)
(*                                                                         *)
(* The disk is a journaling file system.  Changes of directories and of    *)
(* file sizes enter the journal in the order of the calls and become        *)
(* durable in that order; fsync of anything makes durable all that was      *)
(* journaled before it, and the bytes of the file it names.  Bytes that     *)
(* were not synced may be missing after an outage although the file is      *)
(* there.  Every attempt promotes the same artifact under the same          *)
(* attestation: conflicts between attestations are TrustedStore's.          *)
(***************************************************************************)
EXTENDS Naturals, Sequences, Functions

CONSTANTS
    Attempts,       \* calls of promote_artifact
    Paths,          \* the files of the artifact
    MaxOutages,     \* bound: how often the power fails
    DiskFaults      \* what else may go wrong, of DiskFaultKinds

DiskFaultKinds == {"osError", "dirSync", "mirror"}

Blobs == {"att", "receipt", "marker"}
Parts == Paths \cup Blobs

ASSUME PartsAssumption == Paths \cap (Blobs \cup {"rename", "line"}) = {}
ASSUME DiskAssumption  == MaxOutages \in Nat /\ DiskFaults \subseteq DiskFaultKinds

(* <<a, part>>: the part of a's tmp directory is created; <<a, "rename">>: that
   directory becomes the key; <<a, "line">>: a's line of promotions.jsonl. *)
Ops == Attempts \X (Parts \cup {"rename", "line"})

Stages  == {"idle", "check", "copy", "syncTree", "att", "receipt", "marker", "syncDir",
            "replace", "assert", "line", "done", "dead"}
Results == {"none", "committed", "present", "refused", "failed"}
Success == {"committed", "present"}

VARIABLES
    journal,    \* the operations in the order of their calls
    durable,    \* how many of them an outage cannot undo
    synced,     \* the files whose bytes were synced
    torn,       \* the files that lost bytes in an outage
    stage,      \* stage[a]: the next step of a
    result,     \* result[a]: what write() answered
    mirrored,   \* the attempts whose _mirror ended without an exception
    outages,
    trouble     \* history: the attempts that met a fault

disk  == <<journal, durable, synced, torn>>
dvars == <<journal, durable, synced, torn, stage, result, mirrored, outages, trouble>>

Visible   == Range(journal)
Committed == \E a \in Attempts : <<a, "rename">> \in Visible

(* Files that hold bytes; the marker is empty, the rename is no file. *)
Data == Attempts \X (Paths \cup {"att", "receipt", "line"})

Whole(a) == \A x \in Parts : <<a, x>> \in Visible /\ <<a, x>> \notin torn

DInit ==
    /\ journal = <<>> /\ durable = 0
    /\ synced = {} /\ torn = {}
    /\ stage  = [a \in Attempts |-> "idle"]
    /\ result = [a \in Attempts |-> "none"]
    /\ mirrored = {} /\ outages = 0 /\ trouble = {}

At(a, from, to)  == stage[a] = from /\ stage' = [stage EXCEPT ![a] = to]
Record(a, op)    == journal' = Append(journal, <<a, op>>)
Answer(a, r)     == result' = [result EXCEPT ![a] = r]
Fail(a, kind)    == kind \in DiskFaults /\ trouble' = trouble \cup {a}

(* fsync(x) of a's file x: its bytes, and the journal up to here. *)
Sync(a, x) ==
    /\ synced'  = synced \cup {<<a, x>>}
    /\ durable' = Len(journal)

-----------------------------------------------------------------------------
(* write() *)

Start(a) ==
    /\ At(a, "idle", "check")
    /\ UNCHANGED <<disk, result, mirrored, outages, trouble>>

(* os.path.exists(complete); the quarantine is taken to be undisturbed. *)
Check(a) ==
    /\ stage[a] = "check"
    /\ At(a, "check", IF Committed THEN "assert" ELSE "copy")
    /\ UNCHANGED <<disk, result, mirrored, outages, trouble>>

(* stage_local_tree: shutil.copyfile does not sync. *)
Copy(a) ==
    /\ stage[a] = "copy"
    /\ \/ \E p \in Paths : /\ <<a, p>> \notin Visible
                           /\ Record(a, p)
                           /\ UNCHANGED stage
       \/ /\ \A p \in Paths : <<a, p>> \in Visible
          /\ At(a, "copy", "syncTree")
          /\ UNCHANGED journal
    /\ UNCHANGED <<durable, synced, torn, result, mirrored, outages, trouble>>

(* Mutant: the copied files are not synced. *)
SyncTreeSkipped(a) ==
    /\ At(a, "syncTree", "att")
    /\ UNCHANGED <<disk, result, mirrored, outages, trouble>>

(* _fsync_tree: one file after another. *)
SyncTree(a) ==
    /\ stage[a] = "syncTree"
    /\ \/ \E p \in Paths : /\ <<a, p>> \notin synced
                           /\ Sync(a, p)
                           /\ UNCHANGED stage
       \/ /\ \A p \in Paths : <<a, p>> \in synced
          /\ At(a, "syncTree", "att")
          /\ UNCHANGED <<durable, synced>>
    /\ UNCHANGED <<journal, torn, result, mirrored, outages, trouble>>

(* Mutant: os.fsync is left out. *)
WriteBlobUnsynced(a, x, next) ==
    /\ At(a, x, next)
    /\ Record(a, x)
    /\ UNCHANGED <<durable, synced, torn, result, mirrored, outages, trouble>>

(* _write_blob: create and write, then fsync. *)
WriteBlob(a, x, next) ==
    /\ stage[a] = x
    /\ \/ /\ <<a, x>> \notin Visible
          /\ Record(a, x)
          /\ UNCHANGED <<durable, synced, stage>>
       \/ /\ <<a, x>> \in Visible
          /\ Sync(a, x)
          /\ At(a, x, next)
          /\ UNCHANGED journal
    /\ UNCHANGED <<torn, result, mirrored, outages, trouble>>

WriteAtt(a)     == WriteBlob(a, "att", "receipt")
WriteReceipt(a) == WriteBlob(a, "receipt", "marker")
WriteMarker(a)  == WriteBlob(a, "marker", "syncDir")

(* _fsync_dir(tmp), whose failure is swallowed. *)
SyncDir(a) ==
    /\ At(a, "syncDir", "replace")
    /\ \/ durable' = Len(journal) /\ UNCHANGED trouble
       \/ Fail(a, "dirSync") /\ UNCHANGED durable
    /\ UNCHANGED <<journal, synced, torn, result, mirrored, outages>>

(* os.replace(tmp, key_dir).  Neither the key's parent nor artifact/ is synced. *)
Replace(a) ==
    /\ stage[a] = "replace"
    /\ IF Committed
       THEN At(a, "replace", "assert") /\ UNCHANGED <<journal, result>>
       ELSE /\ At(a, "replace", "line")
            /\ Record(a, "rename")
            /\ Answer(a, "committed")
    /\ UNCHANGED <<durable, synced, torn, mirrored, outages, trouble>>

(* Mutant: a failed rename is taken for a lost race. *)
ReplaceFailsPresuming(a) ==
    /\ At(a, "replace", "line")
    /\ Fail(a, "osError")
    /\ Answer(a, "present")
    /\ UNCHANGED <<disk, mirrored, outages>>

(* Mutant: the rename's own error leaves write(). *)
ReplaceFailsRaw(a) ==
    /\ At(a, "replace", "line")
    /\ Fail(a, "osError")
    /\ Answer(a, "OSError")
    /\ UNCHANGED <<disk, mirrored, outages>>

(* The rename fails for another reason: the except clause looks for the marker. *)
ReplaceFails(a) ==
    /\ At(a, "replace", IF Committed THEN "assert" ELSE "line")
    /\ Fail(a, "osError")
    /\ IF Committed THEN UNCHANGED result ELSE Answer(a, "refused")
    /\ UNCHANGED <<disk, mirrored, outages>>

(* _assert_stored_matches: the tree re-hashes, the attestation is the same. *)
AssertStored(a) ==
    /\ At(a, "assert", "line")
    /\ \E b \in Attempts :
          /\ <<b, "rename">> \in Visible
          /\ Answer(a, IF \A x \in Paths \cup {"att"} :
                             <<b, x>> \in Visible /\ <<b, x>> \notin torn
                       THEN "present" ELSE "refused")
    /\ UNCHANGED <<disk, mirrored, outages, trouble>>

(* A call before the rename fails: the exception leaves write(), rmtree(tmp). *)
StageFails(a) ==
    /\ \E from \in {"copy", "syncTree", "att", "receipt", "marker"} : At(a, from, "line")
    /\ Fail(a, "osError")
    /\ Answer(a, "failed")
    /\ UNCHANGED <<disk, mirrored, outages>>

-----------------------------------------------------------------------------
(* PromotionAuditSink._mirror, after write() whatever it answered *)

(* Mutant: the line is left in the page cache. *)
MirrorUnsynced(a) ==
    /\ At(a, "line", "done")
    /\ Record(a, "line")
    /\ mirrored' = mirrored \cup {a}
    /\ UNCHANGED <<durable, synced, torn, result, outages, trouble>>

(* Append the line, then flush and fsync. *)
Mirror(a) ==
    /\ stage[a] = "line"
    /\ \/ /\ <<a, "line">> \notin Visible
          /\ Record(a, "line")
          /\ UNCHANGED <<durable, synced, stage, mirrored>>
       \/ /\ <<a, "line">> \in Visible
          /\ Sync(a, "line")
          /\ At(a, "line", "done")
          /\ mirrored' = mirrored \cup {a}
          /\ UNCHANGED journal
    /\ UNCHANGED <<torn, result, outages, trouble>>

(* The mirror fails, before or after its line: a warning, nothing else. *)
MirrorFails(a) ==
    /\ At(a, "line", "done")
    /\ Fail(a, "mirror")
    /\ UNCHANGED <<disk, result, mirrored, outages>>

-----------------------------------------------------------------------------
(* The power fails: the journal survives up to some point, the files that are
   then there keep the bytes that were synced, and everybody dies. *)
PowerLoss ==
    /\ outages < MaxOutages
    /\ outages' = outages + 1
    /\ \E n \in durable .. Len(journal) :
          /\ journal' = SubSeq(journal, 1, n)
          /\ durable' = n
          /\ \E lost \in SUBSET ((Data \cap Range(SubSeq(journal, 1, n))) \ synced) :
                torn' = torn \cup lost
    /\ stage' = [a \in Attempts |-> IF stage[a] \in {"idle", "done"} THEN stage[a] ELSE "dead"]
    /\ UNCHANGED <<synced, result, mirrored, trouble>>

DStep(a) ==
    \/ Start(a) \/ Check(a) \/ Copy(a) \/ SyncTree(a)
    \/ WriteAtt(a) \/ WriteReceipt(a) \/ WriteMarker(a) \/ SyncDir(a)
    \/ Replace(a) \/ ReplaceFails(a) \/ AssertStored(a) \/ StageFails(a)
    \/ Mirror(a) \/ MirrorFails(a)

DEnded ==
    /\ \A a \in Attempts : stage[a] \in {"done", "dead"}
    /\ UNCHANGED dvars

DNext == (\E a \in Attempts : DStep(a)) \/ PowerLoss \/ DEnded

DSpec == DInit /\ [][DNext]_dvars
-----------------------------------------------------------------------------
(* what is left after any number of outages *)

DTypeOK ==
    /\ journal  \in Seq(Ops)
    /\ durable  \in 0 .. Len(journal)
    /\ synced   \in SUBSET Ops
    /\ torn     \in SUBSET Data
    /\ stage    \in [Attempts -> Stages]
    /\ result   \in [Attempts -> Results]
    /\ mirrored \in SUBSET Attempts
    /\ outages  \in 0 .. MaxOutages
    /\ trouble  \in SUBSET Attempts

(* A key directory holds every file of its artifact, the attestation, the
   receipt and the marker, with all their bytes, whenever the power fails: the
   rename, the blobs and the data of the tree are made durable in an order in
   which no outage finds half of an entry under its digest (local_fs.py:9-11
   and 61-64). *)
MarkedIsWhole ==
    \A a \in Attempts : <<a, "rename">> \in Visible => Whole(a)

(* The index never vouches for an entry that is not there: a success whose line
   survived in promotions.jsonl has its entry on the disk.  The entry is
   journaled before the line, so no outage keeps the second and drops the first
   (promote.py:248-268, audit.py:51-54). *)
RecordedIsStored ==
    \A a \in Attempts :
        (<<a, "line">> \in Visible \ torn /\ result[a] \in Success) => Committed

(* write() does not sync the rename, so a commit alone may be undone.  Once
   promote_artifact has also mirrored the outcome, both the entry, whoever
   committed it, and the line survive every later outage. *)
SuccessSurvives ==
    \A a \in Attempts :
        (a \in mirrored /\ result[a] \in Success) => Committed /\ <<a, "line">> \in Visible \ torn

(* An outage leaves no scar: what it leaves under a key never makes a later
   promotion of the same attestation fail (a marker-less or torn entry would,
   forever, since the store never replaces one). *)
OutagesLeaveNoScar ==
    \A a \in Attempts : result[a] \in {"refused", "failed"} => a \in trouble
=============================================================================
