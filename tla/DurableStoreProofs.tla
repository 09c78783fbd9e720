------------------------- MODULE DurableStoreProofs -------------------------
(***************************************************************************)
(* Proofs about DurableStore for any attempts, files, number of outages and *)
(* faults: whatever outage happens when, an entry is whole, the index does  *)
(* not vouch for what is not there, a mirrored success is there for good,   *)
(* and no outage makes a later promotion fail.                              *)
(***************************************************************************)
EXTENDS DurableStore, TLAPS

Staged == Paths \cup {"att", "receipt"}     \* a tmp directory's files that hold bytes

(* The operation was called before the i-th of the journal. *)
Before(i, op) == \E j \in 1 .. (i - 1) : journal[j] = op

(* A rename comes after all its parts, the line of a success after a rename, and
   the line of a mirrored outcome is durable. *)
OrderInv ==
    /\ \A i \in DOMAIN journal : \A a \in Attempts :
          journal[i] = <<a, "rename">> => \A x \in Parts : Before(i, <<a, x>>)
    /\ \A i \in DOMAIN journal : \A a \in Attempts :
          (journal[i] = <<a, "line">> /\ result[a] \in Success)
             => \E b \in Attempts : Before(i, <<b, "rename">>)
    /\ \A a \in mirrored : \E i \in 1 .. durable : journal[i] = <<a, "line">>

(* What is renamed has been synced, and what was synced is never torn, since a
   process whose file was torn does not run. *)
SyncInv ==
    /\ \A a \in Attempts : <<a, "rename">> \in Visible =>
          \A x \in Staged : <<a, x>> \in synced
    /\ \A a \in mirrored : <<a, "line">> \in synced
    /\ synced \cap torn = {}
    /\ \A a \in Attempts : \A x : <<a, x>> \in torn => stage[a] \in {"done", "dead"}

(* What an attempt has journaled and synced of its own by the stage it is at. *)
Progress(a) ==
    /\ stage[a] \in {"syncTree", "att", "receipt", "marker", "syncDir", "replace"} =>
          \A p \in Paths : <<a, p>> \in Visible
    /\ stage[a] \in {"att", "receipt", "marker", "syncDir", "replace"} =>
          \A p \in Paths : <<a, p>> \in synced
    /\ stage[a] \in {"receipt", "marker", "syncDir", "replace"} =>
          <<a, "att">> \in Visible \cap synced
    /\ stage[a] \in {"marker", "syncDir", "replace"} =>
          <<a, "receipt">> \in Visible \cap synced
    /\ stage[a] \in {"syncDir", "replace"} => <<a, "marker">> \in Visible

StageInv ==
    \A a \in Attempts :
       /\ Progress(a)
       /\ (stage[a] = "line" /\ result[a] \in Success) => Committed
       /\ <<a, "line">> \in Visible => stage[a] \in {"line", "done", "dead"}
       /\ a \in mirrored => stage[a] = "done"
       /\ stage[a] = "idle" => \A x : <<a, x>> \notin Visible

DInv == DTypeOK /\ OrderInv /\ SyncInv /\ StageInv /\ OutagesLeaveNoScar
-----------------------------------------------------------------------------
(* Journals *)

LEMMA Journaled ==
    ASSUME journal \in Seq(Ops), NEW op \in Ops, journal' = Append(journal, op)
    PROVE  /\ journal' \in Seq(Ops)
           /\ DOMAIN journal = 1 .. Len(journal) /\ Len(journal) \in Nat
           /\ Len(journal') = Len(journal) + 1
           /\ DOMAIN journal' = 1 .. Len(journal) + 1
           /\ \A i \in DOMAIN journal : journal'[i] = journal[i]
           /\ journal'[Len(journal) + 1] = op
           /\ Visible' = Visible \cup {op}
<1>1. /\ journal' \in Seq(Ops)
      /\ DOMAIN journal = 1 .. Len(journal) /\ Len(journal) \in Nat
      /\ Len(journal') = Len(journal) + 1
      /\ DOMAIN journal' = 1 .. Len(journal) + 1
      /\ \A i \in DOMAIN journal : journal'[i] = journal[i]
      /\ journal'[Len(journal) + 1] = op
  OBVIOUS
<1>2. Visible' = Visible \cup {op}
  BY <1>1 DEF Visible, Range
<1> QED  BY <1>1, <1>2

LEMMA Truncated ==
    ASSUME journal \in Seq(Ops), NEW n \in 0 .. Len(journal), journal' = SubSeq(journal, 1, n)
    PROVE  /\ journal' \in Seq(Ops)
           /\ DOMAIN journal = 1 .. Len(journal) /\ Len(journal) \in Nat
           /\ Len(journal') = n /\ DOMAIN journal' = 1 .. n
           /\ \A i \in 1 .. n : journal'[i] = journal[i]
           /\ Visible' \subseteq Visible
           /\ Visible' = {journal[i] : i \in 1 .. n}
<1>1. /\ journal' \in Seq(Ops)
      /\ DOMAIN journal = 1 .. Len(journal) /\ Len(journal) \in Nat
      /\ Len(journal') = n /\ DOMAIN journal' = 1 .. n
      /\ \A i \in 1 .. n : journal'[i] = journal[i]
  OBVIOUS
<1>2. Visible' = {journal[i] : i \in 1 .. n}
  BY <1>1 DEF Visible, Range
<1>3. Visible' \subseteq Visible
  BY <1>1, <1>2 DEF Visible, Range
<1> QED  BY <1>1, <1>2, <1>3

LEMMA InJournal ==
    ASSUME journal \in Seq(Ops), NEW op
    PROVE  op \in Visible <=> \E i \in 1 .. Len(journal) : journal[i] = op
  BY DEF Visible, Range

LEMMA Wholes == DTypeOK /\ OrderInv /\ SyncInv => MarkedIsWhole
<1> SUFFICES ASSUME DTypeOK, OrderInv, SyncInv,
                    NEW a \in Attempts, <<a, "rename">> \in Visible, NEW x \in Parts
             PROVE  <<a, x>> \in Visible /\ <<a, x>> \notin torn
  BY DEF MarkedIsWhole, Whole
<1> USE DEF DTypeOK
<1>1. PICK i \in 1 .. Len(journal) : journal[i] = <<a, "rename">>
  BY InJournal
<1>2. DOMAIN journal = 1 .. Len(journal) /\ Len(journal) \in Nat
  OBVIOUS
<1>3. Before(i, <<a, x>>)
  BY <1>1, <1>2 DEF OrderInv
<1>4. <<a, x>> \in Visible
  BY <1>2, <1>3, InJournal DEF Before
<1>5. <<a, x>> \notin torn
  <2>1. CASE x \in Staged
    BY <2>1 DEF SyncInv
  <2>2. CASE x = "marker"
    BY <2>2, PartsAssumption DEF Data, PartsAssumption, Blobs
  <2> QED  BY <2>1, <2>2 DEF Parts, Blobs, Staged
<1> QED  BY <1>4, <1>5
-----------------------------------------------------------------------------
(* What every step of an attempt has in common *)

LEMMA StepFacts ==
    ASSUME DTypeOK, NEW a \in Attempts, DStep(a)
    PROVE  /\ torn' = torn /\ outages' = outages
           /\ \A b \in Attempts : b # a => stage'[b] = stage[b] /\ result'[b] = result[b]
           /\ stage[a] \notin {"done", "dead"} /\ stage'[a] # "idle"
           /\ synced \subseteq synced' /\ synced' \ synced \subseteq {a} \X (Parts \cup {"line"})
           /\ trouble \subseteq trouble' /\ trouble' \subseteq trouble \cup {a}
           /\ mirrored \subseteq mirrored' /\ mirrored' \subseteq mirrored \cup {a}
           /\ \/ journal' = journal /\ durable' \in {durable, Len(journal)}
              \/ /\ \E x \in Parts \cup {"rename", "line"} : journal' = Append(journal, <<a, x>>)
                 /\ durable' = durable
<1> USE DEF DTypeOK, At, Record, Answer, Fail, Sync, disk
<1>1. CASE Start(a)        BY <1>1 DEF Start
<1>2. CASE Check(a)        BY <1>2 DEF Check
<1>3. CASE Copy(a)         BY <1>3 DEF Copy, Parts
<1>4. CASE SyncTree(a)
  <2>1. ASSUME NEW p \in Paths, Sync(a, p) PROVE synced' \ synced \subseteq {a} \X (Parts \cup {"line"})
    BY <2>1 DEF Parts
  <2>2. synced \subseteq synced' /\ synced' \ synced \subseteq {a} \X (Parts \cup {"line"})
    BY <1>4, <2>1 DEF SyncTree
  <2> QED  BY <1>4, <2>2 DEF SyncTree
<1>5. CASE WriteAtt(a)     BY <1>5 DEF WriteAtt, WriteBlob, Parts, Blobs
<1>6. CASE WriteReceipt(a) BY <1>6 DEF WriteReceipt, WriteBlob, Parts, Blobs
<1>7. CASE WriteMarker(a)  BY <1>7 DEF WriteMarker, WriteBlob, Parts, Blobs
<1>8. CASE SyncDir(a)      BY <1>8 DEF SyncDir
<1>9. CASE Replace(a)      BY <1>9 DEF Replace
<1>10. CASE ReplaceFails(a) BY <1>10 DEF ReplaceFails
<1>11. CASE AssertStored(a) BY <1>11 DEF AssertStored
<1>12. CASE StageFails(a)  BY <1>12 DEF StageFails
<1>13. CASE Mirror(a)      BY <1>13 DEF Mirror
<1>14. CASE MirrorFails(a) BY <1>14 DEF MirrorFails
<1> QED  BY <1>1, <1>2, <1>3, <1>4, <1>5, <1>6, <1>7, <1>8, <1>9, <1>10, <1>11, <1>12,
            <1>13, <1>14 DEF DStep

LEMMA DTypeStep ==
    ASSUME DTypeOK, NEW a \in Attempts, DStep(a)
    PROVE  DTypeOK'
<1> USE DEF DTypeOK
<1>1. /\ \/ journal' = journal /\ durable' \in {durable, Len(journal)}
         \/ /\ \E x \in Parts \cup {"rename", "line"} : journal' = Append(journal, <<a, x>>)
            /\ durable' = durable
      /\ torn' = torn /\ outages' = outages
      /\ synced' \ synced \subseteq {a} \X (Parts \cup {"line"})
      /\ trouble' \subseteq trouble \cup {a} /\ mirrored' \subseteq mirrored \cup {a}
  BY StepFacts
<1>2. journal' \in Seq(Ops) /\ durable' \in 0 .. Len(journal')
  <2>1. CASE journal' = journal /\ durable' \in {durable, Len(journal)}
    BY <2>1
  <2>2. ASSUME NEW x \in Parts \cup {"rename", "line"},
               journal' = Append(journal, <<a, x>>), durable' = durable
        PROVE  journal' \in Seq(Ops) /\ durable' \in 0 .. Len(journal')
    <3>1. <<a, x>> \in Ops
      BY DEF Ops
    <3> QED  BY <2>2, <3>1, Journaled
  <2> QED  BY <1>1, <2>1, <2>2
<1>3. synced' \subseteq Ops
  BY <1>1 DEF Ops
<1>4. stage' \in [Attempts -> Stages] /\ result' \in [Attempts -> Results]
  <2> USE DEF At, Answer, disk, Stages, Results
  <2>1. stage' \in [Attempts -> Stages]
    BY DEF DStep, Start, Check, Copy, SyncTree, WriteAtt, WriteReceipt, WriteMarker, WriteBlob,
           SyncDir, Replace, ReplaceFails, AssertStored, StageFails, Mirror, MirrorFails
  <2>2. result' \in [Attempts -> Results]
    BY DEF DStep, Start, Check, Copy, SyncTree, WriteAtt, WriteReceipt, WriteMarker, WriteBlob,
           SyncDir, Replace, ReplaceFails, AssertStored, StageFails, Mirror, MirrorFails
  <2> QED  BY <2>1, <2>2
<1> QED  BY <1>1, <1>2, <1>3, <1>4

(* Who may change its answer has no line yet. *)
LEMMA AnswerBeforeLine ==
    ASSUME DTypeOK, NEW a \in Attempts, DStep(a), result'[a] # result[a]
    PROVE  stage[a] \notin {"line", "done", "dead"}
  BY DEF DTypeOK, DStep, Start, Check, Copy, SyncTree, WriteAtt, WriteReceipt, WriteMarker,
         WriteBlob, SyncDir, Replace, ReplaceFails, AssertStored, StageFails, Mirror, MirrorFails,
         At, Answer, disk

(* What enters the journal, by the stage its attempt is at. *)
LEMMA RecordedAt ==
    ASSUME DTypeOK, NEW a \in Attempts, DStep(a), journal' # journal
    PROVE  \E x \in Parts \cup {"rename", "line"} :
              /\ journal' = Append(journal, <<a, x>>)
              /\ \/ x = "rename" /\ stage[a] = "replace"
                 \/ /\ x = "line" /\ stage[a] = "line" /\ stage'[a] = "line"
                    /\ result'[a] = result[a]
                 \/ /\ x \in Parts /\ stage'[a] = stage[a]
                    /\ stage[a] = x \/ (stage[a] = "copy" /\ x \in Paths)
<1> USE DEF DTypeOK, At, Record, Answer, disk, Parts, Blobs
<1>1. CASE Copy(a)          BY <1>1 DEF Copy
<1>2. CASE WriteAtt(a)      BY <1>2 DEF WriteAtt, WriteBlob
<1>3. CASE WriteReceipt(a)  BY <1>3 DEF WriteReceipt, WriteBlob
<1>4. CASE WriteMarker(a)   BY <1>4 DEF WriteMarker, WriteBlob
<1>5. CASE Replace(a)       BY <1>5 DEF Replace
<1>6. CASE Mirror(a)        BY <1>6 DEF Mirror
<1> QED  BY <1>1, <1>2, <1>3, <1>4, <1>5, <1>6
         DEF DStep, Start, Check, SyncTree, SyncDir, ReplaceFails, AssertStored, StageFails, MirrorFails

LEMMA VisibleGrows ==
    ASSUME DTypeOK, NEW a \in Attempts, DStep(a)
    PROVE  Visible \subseteq Visible'
<1>1. CASE journal' = journal
  BY <1>1 DEF Visible
<1>2. ASSUME NEW x \in Parts \cup {"rename", "line"}, journal' = Append(journal, <<a, x>>)
      PROVE  Visible \subseteq Visible'
  BY <1>2, Journaled DEF DTypeOK, Ops
<1> QED  BY <1>1, <1>2, StepFacts
-----------------------------------------------------------------------------
(* The order of the journal *)

LEMMA OrderStep ==
    ASSUME DInv, NEW a \in Attempts, DStep(a)
    PROVE  OrderInv'
<1> USE DEF DInv
<1>0. /\ journal \in Seq(Ops) /\ DOMAIN journal = 1 .. Len(journal) /\ Len(journal) \in Nat
      /\ durable \in 0 .. Len(journal)
  BY DEF DTypeOK
<1>1. /\ \A b \in Attempts : b # a => stage'[b] = stage[b] /\ result'[b] = result[b]
      /\ mirrored \subseteq mirrored' /\ mirrored' \subseteq mirrored \cup {a}
  BY StepFacts
<1>2. \A b \in Attempts : <<b, "line">> \in Visible => result'[b] = result[b]
  BY <1>1, AnswerBeforeLine DEF StageInv
<1>3. \A b \in mirrored' : \E i \in 1 .. durable' : journal'[i] = <<b, "line">>
  <2> SUFFICES ASSUME NEW b \in mirrored'
               PROVE  \E i \in 1 .. durable' : journal'[i] = <<b, "line">>
    OBVIOUS
  <2>1. CASE b \in mirrored
    <3>1. PICK i \in 1 .. durable : journal[i] = <<b, "line">>
      BY <2>1 DEF OrderInv
    <3>2. CASE journal' = journal /\ durable' \in {durable, Len(journal)}
      <4>1. i \in 1 .. durable'
        BY <3>2, <1>0
      <4> QED  BY <4>1, <3>1, <3>2
    <3>3. ASSUME NEW x \in Parts \cup {"rename", "line"},
                 journal' = Append(journal, <<a, x>>), durable' = durable
          PROVE  \E k \in 1 .. durable' : journal'[k] = <<b, "line">>
      <4>1. journal'[i] = journal[i]
        BY <3>3, <1>0, Journaled DEF Ops
      <4> QED  BY <4>1, <3>1, <3>3
    <3> QED  BY <3>2, <3>3, StepFacts DEF DTypeOK
  <2>2. CASE b \notin mirrored
    <3>1. b = a /\ mirrored' # mirrored
      BY <2>2, <1>1
    <3>2. <<a, "line">> \in Visible /\ durable' = Len(journal) /\ journal' = journal
      BY <3>1 DEF DStep, Start, Check, Copy, SyncTree, WriteAtt, WriteReceipt, WriteMarker,
           WriteBlob, SyncDir, Replace, ReplaceFails, AssertStored, StageFails, Mirror,
           MirrorFails, Sync
    <3>3. PICK i \in 1 .. Len(journal) : journal[i] = <<a, "line">>
      BY <3>2, <1>0, InJournal
    <3> QED  BY <3>1, <3>2, <3>3
  <2> QED  BY <2>1, <2>2
<1>4. CASE journal' = journal
  <2>1. \A i \in DOMAIN journal : \A b \in Attempts :
           journal[i] = <<b, "line">> => result'[b] = result[b]
    BY <1>2, <1>0, InJournal
  <2> QED  BY <1>3, <1>4, <2>1 DEF OrderInv, Before
<1>5. CASE journal' # journal
  <2>1. PICK x \in Parts \cup {"rename", "line"} :
              /\ journal' = Append(journal, <<a, x>>)
              /\ x = "rename" => stage[a] = "replace"
              /\ x = "line" => stage[a] = "line" /\ result'[a] = result[a]
    BY <1>5, RecordedAt, PartsAssumption DEF PartsAssumption, Parts, Blobs
  <2>2. PICK n \in Nat : n = Len(journal) + 1
    BY <1>0
  <2>3. /\ DOMAIN journal' = 1 .. n /\ journal'[n] = <<a, x>>
        /\ \A i \in DOMAIN journal : journal'[i] = journal[i]
    BY <2>1, <2>2, <1>0, Journaled DEF Ops
  <2>4. \A i \in DOMAIN journal : \A op : Before(i, op) => Before(i, op)'
    BY <2>3, <1>0 DEF Before
  <2>5. \A op \in Visible : \E j \in 1 .. (n - 1) : journal'[j] = op
    <3> SUFFICES ASSUME NEW op \in Visible PROVE \E j \in 1 .. (n - 1) : journal'[j] = op
      OBVIOUS
    <3>1. PICK i \in 1 .. Len(journal) : journal[i] = op
      BY <1>0, InJournal
    <3> QED  BY <3>1, <2>2, <2>3, <1>0
  <2>6. \A b \in Attempts : journal'[n] = <<b, "rename">> =>
           \A y \in Parts : \E j \in 1 .. (n - 1) : journal'[j] = <<b, y>>
    <3> SUFFICES ASSUME NEW b \in Attempts, journal'[n] = <<b, "rename">>, NEW y \in Parts
                 PROVE  \E j \in 1 .. (n - 1) : journal'[j] = <<b, y>>
      OBVIOUS
    <3>1. b = a /\ x = "rename"
      BY <2>3
    <3>2. <<a, y>> \in Visible
      BY <3>1, <2>1 DEF StageInv, Progress, Parts, Blobs
    <3> QED  BY <3>1, <3>2, <2>5
  <2>7. \A b \in Attempts : (journal'[n] = <<b, "line">> /\ result'[b] \in Success) =>
           \E c \in Attempts : \E j \in 1 .. (n - 1) : journal'[j] = <<c, "rename">>
    <3> SUFFICES ASSUME NEW b \in Attempts, journal'[n] = <<b, "line">>, result'[b] \in Success
                 PROVE  \E c \in Attempts : \E j \in 1 .. (n - 1) : journal'[j] = <<c, "rename">>
      OBVIOUS
    <3>1. b = a /\ x = "line"
      BY <2>3
    <3>2. PICK c \in Attempts : <<c, "rename">> \in Visible
      BY <3>1, <2>1 DEF StageInv, Committed
    <3> QED  BY <3>2, <2>5
  <2>8. DOMAIN journal' = DOMAIN journal \cup {n}
    BY <2>2, <2>3, <1>0
  <2>9. \A i \in DOMAIN journal' : \A b \in Attempts :
           journal'[i] = <<b, "rename">> => \A y \in Parts : Before(i, <<b, y>>)'
    <3> SUFFICES ASSUME NEW i \in DOMAIN journal', NEW b \in Attempts,
                        journal'[i] = <<b, "rename">>, NEW y \in Parts
                 PROVE  Before(i, <<b, y>>)'
      OBVIOUS
    <3>1. CASE i = n
      BY <3>1, <2>6 DEF Before
    <3>2. CASE i \in DOMAIN journal
      BY <3>2, <2>3, <2>4 DEF OrderInv
    <3> QED  BY <3>1, <3>2, <2>8
  <2>10. \A i \in DOMAIN journal' : \A b \in Attempts :
           (journal'[i] = <<b, "line">> /\ result'[b] \in Success)
              => \E c \in Attempts : Before(i, <<c, "rename">>)'
    <3> SUFFICES ASSUME NEW i \in DOMAIN journal', NEW b \in Attempts,
                        journal'[i] = <<b, "line">>, result'[b] \in Success
                 PROVE  \E c \in Attempts : Before(i, <<c, "rename">>)'
      OBVIOUS
    <3>1. CASE i = n
      BY <3>1, <2>7 DEF Before
    <3>2. CASE i \in DOMAIN journal
      <4>1. journal[i] = <<b, "line">> /\ result[b] \in Success
        BY <3>2, <2>3, <1>2, <1>0, InJournal
      <4>2. PICK c \in Attempts : Before(i, <<c, "rename">>)
        BY <4>1, <3>2 DEF OrderInv
      <4> QED  BY <4>2, <3>2, <2>4
    <3> QED  BY <3>1, <3>2, <2>8
  <2> QED  BY <1>3, <2>9, <2>10 DEF OrderInv
<1> QED  BY <1>4, <1>5
-----------------------------------------------------------------------------
(* What is synced, how far a promotion has come, who is scarred *)

LEMMA SyncStep ==
    ASSUME DInv, NEW a \in Attempts, DStep(a)
    PROVE  SyncInv'
<1> USE DEF DInv
<1>1. /\ torn' = torn /\ synced \subseteq synced'
      /\ synced' \ synced \subseteq {a} \X (Parts \cup {"line"})
      /\ \A b \in Attempts : b # a => stage'[b] = stage[b]
      /\ stage[a] \notin {"done", "dead"}
      /\ mirrored \subseteq mirrored' /\ mirrored' \subseteq mirrored \cup {a}
  BY StepFacts
<1>2. \A b \in Attempts : <<b, "rename">> \in Visible' => \A x \in Staged : <<b, x>> \in synced'
  <2>1. CASE journal' = journal
    BY <2>1, <1>1 DEF SyncInv, Visible
  <2>2. CASE journal' # journal
    <3>1. PICK x \in Parts \cup {"rename", "line"} :
              /\ journal' = Append(journal, <<a, x>>)
              /\ x = "rename" => stage[a] = "replace"
      BY <2>2, RecordedAt, PartsAssumption DEF PartsAssumption, Parts, Blobs
    <3>2. Visible' = Visible \cup {<<a, x>>}
      BY <3>1, Journaled DEF DTypeOK, Ops
    <3>3. x = "rename" => \A y \in Staged : <<a, y>> \in synced
      BY <3>1 DEF StageInv, Progress, Staged
    <3> QED  BY <3>2, <3>3, <1>1 DEF SyncInv
  <2> QED  BY <2>1, <2>2
<1>3. \A b \in mirrored' : <<b, "line">> \in synced'
  <2>1. mirrored' # mirrored => <<a, "line">> \in synced'
    BY DEF DStep, Start, Check, Copy, SyncTree, WriteAtt, WriteReceipt, WriteMarker, WriteBlob,
           SyncDir, Replace, ReplaceFails, AssertStored, StageFails, Mirror, MirrorFails, Sync
  <2> QED  BY <2>1, <1>1 DEF SyncInv
<1>4. synced' \cap torn' = {}
  BY <1>1 DEF SyncInv
<1>5. \A b \in Attempts : \A x : <<b, x>> \in torn' => stage'[b] \in {"done", "dead"}
  BY <1>1 DEF SyncInv
<1> QED  BY <1>2, <1>3, <1>4, <1>5 DEF SyncInv

LEMMA ProgressStep ==
    ASSUME DTypeOK, NEW a \in Attempts, DStep(a), Progress(a)
    PROVE  Progress(a)'
<1>1. Visible \subseteq Visible' /\ synced \subseteq synced'
  BY VisibleGrows, StepFacts
<1> USE DEF DTypeOK, At, Record, Answer, disk
<1>2. CASE stage'[a] = stage[a]
  BY <1>1, <1>2 DEF Progress
<1>3. CASE stage'[a] \in {"check", "copy", "assert", "line", "done"}
  BY <1>3 DEF Progress
<1>4. CASE Copy(a) /\ stage'[a] = "syncTree"
  BY <1>1, <1>4 DEF Copy, Progress
<1>5. CASE SyncTree(a) /\ stage'[a] = "att"
  BY <1>1, <1>5 DEF SyncTree, Progress
<1>6. CASE WriteAtt(a) /\ stage'[a] = "receipt"
  BY <1>1, <1>6 DEF WriteAtt, WriteBlob, Sync, Progress
<1>7. CASE WriteReceipt(a) /\ stage'[a] = "marker"
  BY <1>1, <1>7 DEF WriteReceipt, WriteBlob, Sync, Progress
<1>8. CASE WriteMarker(a) /\ stage'[a] = "syncDir"
  BY <1>1, <1>8 DEF WriteMarker, WriteBlob, Sync, Progress
<1>9. CASE SyncDir(a)
  BY <1>1, <1>9 DEF SyncDir, Progress
<1> QED  BY <1>2, <1>3, <1>4, <1>5, <1>6, <1>7, <1>8, <1>9
         DEF DStep, Start, Check, Copy, SyncTree, WriteAtt, WriteReceipt, WriteMarker, WriteBlob,
             Replace, ReplaceFails, AssertStored, StageFails, Mirror, MirrorFails

LEMMA StageStep ==
    ASSUME DInv, NEW a \in Attempts, DStep(a)
    PROVE  StageInv'
<1> USE DEF DInv
<1>1. /\ \A b \in Attempts : b # a => stage'[b] = stage[b] /\ result'[b] = result[b]
      /\ synced \subseteq synced' /\ stage'[a] # "idle" /\ stage[a] \notin {"done", "dead"}
      /\ mirrored \subseteq mirrored' /\ mirrored' \subseteq mirrored \cup {a}
  BY StepFacts
<1>2. Visible \subseteq Visible'
  BY VisibleGrows
<1>3. \A b \in Attempts : Progress(b)'
  <2>1. Progress(a)'
    BY ProgressStep DEF StageInv, Progress
  <2>2. ASSUME NEW b \in Attempts, b # a PROVE Progress(b)'
    BY <2>2, <1>1, <1>2 DEF StageInv, Progress
  <2> QED  BY <2>1, <2>2
<1>4. Committed => Committed'
  BY <1>2 DEF Committed
<1>5. \A b \in Attempts : (stage'[b] = "line" /\ result'[b] \in Success) => Committed'
  <2>1. (stage'[a] = "line" /\ result'[a] \in Success) => Committed'
    <3> USE DEF DTypeOK, At, Record, Answer, disk, Success
    <3>1. CASE Replace(a)
      <4>1. CASE journal' = Append(journal, <<a, "rename">>)
        <5>1. <<a, "rename">> \in Visible'
          BY <4>1, Journaled DEF Ops
        <5> QED  BY <5>1 DEF Committed
      <4>2. CASE stage'[a] = "assert"
        BY <4>2
      <4> QED  BY <3>1, <4>1, <4>2 DEF Replace
    <3>2. CASE ReplaceFails(a)
      BY <3>2 DEF ReplaceFails
    <3>3. CASE AssertStored(a)
      BY <3>3, <1>4 DEF AssertStored, Committed
    <3>4. CASE StageFails(a)
      BY <3>4 DEF StageFails
    <3>5. CASE Mirror(a)
      BY <3>5, <1>4 DEF Mirror, StageInv
    <3> QED  BY <3>1, <3>2, <3>3, <3>4, <3>5
             DEF DStep, Start, Check, Copy, SyncTree, WriteAtt, WriteReceipt, WriteMarker,
                 WriteBlob, SyncDir, MirrorFails
  <2> QED  BY <2>1, <1>1, <1>4 DEF StageInv
<1>6. \A b \in Attempts : <<b, "line">> \in Visible' => stage'[b] \in {"line", "done", "dead"}
  <2>1. CASE journal' = journal
    <3>1. stage[a] = "line" => stage'[a] \in {"line", "done"}
      BY DEF DTypeOK, DStep, Start, Check, Copy, SyncTree, WriteAtt, WriteReceipt, WriteMarker,
             WriteBlob, SyncDir, Replace, ReplaceFails, AssertStored, StageFails, Mirror,
             MirrorFails, At
    <3> QED  BY <2>1, <3>1, <1>1 DEF StageInv, Visible
  <2>2. CASE journal' # journal
    <3>1. PICK x \in Parts \cup {"rename", "line"} :
              /\ journal' = Append(journal, <<a, x>>)
              /\ x = "line" => stage'[a] = "line"
              /\ stage[a] = "line" => stage'[a] = "line"
      BY <2>2, RecordedAt, PartsAssumption DEF PartsAssumption, Parts, Blobs
    <3>2. Visible' = Visible \cup {<<a, x>>}
      BY <3>1, Journaled DEF DTypeOK, Ops
    <3> QED  BY <3>1, <3>2, <1>1 DEF StageInv
  <2> QED  BY <2>1, <2>2
<1>7. \A b \in Attempts : b \in mirrored' => stage'[b] = "done"
  <2>1. mirrored' # mirrored => stage'[a] = "done"
    BY DEF DTypeOK, DStep, Start, Check, Copy, SyncTree, WriteAtt, WriteReceipt, WriteMarker,
           WriteBlob, SyncDir, Replace, ReplaceFails, AssertStored, StageFails, Mirror, MirrorFails,
           At
  <2>2. a \notin mirrored
    BY <1>1 DEF StageInv
  <2> QED  BY <2>1, <2>2, <1>1 DEF StageInv
<1>8. \A b \in Attempts : stage'[b] = "idle" => \A x : <<b, x>> \notin Visible'
  <2> SUFFICES ASSUME NEW b \in Attempts, stage'[b] = "idle", NEW x, <<b, x>> \in Visible'
               PROVE  FALSE
    OBVIOUS
  <2>1. b # a /\ stage[b] = "idle"
    BY <1>1
  <2>2. <<b, x>> \in Visible
    <3>1. CASE journal' = journal
      BY <3>1 DEF Visible
    <3>2. ASSUME NEW y \in Parts \cup {"rename", "line"}, journal' = Append(journal, <<a, y>>)
          PROVE  <<b, x>> \in Visible
      <4>1. Visible' = Visible \cup {<<a, y>>}
        BY <3>2, Journaled DEF DTypeOK, Ops
      <4> QED  BY <4>1, <2>1
    <3> QED  BY <3>1, <3>2, StepFacts
  <2> QED  BY <2>1, <2>2 DEF StageInv
<1> QED  BY <1>3, <1>5, <1>6, <1>7, <1>8 DEF StageInv, Progress

LEMMA ScarStep ==
    ASSUME DInv, NEW a \in Attempts, DStep(a)
    PROVE  OutagesLeaveNoScar'
<1> USE DEF DInv
<1>1. /\ \A b \in Attempts : b # a => result'[b] = result[b]
      /\ trouble \subseteq trouble'
  BY StepFacts
<1>2. (result'[a] \in {"refused", "failed"} /\ result'[a] # result[a]) => a \in trouble'
  <2> USE DEF DTypeOK, At, Answer, disk, Fail
  <2>1. CASE AssertStored(a)
    <3>1. PICK b \in Attempts :
              /\ <<b, "rename">> \in Visible
              /\ Answer(a, IF \A x \in Paths \cup {"att"} :
                                 <<b, x>> \in Visible /\ <<b, x>> \notin torn
                           THEN "present" ELSE "refused")
      BY <2>1 DEF AssertStored
    <3>2. Whole(b)
      BY <3>1, Wholes DEF MarkedIsWhole
    <3>3. result'[a] = "present"
      BY <3>1, <3>2 DEF Whole, Parts, Blobs
    <3> QED  BY <3>3
  <2>2. CASE ReplaceFails(a)
    BY <2>2 DEF ReplaceFails
  <2>3. CASE StageFails(a)
    BY <2>3 DEF StageFails
  <2>4. CASE Replace(a)
    BY <2>4 DEF Replace
  <2> QED  BY <2>1, <2>2, <2>3, <2>4
           DEF DStep, Start, Check, Copy, SyncTree, WriteAtt, WriteReceipt, WriteMarker,
               WriteBlob, SyncDir, Mirror, MirrorFails
<1> QED  BY <1>1, <1>2 DEF OutagesLeaveNoScar
-----------------------------------------------------------------------------
(* The outage *)

LEMMA OutageStep ==
    ASSUME DInv, PowerLoss
    PROVE  DInv'
<1> USE DEF DInv
<1>1. PICK n \in durable .. Len(journal) :
          /\ journal' = SubSeq(journal, 1, n) /\ durable' = n
          /\ \E lost \in SUBSET ((Data \cap Range(SubSeq(journal, 1, n))) \ synced) :
                torn' = torn \cup lost
  BY DEF PowerLoss
<1>2. n \in 0 .. Len(journal) /\ durable \in 0 .. n
  BY <1>1 DEF DTypeOK
<1>3. /\ journal' \in Seq(Ops)
      /\ DOMAIN journal = 1 .. Len(journal) /\ Len(journal) \in Nat
      /\ Len(journal') = n /\ DOMAIN journal' = 1 .. n
      /\ \A i \in 1 .. n : journal'[i] = journal[i]
      /\ Visible' \subseteq Visible
      /\ Visible' = {journal[i] : i \in 1 .. n}
  BY <1>1, <1>2, Truncated DEF DTypeOK
<1>4. /\ UNCHANGED <<synced, result, mirrored, trouble>>
      /\ stage' = [a \in Attempts |-> IF stage[a] \in {"idle", "done"} THEN stage[a] ELSE "dead"]
  BY DEF PowerLoss
<1>5. \A i \in 1 .. n : \A op : Before(i, op) => Before(i, op)'
  BY <1>3, <1>2 DEF Before
<1>6. DTypeOK'
  <2>1. torn' \in SUBSET Data
    BY <1>1 DEF DTypeOK
  <2>2. outages' \in 0 .. MaxOutages
    BY DiskAssumption DEF PowerLoss, DTypeOK, DiskAssumption
  <2>3. stage' \in [Attempts -> Stages]
    BY <1>4 DEF DTypeOK, Stages
  <2>4. durable' \in 0 .. Len(journal')
    BY <1>1, <1>2, <1>3
  <2> QED  BY <2>1, <2>2, <2>3, <2>4, <1>3, <1>4 DEF DTypeOK
<1>7. OrderInv'
  <2>1. \A i \in 1 .. n : i \in DOMAIN journal
    BY <1>2, <1>3
  <2>2. \A a \in mirrored : \E i \in 1 .. n : journal[i] = <<a, "line">>
    BY <1>2 DEF OrderInv
  <2>3. \A i \in DOMAIN journal' : \A a \in Attempts :
           journal'[i] = <<a, "rename">> => \A x \in Parts : Before(i, <<a, x>>)'
    BY <2>1, <1>3, <1>5 DEF OrderInv
  <2>4. \A i \in DOMAIN journal' : \A a \in Attempts :
           (journal'[i] = <<a, "line">> /\ result'[a] \in Success)
              => \E b \in Attempts : Before(i, <<b, "rename">>)'
    <3> SUFFICES ASSUME NEW i \in DOMAIN journal', NEW a \in Attempts,
                        journal'[i] = <<a, "line">>, result'[a] \in Success
                 PROVE  \E b \in Attempts : Before(i, <<b, "rename">>)'
      OBVIOUS
    <3>1. i \in 1 .. n /\ journal[i] = <<a, "line">> /\ result[a] \in Success
      BY <1>3, <1>4
    <3>2. PICK b \in Attempts : Before(i, <<b, "rename">>)
      BY <3>1, <2>1 DEF OrderInv
    <3> QED  BY <3>1, <3>2, <1>5
  <2>5. \A a \in mirrored' : \E i \in 1 .. durable' : journal'[i] = <<a, "line">>
    BY <2>2, <1>1, <1>3, <1>4
  <2> QED  BY <2>3, <2>4, <2>5 DEF OrderInv
<1>8. \A a \in Attempts : stage[a] \in {"idle", "done", "dead"} \/ stage'[a] = "dead"
  BY <1>4
<1>9. SyncInv'
  <2>1. synced' \cap torn' = {}
    BY <1>1, <1>4 DEF SyncInv
  <2>2. \A a \in Attempts : \A x : <<a, x>> \in torn' => stage'[a] \in {"done", "dead"}
    <3> SUFFICES ASSUME NEW a \in Attempts, NEW x, <<a, x>> \in torn'
                 PROVE  stage[a] # "idle"
      BY <1>4 DEF DTypeOK
    <3>1. CASE <<a, x>> \in torn
      BY <3>1 DEF SyncInv
    <3>2. CASE <<a, x>> \notin torn
      <4>1. <<a, x>> \in Range(SubSeq(journal, 1, n))
        BY <3>2, <1>1
      <4>2. <<a, x>> \in Visible
        BY <4>1, <1>1, <1>3 DEF Visible
      <4> QED  BY <4>2 DEF StageInv
    <3> QED  BY <3>1, <3>2
  <2> QED  BY <2>1, <2>2, <1>3, <1>4 DEF SyncInv
<1>10. StageInv'
  <2>1. \A a \in Attempts : Progress(a)'
    BY <1>4 DEF Progress, DTypeOK
  <2>2. \A a \in Attempts : stage'[a] # "line"
    BY <1>4
  <2>3. \A a \in Attempts : <<a, "line">> \in Visible' => stage'[a] \in {"line", "done", "dead"}
    BY <1>3, <1>4 DEF StageInv
  <2>4. \A a \in Attempts : a \in mirrored' => stage'[a] = "done"
    BY <1>4 DEF StageInv
  <2>5. \A a \in Attempts : stage'[a] = "idle" => \A x : <<a, x>> \notin Visible'
    BY <1>3, <1>4 DEF StageInv
  <2> QED  BY <2>1, <2>2, <2>3, <2>4, <2>5 DEF StageInv
<1>11. OutagesLeaveNoScar'
  BY <1>4 DEF OutagesLeaveNoScar
<1> QED  BY <1>6, <1>7, <1>9, <1>10, <1>11
-----------------------------------------------------------------------------
LEMMA DInitInv == DInit => DInv
<1> SUFFICES ASSUME DInit PROVE DInv
  OBVIOUS
<1> USE DEF DInit
<1>1. Visible = {}
  BY DEF Visible, Range
<1>2. DTypeOK
  BY DiskAssumption DEF DTypeOK, DiskAssumption, Stages, Results
<1>3. OrderInv
  BY DEF OrderInv
<1>4. SyncInv
  BY <1>1 DEF SyncInv
<1>5. StageInv
  BY <1>1 DEF StageInv, Progress
<1>6. OutagesLeaveNoScar
  BY DEF OutagesLeaveNoScar
<1> QED  BY <1>2, <1>3, <1>4, <1>5, <1>6 DEF DInv

LEMMA DInvInductive == DInv /\ [DNext]_dvars => DInv'
<1> SUFFICES ASSUME DInv, [DNext]_dvars PROVE DInv'
  OBVIOUS
<1>1. ASSUME NEW a \in Attempts, DStep(a) PROVE DInv'
  BY <1>1, DTypeStep, OrderStep, SyncStep, StageStep, ScarStep DEF DInv
<1>2. CASE PowerLoss
  BY <1>2, OutageStep
<1>3. CASE UNCHANGED dvars
  <2> USE <1>3 DEF dvars, DInv, Visible
  <2>1. DTypeOK'
    BY DEF DTypeOK
  <2>2. OrderInv'
    BY DEF OrderInv, Before
  <2>3. SyncInv'
    BY DEF SyncInv
  <2>4. StageInv'
    BY DEF StageInv, Progress, Committed
  <2>5. OutagesLeaveNoScar'
    BY DEF OutagesLeaveNoScar
  <2> QED  BY <2>1, <2>2, <2>3, <2>4, <2>5
<1> QED  BY <1>1, <1>2, <1>3 DEF DNext, DEnded

THEOREM DurableInvariant == DSpec => []DInv
  BY DInitInv, DInvInductive, PTL DEF DSpec

(* The type invariant of the store on a disk, for any attempts and outages. *)
THEOREM DurableTypeCorrect == DSpec => []DTypeOK
  BY DurableInvariant, PTL DEF DInv

(* No outage finds half of an entry under its digest (local_fs.py:9-11, 61-64). *)
THEOREM MarkedIsWholeHolds == DSpec => []MarkedIsWhole
<1>1. DInv => MarkedIsWhole
  BY Wholes DEF DInv
<1> QED  BY <1>1, DurableInvariant, PTL

(* No outage leaves a success in the index without its entry (promote.py:248-268,
   audit.py:51-54). *)
THEOREM RecordedIsStoredHolds == DSpec => []RecordedIsStored
<1>1. ASSUME DInv PROVE RecordedIsStored
  <2> SUFFICES ASSUME NEW a \in Attempts, <<a, "line">> \in Visible, result[a] \in Success
               PROVE  Committed
    BY DEF RecordedIsStored
  <2> USE <1>1 DEF DInv
  <2>1. journal \in Seq(Ops) /\ DOMAIN journal = 1 .. Len(journal) /\ Len(journal) \in Nat
    BY DEF DTypeOK
  <2>2. PICK i \in 1 .. Len(journal) : journal[i] = <<a, "line">>
    BY <2>1, InJournal
  <2>3. PICK b \in Attempts : Before(i, <<b, "rename">>)
    BY <2>1, <2>2 DEF OrderInv
  <2>4. <<b, "rename">> \in Visible
    BY <2>1, <2>3, InJournal DEF Before
  <2> QED  BY <2>4 DEF Committed
<1> QED  BY <1>1, DurableInvariant, PTL

(* A success that promote_artifact has mirrored survives every later outage,
   entry and line (audit.py:51-54). *)
THEOREM SuccessSurvivesHolds == DSpec => []SuccessSurvives
<1>1. ASSUME DInv PROVE SuccessSurvives
  <2> SUFFICES ASSUME NEW a \in Attempts, a \in mirrored, result[a] \in Success
               PROVE  Committed /\ <<a, "line">> \in Visible \ torn
    BY DEF SuccessSurvives
  <2> USE <1>1 DEF DInv
  <2>1. journal \in Seq(Ops) /\ DOMAIN journal = 1 .. Len(journal) /\ Len(journal) \in Nat
        /\ durable \in 0 .. Len(journal)
    BY DEF DTypeOK
  <2>2. PICK i \in 1 .. durable : journal[i] = <<a, "line">>
    BY DEF OrderInv
  <2>3. <<a, "line">> \in Visible
    BY <2>1, <2>2, InJournal
  <2>4. <<a, "line">> \notin torn
    BY DEF SyncInv
  <2>5. i \in DOMAIN journal
    BY <2>1
  <2>6. PICK b \in Attempts : Before(i, <<b, "rename">>)
    BY <2>2, <2>5 DEF OrderInv
  <2>7. <<b, "rename">> \in Visible
    BY <2>1, <2>5, <2>6, InJournal DEF Before
  <2> QED  BY <2>3, <2>4, <2>7 DEF Committed
<1> QED  BY <1>1, DurableInvariant, PTL

(* No outage makes a later promotion of the same attestation fail. *)
THEOREM OutagesLeaveNoScarHolds == DSpec => []OutagesLeaveNoScar
  BY DurableInvariant, PTL DEF DInv
=============================================================================
