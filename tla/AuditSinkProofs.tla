--------------------------- MODULE AuditSinkProofs ---------------------------
(***************************************************************************)
(* Proofs about AuditSink for any attempts, denials, names, record lengths, *)
(* cuts and faults: the type invariant, that no readable record is taken    *)
(* back, that a write cut short costs at most two records, and that a       *)
(* recorded denial is lost only to two mishaps.                             *)
(***************************************************************************)
EXTENDS AuditSink, FiniteSetTheorems, TLAPS

Mirroring == {"sync", "retain", "write", "rest", "done"}    \* the record is in the index

Unfinished == {i \in DOMAIN index : ~ index[i].last}
Whole(a)   == [who |-> a, first |-> TRUE, last |-> TRUE]

(* An attempt that has not written has no piece in the index, one that is
   appending has none that ends a line; what is past the append has its whole
   record there or more pieces than one; every piece without its newline stands
   for a write that was cut short. *)
IndexInv ==
    /\ \A a \in Attempts : at[a] = "emit" => ~ Begun(a)
    /\ \A a \in Attempts : at[a] = "append" =>
          \A i \in DOMAIN index : index[i].who = a => ~ index[i].last
    /\ \A a \in Attempts : at[a] \in Mirroring =>
          a \in Split \/ \E i \in DOMAIN index : index[i] = Whole(a)
    /\ Cardinality(Unfinished) <= cuts

(* What a finds in its file if nobody else opens one of that name. *)
Mine(a) ==
    LET held == denied[RetainedName(a)] IN
    /\ at[a] = "write" => held = Absent
    /\ at[a] = "rest"  => held.top = a /\ ~ held.whole /\ held.size <= Length[a]
    /\ (a \in Denied /\ at[a] = "done") => Retained(a)

Shared(a) == \E r \in opened \ {a} : RetainedName(r) = RetainedName(a)

DeniedInv ==
    /\ \A a \in Attempts : at[a] \in {"write", "rest"} => a \in opened
    /\ \A a \in Attempts : Mine(a) \/ Shared(a)

AInv == ATypeOK /\ IndexInv /\ DeniedInv

-----------------------------------------------------------------------------
(* Appending *)

LEMMA Appended ==
    ASSUME index \in Seq(Pieces), NEW p \in Pieces, index' = Append(index, p)
    PROVE  /\ index' \in Seq(Pieces)
           /\ DOMAIN index = 1 .. Len(index) /\ Len(index) \in Nat
           /\ DOMAIN index' = 1 .. Len(index) + 1 /\ Len(index') = Len(index) + 1
           /\ \A i \in DOMAIN index : index'[i] = index[i]
           /\ index'[Len(index) + 1] = p
  OBVIOUS

LEMMA PutAppends ==
    ASSUME index \in Seq(Pieces), NEW a \in Attempts, NEW last \in BOOLEAN, Put(a, last)
    PROVE  \E p \in Pieces : /\ p = [who |-> a, first |-> ~ Begun(a), last |-> last]
                             /\ index' = Append(index, p)
<1> DEFINE p == [who |-> a, first |-> ~ Begun(a), last |-> last]
<1>1. Begun(a) \in BOOLEAN
  BY DEF Begun
<1>2. p \in Pieces
  BY <1>1 DEF Pieces
<1> QED  BY <1>2 DEF Put

(* A step leaves the index alone, or appends what ends its attempt's record, or a
   part, for which it counts a cut. *)
LEMMA StepAppends ==
    ASSUME ATypeOK, NEW a \in Attempts, AStep(a)
    PROVE  \/ index' = index /\ cuts' = cuts
           \/ Put(a, TRUE) /\ cuts' = cuts
           \/ Put(a, FALSE) /\ cuts' = cuts + 1 /\ cuts < MaxCuts
  BY DEF AStep, Emit, AppendLine, CloseTorn, SyncLine, OpenRetained, WriteRetained,
         FinishRetained, Die, Cut

LEMMA AInitInv == AInit => AInv
<1> SUFFICES ASSUME AInit PROVE AInv
  OBVIOUS
<1>1. ATypeOK
  BY SinkAssumption DEF AInit, ATypeOK, Contents, Absent, Stages, SinkAssumption
<1>2. IndexInv
  <2>1. Unfinished = {}
    BY DEF AInit, Unfinished
  <2>2. Cardinality(Unfinished) <= cuts
    BY <2>1, FS_EmptySet DEF AInit
  <2> QED  BY <2>2 DEF AInit, IndexInv, Mirroring, Begun
<1>3. DeniedInv
  BY DEF AInit, DeniedInv, Mine
<1> QED  BY <1>1, <1>2, <1>3 DEF AInv
-----------------------------------------------------------------------------
(* The type invariant *)

LEMMA OverlayType ==
    ASSUME ATypeOK, NEW a \in Attempts, NEW top \in Attempts \cup {"none"},
           NEW whole \in BOOLEAN, NEW n \in 0 .. Length[a], Overlay(a, top, whole, n)
    PROVE  denied' \in [Names -> Contents]
<1> USE DEF ATypeOK
<1> DEFINE old == denied[RetainedName(a)].size
           size == IF old > n THEN old ELSE n
<1>1. RetainedName(a) \in Names
  BY DEF Names
<1>2. old \in {0} \cup UNION {0 .. Length[b] : b \in Attempts}
  BY <1>1 DEF Contents
<1>3. size \in {0} \cup UNION {0 .. Length[b] : b \in Attempts}
  BY <1>2
<1>4. [top |-> top, whole |-> whole, size |-> size] \in Contents
  BY <1>3 DEF Contents
<1> QED  BY <1>1, <1>4 DEF Overlay

LEMMA ATypeStep ==
    ASSUME ATypeOK, NEW a \in Attempts, AStep(a)
    PROVE  ATypeOK'
<1> USE DEF ATypeOK
<1>1. index' \in Seq(Pieces) /\ cuts' \in 0 .. MaxCuts
  <2>1. cuts' \in 0 .. MaxCuts
    <3>1. cuts \in 0 .. MaxCuts /\ MaxCuts \in Nat
      BY SinkAssumption DEF SinkAssumption
    <3>2. cuts' = cuts \/ (cuts' = cuts + 1 /\ cuts < MaxCuts)
      BY StepAppends
    <3> QED  BY <3>1, <3>2
  <2>2. CASE index' = index
    BY <2>1, <2>2
  <2>3. ASSUME NEW last \in BOOLEAN, Put(a, last) PROVE index' \in Seq(Pieces)
    BY <2>3, PutAppends, Appended
  <2> QED  BY <2>1, <2>2, <2>3, StepAppends
<1>2. at' \in [Attempts -> Stages]
  BY DEF AStep, Emit, AppendLine, CloseTorn, SyncLine, OpenRetained, WriteRetained,
         FinishRetained, Die, Go, AfterMirror, Stages
<1>3. opened' \in SUBSET Attempts
  BY DEF AStep, Emit, AppendLine, CloseTorn, SyncLine, OpenRetained, WriteRetained,
         FinishRetained, Die
<1>4. denied' \in [Names -> Contents]
  <2>1. Length[a] \in Nat /\ Length[a] \in 0 .. Length[a]
    BY SinkAssumption DEF SinkAssumption
  <2>2. CASE OpenRetained(a)
    <3>1. Absent \in Contents
      BY DEF Absent, Contents
    <3> QED  BY <2>2, <3>1 DEF OpenRetained
  <2>3. CASE WriteRetained(a)
    <3>1. \A n \in 1 .. Length[a] - 1 : n \in 0 .. Length[a]
      BY <2>1
    <3>2. \/ Overlay(a, a, TRUE, Length[a])
          \/ \E n \in 1 .. Length[a] - 1 : Overlay(a, a, FALSE, n)
          \/ denied' = denied
      BY <2>3 DEF WriteRetained
    <3>3. ASSUME NEW n \in 1 .. Length[a] - 1, Overlay(a, a, FALSE, n)
          PROVE  denied' \in [Names -> Contents]
      BY <3>1, <3>3, OverlayType
    <3>4. CASE Overlay(a, a, TRUE, Length[a])
      BY <2>1, <3>4, OverlayType
    <3> QED  BY <3>2, <3>3, <3>4
  <2>4. CASE FinishRetained(a)
    BY <2>1, <2>4, OverlayType DEF FinishRetained
  <2>5. CASE denied' = denied
    BY <2>5
  <2> QED  BY <2>2, <2>3, <2>4, <2>5 DEF AStep, Emit, AppendLine, CloseTorn, SyncLine, Die
<1> QED  BY <1>1, <1>2, <1>3, <1>4
-----------------------------------------------------------------------------
(* The index *)

(* What a piece of a, appended, does to the rest of the invariant. *)
LEMMA PutKeeps ==
    ASSUME ATypeOK, NEW a \in Attempts, NEW last \in BOOLEAN, Put(a, last)
    PROVE  /\ \A b \in Attempts : b # a /\ ~ Begun(b) => ~ Begun(b)'
           /\ \A b \in Attempts : b \in Split => b \in Split'
           /\ \A b \in Attempts : (\E i \in DOMAIN index : index[i] = Whole(b))
                                    => \E i \in DOMAIN index' : index'[i] = Whole(b)
           /\ last => Unfinished' = Unfinished
           /\ ~ last => a \in Split' /\ Unfinished' = Unfinished \cup {Len(index) + 1}
           /\ last => \/ a \in Split'
                      \/ \E i \in DOMAIN index' : index'[i] = Whole(a)
                      \/ \E i \in DOMAIN index : index[i].who = a /\ index[i].last
<1> USE DEF ATypeOK
<1>1. PICK p \in Pieces : /\ p = [who |-> a, first |-> ~ Begun(a), last |-> last]
                          /\ index' = Append(index, p)
  BY PutAppends
<1>2. /\ DOMAIN index = 1 .. Len(index) /\ Len(index) \in Nat
      /\ DOMAIN index' = 1 .. Len(index) + 1
      /\ \A i \in DOMAIN index : i \in DOMAIN index' /\ index'[i] = index[i]
      /\ Len(index) + 1 \in DOMAIN index'
      /\ \A i \in DOMAIN index' : i \in DOMAIN index \/ i = Len(index) + 1
      /\ index'[Len(index) + 1] = p
  BY <1>1, Appended
<1>3. \A b \in Attempts : b # a /\ ~ Begun(b) => ~ Begun(b)'
  BY <1>1, <1>2 DEF Begun
<1>4. \A b \in Attempts : b \in Split => b \in Split'
  BY <1>2 DEF Split
<1>5. \A b \in Attempts : (\E i \in DOMAIN index : index[i] = Whole(b))
                             => \E i \in DOMAIN index' : index'[i] = Whole(b)
  BY <1>2
<1>6. last => Unfinished' = Unfinished
  BY <1>1, <1>2 DEF Unfinished
<1>7. ~ last => a \in Split' /\ Unfinished' = Unfinished \cup {Len(index) + 1}
  BY <1>1, <1>2 DEF Unfinished, Split
<1>8. ASSUME last, ~ (\E i \in DOMAIN index : index[i].who = a /\ index[i].last)
      PROVE  a \in Split' \/ \E i \in DOMAIN index' : index'[i] = Whole(a)
  <2>1. CASE Begun(a)
    BY <2>1, <1>2, <1>8 DEF Begun, Split
  <2>2. CASE ~ Begun(a)
    BY <2>2, <1>1, <1>2, <1>8 DEF Whole
  <2> QED  BY <2>1, <2>2
<1> QED  BY <1>3, <1>4, <1>5, <1>6, <1>7, <1>8

LEMMA UnfinishedFinite ==
    ASSUME index \in Seq(Pieces) PROVE IsFiniteSet(Unfinished)
<1>1. DOMAIN index = 1 .. Len(index) /\ Len(index) \in Int
  OBVIOUS
<1>2. IsFiniteSet(DOMAIN index)
  <2>1. 1 \in Int /\ IsFiniteSet(1 .. Len(index))
    BY <1>1, FS_Interval
  <2> QED  BY <1>1, <2>1
<1>3. Unfinished \subseteq DOMAIN index
  BY DEF Unfinished
<1> QED  BY <1>2, <1>3, FS_Subset

LEMMA CutsCounted ==
    ASSUME ATypeOK, Cardinality(Unfinished) <= cuts, NEW a \in Attempts, AStep(a)
    PROVE  Cardinality(Unfinished') <= cuts'
<1> USE DEF ATypeOK
<1>1. CASE index' = index /\ cuts' = cuts
  BY <1>1 DEF Unfinished
<1>2. CASE Put(a, TRUE) /\ cuts' = cuts
  BY <1>2, PutKeeps
<1>3. CASE Put(a, FALSE) /\ cuts' = cuts + 1
  <2>1. Unfinished' = Unfinished \cup {Len(index) + 1}
    BY <1>3, PutKeeps
  <2>2. DOMAIN index = 1 .. Len(index) /\ Len(index) \in Nat
    OBVIOUS
  <2>3. IsFiniteSet(Unfinished)
    BY UnfinishedFinite
  <2>4. Len(index) + 1 \notin Unfinished
    BY <2>2 DEF Unfinished
  <2>5. Cardinality(Unfinished') = Cardinality(Unfinished) + 1
    BY <2>1, <2>3, <2>4, FS_AddElement
  <2>6. Cardinality(Unfinished) \in Nat /\ cuts \in Nat
    BY <2>3, FS_CardinalityType, SinkAssumption DEF SinkAssumption
  <2> QED  BY <1>3, <2>5, <2>6
<1> QED  BY <1>1, <1>2, <1>3, StepAppends

LEMMA IndexStep ==
    ASSUME ATypeOK, IndexInv, NEW a \in Attempts, AStep(a)
    PROVE  IndexInv'
<1> USE DEF ATypeOK
<1>1. Cardinality(Unfinished') <= cuts'
  BY CutsCounted DEF IndexInv
<1>2. \A b \in Attempts \ {a} : at'[b] = at[b]
  BY DEF AStep, Emit, AppendLine, CloseTorn, SyncLine, OpenRetained, WriteRetained,
         FinishRetained, Die, Go
<1>3. at'[a] # "emit"
  BY DEF AStep, Emit, AppendLine, CloseTorn, SyncLine, OpenRetained, WriteRetained,
         FinishRetained, Die, Go, AfterMirror
<1>4. CASE index' = index
  <2>1. /\ at'[a] = "append" => at[a] = "emit"
        /\ at'[a] \in Mirroring => at[a] \in Mirroring
    <3>1. ~ Put(a, TRUE) /\ ~ Put(a, FALSE)
      <4>1. ASSUME NEW last \in BOOLEAN, Put(a, last) PROVE FALSE
        BY <4>1, <1>4, PutAppends, Appended
      <4> QED  BY <4>1
    <3> QED  BY <3>1 DEF AStep, Emit, AppendLine, Cut, CloseTorn, SyncLine, OpenRetained,
                         WriteRetained, FinishRetained, Die, Go, AfterMirror, Mirroring
  <2> QED  BY <1>1, <1>2, <1>3, <1>4, <2>1 DEF IndexInv, Begun, Split
<1>5. ASSUME NEW last \in BOOLEAN, Put(a, last), at[a] \in {"append", "close"},
             at'[a] = (IF ~ last THEN at[a] ELSE IF at[a] = "append" THEN "sync" ELSE "warned")
      PROVE  IndexInv'
  <2>1. PICK p \in Pieces : /\ p = [who |-> a, first |-> ~ Begun(a), last |-> last]
                            /\ index' = Append(index, p)
    BY <1>5, PutAppends
  <2>2. \A b \in Attempts : at'[b] = "emit" => ~ Begun(b)'
    <3>1. \A b \in Attempts \ {a} : ~ Begun(b) => ~ Begun(b)'
      BY <1>5, PutKeeps
    <3> QED  BY <3>1, <1>2, <1>3 DEF IndexInv
  <2>3. \A b \in Attempts : at'[b] = "append" =>
            \A i \in DOMAIN index' : index'[i].who = b => ~ index'[i].last
    <3>1. \A b \in Attempts : at'[b] = "append" => at[b] = "append" /\ (b # a \/ ~ last)
      BY <1>2, <1>5
    <3> QED  BY <3>1, <2>1, Appended DEF IndexInv
  <2>4. \A b \in Attempts \ {a} : at'[b] \in Mirroring =>
            b \in Split' \/ \E i \in DOMAIN index' : index'[i] = Whole(b)
    BY <1>2, <1>5, PutKeeps DEF IndexInv
  <2>5. at'[a] \in Mirroring => a \in Split' \/ \E i \in DOMAIN index' : index'[i] = Whole(a)
    <3> SUFFICES ASSUME at'[a] \in Mirroring
                 PROVE  a \in Split' \/ \E i \in DOMAIN index' : index'[i] = Whole(a)
      OBVIOUS
    <3>1. last /\ at[a] = "append"
      BY <1>5 DEF Mirroring
    <3>2. ~ (\E i \in DOMAIN index : index[i].who = a /\ index[i].last)
      BY <3>1 DEF IndexInv
    <3> QED  BY <1>5, <3>1, <3>2, PutKeeps
  <2>6. \A b \in Attempts : at'[b] \in Mirroring =>
            b \in Split' \/ \E i \in DOMAIN index' : index'[i] = Whole(b)
    BY <2>4, <2>5
  <2> QED  BY <1>1, <2>2, <2>3, <2>6 DEF IndexInv, Whole
<1>6. CASE AppendLine(a) /\ index' # index
  BY <1>5, <1>6 DEF AppendLine, Cut, Go
<1>7. CASE CloseTorn(a) /\ index' # index
  BY <1>5, <1>7 DEF CloseTorn, Cut, Go
<1> QED  BY <1>4, <1>6, <1>7 DEF AStep, Emit, SyncLine, OpenRetained, WriteRetained,
                                  FinishRetained, Die
-----------------------------------------------------------------------------
(* The retained denials *)

(* Who opens its file, or has, shares its name for good. *)
LEMMA SharedStays ==
    ASSUME NEW a \in Attempts, AStep(a)
    PROVE  /\ opened \subseteq opened'
           /\ \A b : Shared(b) => Shared(b)'
  BY DEF AStep, Emit, AppendLine, CloseTorn, SyncLine, OpenRetained, WriteRetained,
         FinishRetained, Die, Shared, RetainedName

LEMMA DeniedStep ==
    ASSUME ATypeOK, DeniedInv, NEW a \in Attempts, AStep(a)
    PROVE  DeniedInv'
<1> USE DEF ATypeOK
<1> DEFINE n0 == RetainedName(a)
<1>1. n0 \in Names /\ Length[a] \in Nat \ {0}
  BY SinkAssumption DEF Names, SinkAssumption
<1>2. \A b \in Attempts \ {a} : at'[b] = at[b]
  BY DEF AStep, Emit, AppendLine, CloseTorn, SyncLine, OpenRetained, WriteRetained,
         FinishRetained, Die, Go
<1>3. at'[a] \in {"write", "rest"} => a \in opened'
  BY DEF AStep, Emit, AppendLine, Cut, CloseTorn, SyncLine, OpenRetained, WriteRetained,
         FinishRetained, Die, Go, AfterMirror, DeniedInv
<1>4. \A b \in Attempts : at'[b] \in {"write", "rest"} => b \in opened'
  BY <1>2, <1>3, SharedStays DEF DeniedInv
(* the file changes only under an attempt that has opened it *)
<1>5. \/ denied' = denied
      \/ /\ a \in opened'
         /\ \A n \in Names \ {n0} : denied'[n] = denied[n]
  BY <1>1 DEF AStep, Emit, AppendLine, CloseTorn, SyncLine, OpenRetained, WriteRetained,
              FinishRetained, Die, Go, Overlay, DeniedInv
<1>6. ASSUME NEW b \in Attempts \ {a} PROVE Mine(b)' \/ Shared(b)'
  <2>1. CASE denied' = denied \/ RetainedName(b) # n0
    <3>1. denied'[RetainedName(b)] = denied[RetainedName(b)]
      BY <2>1, <1>5 DEF Names
    <3>2. Mine(b) => Mine(b)'
      BY <3>1, <1>2 DEF Mine, Retained, RetainedName
    <3> QED  BY <3>2, SharedStays DEF DeniedInv
  <2>2. CASE denied' # denied /\ RetainedName(b) = n0
    BY <2>2, <1>5 DEF Shared, RetainedName
  <2> QED  BY <2>1, <2>2
<1>7. Mine(a)' \/ Shared(a)'
  <2> DEFINE held == denied[n0]
  <2>1. CASE Shared(a)
    BY <2>1, SharedStays
  <2>2. CASE Mine(a)
    <3>1. CASE Emit(a) \/ AppendLine(a) \/ CloseTorn(a) \/ SyncLine(a) \/ Die(a)
      <4>1. at'[a] \notin {"write", "rest"} /\ (a \in Denied => at'[a] # "done")
        BY <3>1 DEF Emit, AppendLine, Cut, CloseTorn, SyncLine, Die, Go, AfterMirror
      <4> QED  BY <4>1 DEF Mine
    <3>2. CASE OpenRetained(a)
      BY <1>1, <3>2 DEF OpenRetained, Go, Mine, RetainedName
    <3>3. ASSUME at'[a] = "done", denied' = [denied EXCEPT ![n0] =
                    [top |-> a, whole |-> TRUE, size |-> Length[a]]]
          PROVE  Mine(a)'
      BY <1>1, <3>3 DEF Mine, Retained, RetainedName
    <3>4. CASE WriteRetained(a)
      <4>1. at[a] = "write" /\ held = Absent
        BY <3>4, <2>2 DEF WriteRetained, Go, Mine
      <4>2. CASE at'[a] = "done"
        <5>1. Overlay(a, a, TRUE, Length[a])
          BY <3>4, <4>1, <4>2 DEF WriteRetained, Go
        <5>2. held.size = 0
          BY <4>1 DEF Absent
        <5>3. (IF held.size > Length[a] THEN held.size ELSE Length[a]) = Length[a]
          BY <5>2, <1>1
        <5> QED  BY <3>3, <4>2, <5>1, <5>3, <1>1 DEF Overlay
      <4>3. CASE at'[a] = "rest"
        <5>1. PICK n \in 1 .. Length[a] - 1 : Overlay(a, a, FALSE, n)
          BY <3>4, <4>1, <4>3 DEF WriteRetained, Go
        <5>2. held.size = 0
          BY <4>1 DEF Absent
        <5>3. (IF held.size > n THEN held.size ELSE n) = n
          BY <5>2, <1>1
        <5>4. denied'[n0] = [top |-> a, whole |-> FALSE, size |-> n]
          BY <5>1, <5>3, <1>1 DEF Overlay
        <5> QED  BY <5>4, <4>3, <1>1 DEF Mine, RetainedName
      <4>4. CASE at'[a] = "warned"
        BY <4>4 DEF Mine
      <4> QED  BY <3>4, <4>2, <4>3, <4>4 DEF WriteRetained, Go
    <3>5. CASE FinishRetained(a)
      <4>1. at[a] = "rest" /\ held.top = a /\ ~ held.whole /\ held.size <= Length[a]
        BY <3>5, <2>2 DEF FinishRetained, Go, Mine
      <4>2. CASE at'[a] = "done"
        <5>1. Overlay(a, a, TRUE, Length[a])
          BY <3>5, <4>1, <4>2 DEF FinishRetained, Go
        <5>2. held.size \in Nat
          BY <1>1, SinkAssumption DEF Contents, SinkAssumption
        <5>3. (IF held.size > Length[a] THEN held.size ELSE Length[a]) = Length[a]
          BY <4>1, <5>2, <1>1
        <5> QED  BY <3>3, <4>2, <5>1, <5>3, <1>1 DEF Overlay
      <4>3. CASE at'[a] = "warned"
        BY <4>3 DEF Mine
      <4> QED  BY <3>5, <4>2, <4>3 DEF FinishRetained, Go
    <3> QED  BY <3>1, <3>2, <3>4, <3>5 DEF AStep
  <2> QED  BY <2>1, <2>2 DEF DeniedInv
<1> QED  BY <1>4, <1>6, <1>7 DEF DeniedInv
-----------------------------------------------------------------------------
LEMMA AInvInductive == AInv /\ [ANext]_avars => AInv'
<1> SUFFICES ASSUME AInv, [ANext]_avars PROVE AInv'
  OBVIOUS
<1>1. ASSUME NEW a \in Attempts, AStep(a) PROVE AInv'
  BY <1>1, ATypeStep, IndexStep, DeniedStep DEF AInv
<1>2. CASE UNCHANGED avars
  BY <1>2 DEF avars, AInv, ATypeOK, IndexInv, DeniedInv, Begun, Split, Unfinished, Whole,
              Mine, Shared, Retained, RetainedName, Names
<1> QED  BY <1>1, <1>2 DEF ANext, AEnded

THEOREM AuditInvariant == ASpec => []AInv
  BY AInitInv, AInvInductive, PTL DEF ASpec

(* The type invariant of the audit sink, for any attempts, cuts and faults. *)
THEOREM AuditTypeCorrect == ASpec => []ATypeOK
  BY AuditInvariant, PTL DEF AInv

-----------------------------------------------------------------------------
(* What a reader of the index finds *)

LEMMA ReadableStays ==
  ASSUME AInv, [ANext]_avars
  PROVE  \A a \in Attempts : Readable(a) => Readable(a)'
<1>1. index \in Seq(Pieces)
  BY DEF AInv, ATypeOK
<1>2. CASE index' = index
  BY <1>2 DEF Readable, StartsLine
<1>3. ASSUME NEW p \in Pieces, index' = Append(index, p)
      PROVE  \A a \in Attempts : Readable(a) => Readable(a)'
  <2>1. /\ DOMAIN index = 1 .. Len(index) /\ Len(index) \in Nat
        /\ DOMAIN index' = 1 .. Len(index) + 1 /\ Len(index') = Len(index) + 1
        /\ \A i \in DOMAIN index : index'[i] = index[i]
    BY <1>1, <1>3, Appended
  <2>2. \A i \in DOMAIN index : StartsLine(i) => StartsLine(i)'
    BY <2>1 DEF StartsLine
  <2> SUFFICES ASSUME NEW a \in Attempts, Readable(a) PROVE Readable(a)'
    OBVIOUS
  <2>3. PICK i \in DOMAIN index :
            /\ index[i].who = a /\ index[i].first /\ StartsLine(i)
            /\ \E j \in i .. Len(index) :
                  index[j].last /\ \A k \in i .. j : index[k].who = a
    BY DEF Readable
  <2>4. PICK j \in i .. Len(index) : index[j].last /\ \A k \in i .. j : index[k].who = a
    BY <2>3
  <2>5. i \in DOMAIN index' /\ j \in i .. Len(index')
    BY <2>1, <2>4
  <2>6. \A k \in i .. j : k \in DOMAIN index
    BY <2>1, <2>4
  <2>7. /\ index'[i].who = a /\ index'[i].first /\ StartsLine(i)'
        /\ index'[j].last /\ \A k \in i .. j : index'[k].who = a
    BY <2>1, <2>2, <2>3, <2>4, <2>6
  <2> QED  BY <2>5, <2>7 DEF Readable
<1>4. index' = index \/ \E p \in Pieces : index' = Append(index, p)
  <2>1. ASSUME NEW a \in Attempts, AStep(a)
        PROVE  index' = index \/ \E p \in Pieces : index' = Append(index, p)
    BY <2>1, <1>1, StepAppends, PutAppends DEF AInv
  <2> QED  BY <2>1 DEF ANext, AEnded, avars
<1> QED  BY <1>2, <1>3, <1>4

(* Nothing that any promotion does later, failing or not, takes back a record
   that could be read: emit() only ever appends (audit.py:51-54). *)
THEOREM NothingUndoneHolds == ASpec => NothingUndone
<1>1. AInv /\ [ANext]_avars =>
        [\A a \in Attempts : Readable(a) => Readable(a)']_avars
  BY ReadableStays
<1> QED  BY <1>1, AuditInvariant, PTL DEF ASpec, NothingUndone

(* A lost record that is in one piece stands behind a piece without its newline. *)
LEMMA LostFollowsCut ==
    ASSUME AInv, NEW a \in Lost, a \notin Split
    PROVE  \E i \in DOMAIN index : index[i] = Whole(a) /\ i - 1 \in Unfinished
<1> USE DEF AInv, ATypeOK
<1>1. a \in Attempts /\ at[a] \in Mirroring /\ ~ Readable(a)
  BY DEF Lost, Mirroring
<1>2. PICK i \in DOMAIN index : index[i] = Whole(a)
  BY <1>1 DEF IndexInv
<1>3. DOMAIN index = 1 .. Len(index) /\ Len(index) \in Nat
  OBVIOUS
<1>4. ~ StartsLine(i)
  <2>1. ASSUME StartsLine(i) PROVE Readable(a)
    <3>1. i \in i .. Len(index) /\ \A k \in i .. i : k = i
      BY <1>3
    <3> QED  BY <2>1, <3>1, <1>2 DEF Readable, Whole
  <2> QED  BY <2>1, <1>1
<1>5. i - 1 \in DOMAIN index /\ ~ index[i - 1].last
  BY <1>3, <1>4 DEF StartsLine
<1> QED  BY <1>2, <1>5 DEF Unfinished

LEMMA FiniteParts ==
    ASSUME AInv
    PROVE  /\ IsFiniteSet(Unfinished) /\ Cardinality(Unfinished) \in Nat
           /\ IsFiniteSet(Lost) /\ IsFiniteSet(Split)
<1>1. IsFiniteSet(Unfinished)
  BY UnfinishedFinite DEF AInv, ATypeOK
<1>2. IsFiniteSet(Lost) /\ IsFiniteSet(Split)
  BY FS_Subset, SinkAssumption DEF Lost, Split, SinkAssumption
<1> QED  BY <1>1, <1>2, FS_CardinalityType

(* Two records that are not split do not follow the same cut. *)
LEMMA GluedAtMostCuts ==
    ASSUME AInv PROVE Cardinality(Lost \ Split) <= Cardinality(Unfinished)
<1> DEFINE S == Lost \ Split
           Follows(a, u) == \E i \in DOMAIN index : index[i] = Whole(a) /\ i - 1 = u
           f == [a \in S |-> CHOOSE u \in Unfinished : Follows(a, u)]
<1>1. \A a \in S : \E u \in Unfinished : Follows(a, u)
  BY LostFollowsCut
<1>2. \A a \in S : f[a] \in Unfinished /\ Follows(a, f[a])
  BY <1>1
<1>3. ASSUME NEW a \in S, NEW b \in S, f[a] = f[b] PROVE a = b
  <2>1. PICK i \in DOMAIN index : index[i] = Whole(a) /\ i - 1 = f[a]
    BY <1>2
  <2>2. PICK j \in DOMAIN index : index[j] = Whole(b) /\ j - 1 = f[b]
    BY <1>2
  <2>3. DOMAIN index = 1 .. Len(index) /\ Len(index) \in Nat
    BY DEF AInv, ATypeOK
  <2>4. i - 1 = j - 1
    BY <2>1, <2>2, <1>3
  <2>5. i = j
    BY <2>3, <2>4
  <2>6. Whole(a).who = a /\ Whole(b).who = b
    BY DEF Whole
  <2>7. Whole(a) = Whole(b)
    BY <2>1, <2>2, <2>5
  <2> QED  BY <2>6, <2>7
<1>4. f \in [S -> Unfinished]
  BY <1>2
<1> HIDE DEF f, S
<1>5. f \in Injection(S, Unfinished)
  BY <1>3, <1>4 DEF Injection, IsInjective
<1>6. Cardinality(S) <= Cardinality(Unfinished)
  BY <1>5, FiniteParts, FS_Injection
<1> QED  BY <1>6 DEF S

(* Every split record has a cut of its own. *)
LEMMA SplitAtMostCuts ==
    ASSUME AInv PROVE Cardinality(Split) <= Cardinality(Unfinished)
<1> DEFINE f == [a \in Split |-> CHOOSE u \in Unfinished : index[u].who = a]
<1>1. \A a \in Split : \E u \in Unfinished : index[u].who = a
  BY DEF Split, Unfinished
<1>2. \A a \in Split : f[a] \in Unfinished /\ index[f[a]].who = a
  BY <1>1
<1>3. \A a, b \in Split : f[a] = f[b] => a = b
  BY <1>2
<1>4. f \in [Split -> Unfinished]
  BY <1>2
<1> HIDE DEF f
<1>5. f \in Injection(Split, Unfinished)
  BY <1>3, <1>4 DEF Injection, IsInjective
<1> QED  BY <1>5, FiniteParts, FS_Injection

(* A write cut short costs two records at most, its own and the one glued to it
   (audit.py:51-54): each split record has a cut of its own, and each other lost
   one stands behind another cut. *)
THEOREM OneCutCostsTwoHolds == ASpec => []OneCutCostsTwo
<1>1. ASSUME AInv PROVE OneCutCostsTwo
  <2> USE <1>1
  <2> DEFINE A == Lost \ Split
             B == Lost \cap Split
  <2>1. /\ Cardinality(Unfinished) \in Nat /\ cuts \in Nat
        /\ Cardinality(Unfinished) <= cuts
    BY FiniteParts, SinkAssumption DEF AInv, ATypeOK, IndexInv, SinkAssumption
  <2>2. /\ IsFiniteSet(A) /\ IsFiniteSet(B)
        /\ Cardinality(B) <= Cardinality(Split)
    BY FiniteParts, FS_Subset
  <2>3. /\ Cardinality(A) \in Nat /\ Cardinality(B) \in Nat
        /\ Cardinality(Split) \in Nat
    BY <2>2, FiniteParts, FS_CardinalityType
  <2>4. Cardinality(A) <= cuts
    BY <2>1, <2>3, GluedAtMostCuts
  <2>5. Cardinality(B) <= cuts
    BY <2>1, <2>2, <2>3, SplitAtMostCuts
  <2>6. Cardinality(A \cup B) = Cardinality(A) + Cardinality(B)
    <3>1. A \cap B = {}
      OBVIOUS
    <3>2. Cardinality(A \cup B) = Cardinality(A) + Cardinality(B) - Cardinality(A \cap B)
      BY <2>2, FS_Union
    <3>3. Cardinality(A \cap B) = 0
      BY <3>1, FS_EmptySet
    <3> HIDE DEF A, B
    <3> QED  BY <3>2, <3>3, <2>3
  <2>7. Lost = A \cup B
    OBVIOUS
  <2> HIDE DEF A, B
  <2>8. Cardinality(Lost) <= 2 * cuts
    BY <2>1, <2>3, <2>4, <2>5, <2>6, <2>7
  <2> QED  BY <2>4, <2>8 DEF OneCutCostsTwo, A
<1> QED  BY <1>1, AuditInvariant, PTL

(* A recorded denial is lost only to an append cut short, its own or one before
   it, and another denial of its digest in its second (audit.py:3-7, 60-69). *)
THEOREM DenialLossTakesTwoHolds == ASpec => []DenialLossTakesTwo
<1>1. ASSUME AInv PROVE DenialLossTakesTwo
  <2> USE <1>1
  <2> SUFFICES ASSUME NEW a \in Denied, at[a] = "done", ~ Readable(a), ~ Retained(a)
               PROVE  /\ Split # {}
                      /\ \E r \in opened \ {a} : Stamp[r] = Stamp[a] /\ Short[r] = Short[a]
    BY DEF DenialLossTakesTwo
  <2>1. a \in Attempts /\ a \in Lost
    BY SinkAssumption DEF SinkAssumption, Lost
  <2>2. Split # {}
    <3>1. CASE a \in Split
      BY <3>1
    <3>2. CASE a \notin Split
      <4>1. PICK i \in DOMAIN index : i - 1 \in Unfinished
        BY <2>1, <3>2, LostFollowsCut
      <4>2. index[i - 1] \in Pieces
        BY <4>1 DEF AInv, ATypeOK, Unfinished
      <4> QED  BY <4>1, <4>2 DEF Split, Unfinished, Pieces
    <3> QED  BY <3>1, <3>2
  <2>3. Shared(a)
    BY <2>1 DEF AInv, DeniedInv, Mine
  <2> QED  BY <2>2, <2>3 DEF Shared, RetainedName
<1> QED  BY <1>1, AuditInvariant, PTL
=============================================================================
