------------------------- MODULE TrustedStoreProofs -------------------------
(***************************************************************************)
(* Proofs about TrustedStore for any attempts, paths, bytes, envelopes and *)
(* any set of faults: what the store holds, that it is the write-once map, *)
(* and that a call neither leaves litter nor refuses without a cause.      *)
(***************************************************************************)
EXTENDS TrustedStoreRefinement, TLAPS

USE DEF Env, Key, Goto, Leave, Suffer

(* What is in a tmp directory at each step of the write() that fills it: a
   directory that reaches the rename is a finished entry for its own key. *)
StagedFor(a) ==
    /\ pc[a] # "idle" => call[a] # NoCall
    /\ pc[a] = "idle" => result[a] = "none" /\ staged[a] = Absent
    /\ pc[a] \in {"copy", "hash", "attBlob", "receiptBlob", "marker", "replace", "lost"}
         => staged[a] # Absent
    /\ pc[a] \in {"attBlob", "receiptBlob", "marker", "replace"}
         => TreeDigest(staged[a].artifact) = Key(a)
    /\ pc[a] \in {"receiptBlob", "marker", "replace"} => staged[a].att \in {Env(a), Torn}
    /\ pc[a] \in {"marker", "replace"} => staged[a].receipt \in {a, Torn}
    /\ pc[a] = "replace" => staged[a].complete
    /\ pc[a] \in {"assertTree", "assertAtt"} => keys[Key(a)] # Absent
    /\ pc[a] \notin {"returned", "cleanup", "crashed"} => result[a] = "none"

StagedOK == \A a \in Attempts : StagedFor(a)

(* The receipt part of CommitClaims, and that a claimed commit is stored. *)
ReceiptOK ==
    \A d \in Digests, a \in Attempts :
        keys[d] # Absent /\ keys[d].receipt = a =>
            call[a] # NoCall /\ keys[d].att \in {Env(a), Torn} /\ result[a] = "committed"

OutcomeOK ==
    \A a \in Attempts :
        /\ result[a] # "none" => call[a] # NoCall
        /\ result[a] \in {"committed", "present"} => keys[Key(a)] # Absent
        /\ result[a] = "present" => keys[Key(a)].att = Env(a)

SoleCommit ==
    \A a, b \in Attempts :
        result[a] = "committed" /\ result[b] = "committed" /\ Key(a) = Key(b) => a = b

IInv == TypeOK /\ StagedOK /\ EntryIntegrity /\ ReceiptOK /\ OutcomeOK /\ SoleCommit

-----------------------------------------------------------------------------
LEMMA KeyType ==
    ASSUME TypeOK, NEW a \in Attempts, call[a] # NoCall
    PROVE  Env(a) \in Envelopes /\ Key(a) \in Digests /\ Key(a) \in Trees
  BY SubjectAssumption DEF TypeOK, Digests

(* The digest of a tree is that tree: hash_tree binds every path and content. *)
LEMMA TreeDigestIsTree == ASSUME NEW t \in Trees PROVE TreeDigest(t) = t
  BY DEF Trees, TreeDigest, HashTree

LEMMA EmptyTreeIsTree == EmptyTree \in Trees
<1>1. EmptyTree \in [{} -> Bytes]
  BY DEF EmptyTree
<1>2. QED
  BY <1>1 DEF Trees

(* Copying one file of a tree into another keeps it a tree. *)
LEMMA CopyIsTree ==
    ASSUME NEW t \in Trees, NEW s \in Trees, NEW p \in DOMAIN s
    PROVE  AddFile(t, p, s[p]) \in Trees
<1>1. PICK S \in SUBSET Paths : s \in [S -> Bytes]
  BY DEF Trees
<1>2. PICK T \in SUBSET Paths : t \in [T -> Bytes]
  BY DEF Trees
<1>3. T \cup {p} \in SUBSET Paths /\ DOMAIN t = T
  BY <1>1, <1>2
<1>4. AddFile(t, p, s[p]) \in [T \cup {p} -> Bytes]
  BY <1>1, <1>2, <1>3 DEF AddFile
<1>5. QED
  BY <1>3, <1>4 DEF Trees

LEMMA InitIInv == Init => IInv
<1> SUFFICES ASSUME Init PROVE IInv
  OBVIOUS
<1>1. TypeOK
  BY EmptyTreeIsTree DEF Init, TypeOK, Labels, Results
<1>2. StagedOK /\ EntryIntegrity /\ ReceiptOK /\ OutcomeOK /\ SoleCommit
  BY DEF Init, StagedOK, StagedFor, EntryIntegrity, ReceiptOK, OutcomeOK, SoleCommit
<1>3. QED
  BY <1>1, <1>2 DEF IInv

(* Rewriting one field of a directory leaves a directory. *)
LEMMA EntryFields ==
    ASSUME NEW r \in Entry
    PROVE  /\ r.artifact \in Trees
           /\ r.att \in Envelopes \cup {NoBlob, Torn}
           /\ r.receipt \in Attempts \cup {NoBlob, Torn}
           /\ r.complete \in BOOLEAN
           /\ r # Absent
  BY AbsentAssumption DEF Entry

LEMMA EntryUpdate ==
    ASSUME NEW r \in Entry
    PROVE  /\ \A t \in Trees : [r EXCEPT !.artifact = t] \in Entry
           /\ \A e \in Envelopes \cup {NoBlob, Torn} : [r EXCEPT !.att = e] \in Entry
           /\ \A x \in Attempts \cup {NoBlob, Torn} : [r EXCEPT !.receipt = x] \in Entry
           /\ [r EXCEPT !.complete = TRUE] \in Entry
  BY DEF Entry

LEMMA FreshEntry ==
    [artifact |-> EmptyTree, att |-> NoBlob, receipt |-> NoBlob, complete |-> FALSE] \in Entry
  BY EmptyTreeIsTree DEF Entry

LEMMA EntryExcept ==
    ASSUME NEW r \in Entry, NEW x
    PROVE  /\ [r EXCEPT !.att = x].artifact = r.artifact
           /\ [r EXCEPT !.att = x].att = x
           /\ [r EXCEPT !.receipt = x].artifact = r.artifact
           /\ [r EXCEPT !.receipt = x].att = r.att
           /\ [r EXCEPT !.receipt = x].receipt = x
           /\ [r EXCEPT !.complete = x].artifact = r.artifact
           /\ [r EXCEPT !.complete = x].att = r.att
           /\ [r EXCEPT !.complete = x].receipt = r.receipt
           /\ [r EXCEPT !.complete = x].complete = x
           /\ [r EXCEPT !.artifact = x].att = r.att
           /\ [r EXCEPT !.artifact = x].receipt = r.receipt
           /\ [r EXCEPT !.artifact = x].complete = r.complete
           /\ [r EXCEPT !.artifact = x].artifact = x
  BY DEF Entry

(* Every step keeps the types. *)
LEMMA NextTypeOK ==
    ASSUME TypeOK, StagedOK, [Next]_vars PROVE TypeOK'
<1>a. ASSUME NEW a \in Attempts, WriteStep(a) \/ Environment(a) PROVE TypeOK'
  <2>1. CASE CheckComplete(a)
    BY <2>1 DEF CheckComplete, TypeOK, Labels, Results, FaultKinds
  <2>2. CASE AssertTree(a)
    BY <2>2 DEF AssertTree, TypeOK, Labels, Results, FaultKinds
  <2>3. CASE AssertAtt(a)
    BY <2>3 DEF AssertAtt, TypeOK, Labels, Results, FaultKinds
  <2>4. CASE Rebind(a)
    BY <2>4 DEF Rebind, TypeOK, Labels, Results, FaultKinds
  <2>5. CASE MakeTmp(a)
    BY <2>5, FreshEntry DEF MakeTmp, TypeOK, StagedOK, StagedFor, Labels, Results,
       FaultKinds, vars, CompleteExists
  <2>6. CASE CopyFile(a)
    <3>1. PICK p \in DOMAIN quar[a] \ DOMAIN staged[a].artifact :
            staged' = [staged EXCEPT ![a] =
                         [staged[a] EXCEPT !.artifact = AddFile(staged[a].artifact, p, quar[a][p])]]
      BY <2>6 DEF CopyFile
    <3>2. staged[a] \in Entry /\ quar[a] \in Trees
      BY <2>6 DEF CopyFile, TypeOK, StagedOK, StagedFor
    <3>3. AddFile(staged[a].artifact, p, quar[a][p]) \in Trees
      BY <3>2, CopyIsTree, EntryFields
    <3>4. [staged[a] EXCEPT !.artifact = AddFile(staged[a].artifact, p, quar[a][p])] \in Entry
      BY <3>2, <3>3, EntryUpdate
    <3> QED
      BY <3>1, <3>4, <2>6 DEF CopyFile, TypeOK
  <2>7. CASE EndCopy(a)
    BY <2>7 DEF EndCopy, TypeOK, Labels, Results, FaultKinds
  <2>8. CASE CheckStaged(a)
    BY <2>8 DEF CheckStaged, TypeOK, Labels, Results, FaultKinds
  <2>9. CASE WriteAtt(a)
    <3>1. staged[a] \in Entry
      BY <2>9 DEF WriteAtt, TypeOK, StagedOK, StagedFor
    <3>2. PICK x \in Envelopes \cup {NoBlob, Torn} :
            staged' = [staged EXCEPT ![a] = [staged[a] EXCEPT !.att = x]]
      BY <2>9, KeyType DEF WriteAtt, TypeOK, StagedOK, StagedFor
    <3>3. [staged[a] EXCEPT !.att = x] \in Entry
      BY <3>1, EntryUpdate
    <3>4. staged' \in [Attempts -> Entry \cup {Absent}]
      BY <3>2, <3>3 DEF TypeOK
    <3> QED
      BY <2>9, <3>4 DEF WriteAtt, TypeOK, Labels, FaultKinds
  <2>10. CASE WriteReceipt(a)
    <3>1. staged[a] \in Entry
      BY <2>10 DEF WriteReceipt, TypeOK, StagedOK, StagedFor
    <3>2. PICK x \in Attempts \cup {NoBlob, Torn} :
            staged' = [staged EXCEPT ![a] = [staged[a] EXCEPT !.receipt = x]]
      BY <2>10, KeyType DEF WriteReceipt, TypeOK, StagedOK, StagedFor
    <3>3. [staged[a] EXCEPT !.receipt = x] \in Entry
      BY <3>1, EntryUpdate
    <3>4. staged' \in [Attempts -> Entry \cup {Absent}]
      BY <3>2, <3>3 DEF TypeOK
    <3> QED
      BY <2>10, <3>4 DEF WriteReceipt, TypeOK, Labels, FaultKinds
  <2>11. CASE WriteMarker(a)
    <3>1. staged[a] \in Entry
      BY <2>11 DEF WriteMarker, TypeOK, StagedOK, StagedFor
    <3>2. staged' = [staged EXCEPT ![a] = [staged[a] EXCEPT !.complete = TRUE]]
      BY <2>11 DEF WriteMarker
    <3>3. [staged[a] EXCEPT !.complete = TRUE] \in Entry
      BY <3>1, EntryUpdate
    <3>4. staged' \in [Attempts -> Entry \cup {Absent}]
      BY <3>2, <3>3 DEF TypeOK
    <3> QED
      BY <2>11, <3>4 DEF WriteMarker, TypeOK, Labels, FaultKinds
  <2>12. CASE Replace(a)
    BY <2>12 DEF Replace, TypeOK, Labels, Results, FaultKinds
  <2>13. CASE AfterLostRace(a)
    BY <2>13 DEF AfterLostRace, TypeOK, Labels, Results, FaultKinds
  <2>14. CASE Cleanup(a)
    BY <2>14 DEF Cleanup, TypeOK, Labels, Results, FaultKinds
  <2>15. CASE Open(a)
    <3>1. PICK e \in Envelopes, t \in Trees : \E files \in SUBSET DOMAIN t :
             Call(a, e, files) /\ quar' = [quar EXCEPT ![a] = t]
      BY <2>15 DEF Open
    <3>2. PICK files \in SUBSET DOMAIN t : Call(a, e, files)
      BY <3>1
    <3>3. files \in SUBSET Paths
      BY <3>2 DEF Trees
    <3> QED
      BY <3>1, <3>2, <3>3 DEF Call, TypeOK, StagedOK, StagedFor, Labels, Results,
         FaultKinds, vars, CompleteExists
  <2>16. CASE IOError(a)
    BY <2>16 DEF IOError, TypeOK, Labels, Results, FaultKinds
  <2>17. CASE Crash(a)
    BY <2>17 DEF Crash, TypeOK, Labels, Results, FaultKinds
  <2>18. CASE Disturb(a)
    BY <2>18 DEF Disturb, TypeOK, Labels, Results, FaultKinds
  <2> QED
    BY <1>a, <2>1, <2>2, <2>3, <2>4, <2>5, <2>6, <2>7, <2>8, <2>9, <2>10, <2>11,
       <2>12, <2>13, <2>14, <2>15, <2>16, <2>17, <2>18
       DEF WriteStep, Environment
<1>d. ASSUME NEW d \in Digests, Decay(d) PROVE TypeOK'
  <2>1. keys[d] \in Entry
    BY <1>d DEF Decay, TypeOK
  <2>2. keys' \in [Digests -> Entry \cup {Absent}]
    BY <1>d, <2>1, EntryUpdate DEF Decay, TypeOK
  <2> QED
    BY <1>d, <2>2 DEF Decay, TypeOK
<1>u. ASSUME UNCHANGED vars PROVE TypeOK'
  BY <1>u DEF vars, TypeOK, Labels, Results, FaultKinds
<1> QED
  BY <1>a, <1>d, <1>u DEF Next, Done

(* What a step of one call leaves alone. *)
LEMMA StepFrame ==
    ASSUME TypeOK, StagedOK, NEW a \in Attempts, WriteStep(a) \/ Environment(a)
    PROVE  /\ \A b \in Attempts \ {a} : /\ staged'[b] = staged[b] /\ call'[b] = call[b]
                                        /\ pc'[b] = pc[b] /\ result'[b] = result[b]
           /\ ~Replace(a) => keys' = keys
           /\ ~Open(a) => call' = call
           /\ result'[a] \in {result[a], "present", "refused", "failed"} \/ Replace(a)
           /\ result'[a] = "present" => result[a] = "present" \/ AssertAtt(a)
           /\ result[a] # "none" => result'[a] = result[a]
<1>1. CASE CheckComplete(a)
  BY <1>1 DEF CheckComplete, TypeOK, StagedOK, StagedFor
<1>2. CASE AssertTree(a)
  BY <1>2 DEF AssertTree, TypeOK, StagedOK, StagedFor
<1>3. CASE AssertAtt(a)
  BY <1>3 DEF AssertAtt, TypeOK, StagedOK, StagedFor
<1>4. CASE Rebind(a)
  BY <1>4 DEF Rebind, TypeOK, StagedOK, StagedFor
<1>5. CASE MakeTmp(a)
  BY <1>5 DEF MakeTmp, TypeOK
<1>6. CASE CopyFile(a)
  BY <1>6 DEF CopyFile, TypeOK
<1>7. CASE EndCopy(a)
  BY <1>7 DEF EndCopy, TypeOK
<1>8. CASE CheckStaged(a)
  BY <1>8 DEF CheckStaged, TypeOK, StagedOK, StagedFor
<1>9. CASE WriteAtt(a)
  BY <1>9 DEF WriteAtt, TypeOK
<1>10. CASE WriteReceipt(a)
  BY <1>10 DEF WriteReceipt, TypeOK
<1>11. CASE WriteMarker(a)
  BY <1>11 DEF WriteMarker, TypeOK
<1>12. CASE Replace(a)
  BY <1>12 DEF Replace, TypeOK, StagedOK, StagedFor
<1>13. CASE AfterLostRace(a)
  BY <1>13 DEF AfterLostRace, TypeOK, StagedOK, StagedFor
<1>14. CASE Cleanup(a)
  BY <1>14 DEF Cleanup, TypeOK
<1>15. CASE Open(a)
  BY <1>15 DEF Open, Call, TypeOK, StagedOK, StagedFor
<1>16. CASE IOError(a)
  BY <1>16 DEF IOError, TypeOK, StagedOK, StagedFor
<1>17. CASE Crash(a)
  BY <1>17 DEF Crash, TypeOK
<1>18. CASE Disturb(a)
  BY <1>18 DEF Disturb, TypeOK
<1> QED
  BY <1>1, <1>2, <1>3, <1>4, <1>5, <1>6, <1>7, <1>8, <1>9, <1>10, <1>11, <1>12,
     <1>13, <1>14, <1>15, <1>16, <1>17, <1>18 DEF WriteStep, Environment

(* A populated key stays, with its blobs and its marker. *)
LEMMA KeysStay ==
    ASSUME TypeOK, StagedOK, [Next]_vars, NEW d \in Digests, keys[d] # Absent
    PROVE  /\ keys'[d] # Absent
           /\ keys'[d].att = keys[d].att
           /\ keys'[d].receipt = keys[d].receipt
           /\ keys'[d].complete = keys[d].complete
<1>0. keys[d] \in Entry
  BY DEF TypeOK
<1>1. ASSUME NEW a \in Attempts, WriteStep(a) \/ Environment(a) PROVE keys'[d] = keys[d]
  BY <1>1, StepFrame DEF Replace, TypeOK
<1>2. ASSUME NEW e \in Digests, Decay(e)
      PROVE  \/ keys'[d] = keys[d]
             \/ \E t \in Trees : keys'[d] = [keys[d] EXCEPT !.artifact = t]
  BY <1>2 DEF Decay, TypeOK
<1>3. ASSUME NEW t \in Trees, keys'[d] = [keys[d] EXCEPT !.artifact = t]
      PROVE  /\ keys'[d] # Absent /\ keys'[d].att = keys[d].att
             /\ keys'[d].receipt = keys[d].receipt /\ keys'[d].complete = keys[d].complete
  <2>1. keys'[d] \in Entry
    BY <1>0, <1>3, EntryUpdate
  <2> QED
    BY <1>0, <1>3, <2>1, EntryExcept, EntryFields
<1> QED
  BY <1>1, <1>2, <1>3 DEF Next, Done, vars

LEMMA OtherStagedFor ==
    ASSUME TypeOK, StagedOK, [Next]_vars, NEW b \in Attempts,
           staged'[b] = staged[b], call'[b] = call[b], pc'[b] = pc[b], result'[b] = result[b]
    PROVE  StagedFor(b)'
<1>1. pc[b] # "idle" => Key(b) \in Digests
  BY KeyType DEF StagedOK, StagedFor
<1> QED
  BY <1>1, KeysStay DEF StagedOK, StagedFor

(* Every step keeps what is known of the tmp directories. *)
LEMMA NextStagedOK ==
    ASSUME TypeOK, StagedOK, [Next]_vars PROVE StagedOK'
<1>t. TypeOK'
  BY NextTypeOK
<1>a. ASSUME NEW a \in Attempts, WriteStep(a) \/ Environment(a) PROVE StagedFor(a)'
  <2>1. CASE CheckComplete(a)
    BY <2>1 DEF CheckComplete, CompleteExists, TypeOK, StagedOK, StagedFor
  <2>2. CASE AssertTree(a)
    BY <2>2 DEF AssertTree, CompleteExists, TypeOK, StagedOK, StagedFor
  <2>3. CASE AssertAtt(a)
    BY <2>3 DEF AssertAtt, CompleteExists, TypeOK, StagedOK, StagedFor
  <2>4. CASE Rebind(a)
    BY <2>4 DEF Rebind, CompleteExists, TypeOK, StagedOK, StagedFor
  <2>5. CASE MakeTmp(a)
    BY <2>5, FreshEntry, AbsentAssumption DEF MakeTmp, TypeOK, StagedOK, StagedFor
  <2>6. CASE CopyFile(a)
    <3>1. PICK p \in DOMAIN quar[a] \ DOMAIN staged[a].artifact :
            staged' = [staged EXCEPT ![a] =
                         [staged[a] EXCEPT !.artifact = AddFile(staged[a].artifact, p, quar[a][p])]]
      BY <2>6 DEF CopyFile
    <3>2. staged[a] \in Entry /\ quar[a] \in Trees
      BY <2>6 DEF CopyFile, TypeOK, StagedOK, StagedFor
    <3>3. staged'[a] # Absent
      BY <2>6, <3>1, <3>2, EntryFields, EntryUpdate, CopyIsTree DEF TypeOK
    <3> QED
      BY <2>6, <3>3 DEF CopyFile, TypeOK, StagedOK, StagedFor
  <2>7. CASE EndCopy(a)
    BY <2>7 DEF EndCopy, CompleteExists, TypeOK, StagedOK, StagedFor
  <2>8. CASE CheckStaged(a)
    BY <2>8 DEF CheckStaged, CompleteExists, TypeOK, StagedOK, StagedFor
  <2>9. CASE WriteAtt(a)
    <3>1. staged[a] \in Entry
      BY <2>9 DEF WriteAtt, TypeOK, StagedOK, StagedFor
    <3>2. PICK x \in {Env(a), Torn} : staged' = [staged EXCEPT ![a] = [staged[a] EXCEPT !.att = x]]
      BY <2>9 DEF WriteAtt
    <3>3. staged'[a] = [staged[a] EXCEPT !.att = x]
      BY <3>2 DEF TypeOK
    <3>4. [staged[a] EXCEPT !.att = x] \in Entry
      BY <2>9, <3>1, EntryUpdate, KeyType DEF WriteAtt, TypeOK, StagedOK, StagedFor
    <3>5. staged'[a] # Absent
      BY <3>3, <3>4, AbsentAssumption
    <3> QED
      BY <2>9, <3>1, <3>3, <3>5, EntryExcept DEF WriteAtt, TypeOK, StagedOK, StagedFor
  <2>10. CASE WriteReceipt(a)
    <3>1. staged[a] \in Entry
      BY <2>10 DEF WriteReceipt, TypeOK, StagedOK, StagedFor
    <3>2. PICK x \in {a, Torn} : staged' = [staged EXCEPT ![a] = [staged[a] EXCEPT !.receipt = x]]
      BY <2>10 DEF WriteReceipt
    <3>3. staged'[a] = [staged[a] EXCEPT !.receipt = x]
      BY <3>2 DEF TypeOK
    <3>4. [staged[a] EXCEPT !.receipt = x] \in Entry
      BY <2>10, <3>1, EntryUpdate, KeyType DEF WriteReceipt, TypeOK, StagedOK, StagedFor
    <3>5. staged'[a] # Absent
      BY <3>3, <3>4, AbsentAssumption
    <3> QED
      BY <2>10, <3>1, <3>3, <3>5, EntryExcept DEF WriteReceipt, TypeOK, StagedOK,
         StagedFor
  <2>11. CASE WriteMarker(a)
    <3>1. staged[a] \in Entry
      BY <2>11 DEF WriteMarker, TypeOK, StagedOK, StagedFor
    <3>2. PICK x \in {TRUE} : staged' = [staged EXCEPT ![a] = [staged[a] EXCEPT !.complete = x]]
      BY <2>11 DEF WriteMarker
    <3>3. staged'[a] = [staged[a] EXCEPT !.complete = x]
      BY <3>2 DEF TypeOK
    <3>4. [staged[a] EXCEPT !.complete = x] \in Entry
      BY <2>11, <3>1, EntryUpdate, KeyType DEF WriteMarker, TypeOK, StagedOK, StagedFor
    <3>5. staged'[a] # Absent
      BY <3>3, <3>4, AbsentAssumption
    <3> QED
      BY <2>11, <3>1, <3>3, <3>5, EntryExcept DEF WriteMarker, TypeOK, StagedOK,
         StagedFor
  <2>12. CASE Replace(a)
    BY <2>12 DEF Replace, CompleteExists, TypeOK, StagedOK, StagedFor
  <2>13. CASE AfterLostRace(a)
    BY <2>13 DEF AfterLostRace, CompleteExists, TypeOK, StagedOK, StagedFor
  <2>14. CASE Cleanup(a)
    BY <2>14 DEF Cleanup, CompleteExists, TypeOK, StagedOK, StagedFor
  <2>15. CASE Open(a)
    <3>2. PICK e \in Envelopes, t \in Trees : \E f \in SUBSET DOMAIN t : Call(a, e, f)
      BY <2>15 DEF Open
    <3>3. PICK f \in SUBSET DOMAIN t : Call(a, e, f)
      BY <3>2
    <3>5. call'[a] = [env |-> e, files |-> f] /\ f \in SUBSET Paths
      BY <3>3 DEF Call, TypeOK, Trees
    <3>6. call'[a] # NoCall
      BY <3>5, AbsentAssumption
    <3> QED
      BY <3>3, <3>6 DEF Call, TypeOK, StagedOK, StagedFor
  <2>16. CASE IOError(a)
    BY <2>16 DEF IOError, CompleteExists, TypeOK, StagedOK, StagedFor
  <2>17. CASE Crash(a)
    BY <2>17 DEF Crash, CompleteExists, TypeOK, StagedOK, StagedFor
  <2>18. CASE Disturb(a)
    BY <2>18 DEF Disturb, CompleteExists, TypeOK, StagedOK, StagedFor
  <2> QED
    BY <1>a, <2>1, <2>2, <2>3, <2>4, <2>5, <2>6, <2>7, <2>8, <2>9, <2>10, <2>11,
       <2>12, <2>13, <2>14, <2>15, <2>16, <2>17, <2>18 DEF WriteStep, Environment
<1>b. ASSUME NEW a \in Attempts, WriteStep(a) \/ Environment(a) PROVE StagedOK'
  BY <1>a, <1>b, StepFrame, OtherStagedFor DEF StagedOK
<1>d. ASSUME NEW d \in Digests, Decay(d) PROVE StagedOK'
  BY <1>d, OtherStagedFor DEF Decay, StagedOK
<1>u. ASSUME UNCHANGED vars PROVE StagedOK'
  BY <1>u, OtherStagedFor DEF vars, StagedOK
<1> QED
  BY <1>b, <1>d, <1>u DEF Next, Done

(* The rename files only finished entries under their own key, and nothing
   else populates a key. *)
LEMMA NextEntryIntegrity ==
    ASSUME TypeOK, StagedOK, EntryIntegrity, [Next]_vars PROVE EntryIntegrity'
<1>1. ASSUME NEW a \in Attempts, Replace(a) PROVE EntryIntegrity'
  BY <1>1, KeyType DEF Replace, TypeOK, StagedOK, StagedFor, EntryIntegrity
<1>2. ASSUME NEW a \in Attempts, WriteStep(a) \/ Environment(a), ~Replace(a) PROVE EntryIntegrity'
  <2>1. keys' = keys /\ rot' = rot
    BY <1>2, StepFrame DEF WriteStep, Environment, CheckComplete, AssertTree,
       AssertAtt, Rebind,
       MakeTmp, CopyFile, EndCopy, CheckStaged, WriteAtt, WriteReceipt, WriteMarker,
       AfterLostRace, Cleanup, Open, Call, IOError, Crash, Disturb
  <2> QED
    BY <2>1 DEF EntryIntegrity
<1>3. ASSUME NEW d \in Digests, Decay(d) PROVE EntryIntegrity'
  <2>1. \A e \in Digests \ {d} : keys'[e] = keys[e]
    BY <1>3 DEF Decay, TypeOK
  <2>2. d \in rot' /\ rot \subseteq rot' /\ keys[d] # Absent
    BY <1>3 DEF Decay
  <2> QED
    BY <2>1, <2>2, KeysStay DEF EntryIntegrity
<1> QED
  BY <1>1, <1>2, <1>3 DEF Next, Done, vars, EntryIntegrity

(* A receipt stays with its attestation and its call. *)
LEMMA NextReceiptOK ==
    ASSUME TypeOK, StagedOK, ReceiptOK, OutcomeOK, [Next]_vars PROVE ReceiptOK'
<1>1. ASSUME NEW a \in Attempts, Replace(a) PROVE ReceiptOK'
  BY <1>1, KeyType, SentinelAssumption DEF Replace, TypeOK, StagedOK, StagedFor,
     ReceiptOK
<1>2. ASSUME NEW a \in Attempts, WriteStep(a) \/ Environment(a), ~Replace(a) PROVE ReceiptOK'
  <2>1. keys' = keys /\ \A b \in Attempts : result[b] = "committed" => result'[b] = "committed"
    BY <1>2, StepFrame
  <2>2. \A b \in Attempts : result[b] = "committed" => call'[b] = call[b]
    BY <1>2, StepFrame DEF Open, Call, StagedOK, StagedFor
  <2> QED
    BY <2>1, <2>2 DEF ReceiptOK
<1>3. ASSUME NEW d \in Digests, Decay(d) PROVE ReceiptOK'
  BY <1>3, KeysStay DEF Decay, TypeOK, ReceiptOK
<1> QED
  BY <1>1, <1>2, <1>3 DEF Next, Done, vars, ReceiptOK

(* Reported success stays true. *)
LEMMA NextOutcomeOK ==
    ASSUME TypeOK, StagedOK, OutcomeOK, [Next]_vars PROVE OutcomeOK'
<1>k. ASSUME NEW b \in Attempts, result'[b] = result[b], call'[b] = call[b]
      PROVE  /\ result'[b] # "none" => call'[b] # NoCall
             /\ result'[b] \in {"committed", "present"} => keys'[Key(b)'] # Absent
             /\ result'[b] = "present" => keys'[Key(b)'].att = Env(b)'
  BY <1>k, KeysStay, KeyType DEF OutcomeOK
<1>1. ASSUME NEW a \in Attempts, WriteStep(a) \/ Environment(a) PROVE OutcomeOK'
  <2>0. ASSUME NEW b \in Attempts \ {a} PROVE result'[b] = result[b] /\ call'[b] = call[b]
    BY <1>1, StepFrame
  <2>1. CASE Replace(a)
    BY <2>0, <2>1, <1>k, KeyType DEF Replace, TypeOK, StagedOK, StagedFor, OutcomeOK
  <2>2. CASE AssertAtt(a)
    BY <2>0, <2>2, <1>k, KeyType DEF AssertAtt, TypeOK, StagedOK, StagedFor, OutcomeOK
  <2>3. CASE Open(a)
    BY <2>0, <2>3, <1>k DEF Open, Call, TypeOK, StagedOK, StagedFor, OutcomeOK
  <2>4. CASE ~Replace(a) /\ ~AssertAtt(a) /\ ~Open(a)
    <3>1. call'[a] = call[a] /\ result'[a] \in {result[a], "refused", "failed"}
      BY <1>1, <2>4, StepFrame
    <3>2. result'[a] # result[a] => call[a] # NoCall
      BY <1>1, <2>4 DEF WriteStep, Environment, CheckComplete, AssertTree, Rebind,
         MakeTmp,
         CopyFile, EndCopy, CheckStaged, WriteAtt, WriteReceipt, WriteMarker, AfterLostRace,
         Cleanup, IOError, Crash, Disturb, StagedOK, StagedFor
    <3> QED
      BY <2>0, <3>1, <3>2, <1>k DEF OutcomeOK
  <2> QED
    BY <2>1, <2>2, <2>3, <2>4
<1>3. ASSUME NEW d \in Digests, Decay(d) PROVE OutcomeOK'
  BY <1>3, <1>k DEF Decay, OutcomeOK
<1> QED
  BY <1>1, <1>3, <1>k DEF Next, Done, vars, OutcomeOK

(* A digest is committed to by one call. *)
LEMMA NextSoleCommit ==
    ASSUME TypeOK, StagedOK, OutcomeOK, SoleCommit, [Next]_vars PROVE SoleCommit'
<1>1. ASSUME NEW a \in Attempts, Replace(a) PROVE SoleCommit'
  BY <1>1, KeyType DEF Replace, TypeOK, StagedOK, StagedFor, OutcomeOK, SoleCommit
<1>2. ASSUME NEW a \in Attempts, WriteStep(a) \/ Environment(a), ~Replace(a) PROVE SoleCommit'
  <2>1. \A b \in Attempts : result'[b] = "committed" => result[b] = "committed"
    BY <1>2, StepFrame
  <2>2. \A b \in Attempts : result[b] = "committed" => call'[b] = call[b]
    BY <1>2, StepFrame DEF Open, Call, StagedOK, StagedFor
  <2> QED
    BY <2>1, <2>2 DEF SoleCommit
<1> QED
  BY <1>1, <1>2 DEF Next, Decay, Done, vars, SoleCommit

-----------------------------------------------------------------------------
LEMMA NextIInv == IInv /\ [Next]_vars => IInv'
  BY NextTypeOK, NextStagedOK, NextEntryIntegrity, NextReceiptOK, NextOutcomeOK,
     NextSoleCommit
  DEF IInv

LEMMA Inductive == Spec => []IInv
  BY InitIInv, NextIInv, PTL DEF Spec

(* The store's variables keep their types, for any number of writers, any
   trees and any faults. *)
THEOREM TypeCorrect == Spec => []TypeOK
<1>1. IInv => TypeOK
  BY DEF IInv
<1> QED
  BY <1>1, Inductive, PTL

(* No race, crash, disturbed quarantine, failed call or short write ever puts a
   partial entry, or bytes that do not hash to their key, behind a key of the
   store: LocalTrustedStore.write is atomic and content-addressed. *)
THEOREM EntriesAreWhole == Spec => []EntryIntegrity
<1>1. IInv => EntryIntegrity
  BY DEF IInv
<1> QED
  BY <1>1, Inductive, PTL

(* Of any number of racing calls on one digest at most one reports a fresh
   commit, and receipts stay with the attestation they were issued for. *)
THEOREM CommitsAreSole == Spec => []CommitClaims
<1>1. IInv => CommitClaims
  BY DEF IInv, ReceiptOK, SoleCommit, CommitClaims
<1> QED
  BY <1>1, Inductive, PTL

(* Success reported by write() is in the store. *)
THEOREM SuccessIsTrue == Spec => []SuccessIsStored
<1>1. IInv => SuccessIsStored
  BY KeyType DEF IInv, OutcomeOK, EntryIntegrity, SuccessIsStored, CompleteExists,
     TypeOK
<1> QED
  BY <1>1, Inductive, PTL

(* Once filed, an entry keeps its attestation, receipt and marker for ever:
   no step of any call overwrites or removes a populated key. *)
THEOREM NeverClobbered == Spec => NoClobber
<1>1. IInv /\ [Next]_vars => [\A d \in Digests : keys[d] # Absent =>
          /\ keys'[d] # Absent
          /\ keys'[d].att = keys[d].att
          /\ keys'[d].receipt = keys[d].receipt
          /\ keys'[d].complete]_vars
  <2> SUFFICES ASSUME IInv, [Next]_vars, NEW d \in Digests, keys[d] # Absent
               PROVE  keys'[d] # Absent /\ keys'[d].att = keys[d].att
                      /\ keys'[d].receipt = keys[d].receipt /\ keys'[d].complete
    OBVIOUS
  <2> QED
    BY KeysStay DEF IInv, EntryIntegrity
<1> QED
  BY <1>1, Inductive, PTL DEF Spec, NoClobber

-----------------------------------------------------------------------------
(* Without short writes no stored or staged attestation is torn. *)
NoTear ==
    /\ \A a \in Attempts : staged[a] # Absent => staged[a].att # Torn
    /\ \A d \in Digests : keys[d] # Absent => keys[d].att # Torn

LEMMA NextNoTear ==
    ASSUME TypeOK, StagedOK, NoTear, "shortWrite" \notin Faults, [Next]_vars PROVE NoTear'
<1>a. ASSUME NEW a \in Attempts, WriteStep(a) \/ Environment(a) PROVE NoTear'
  <2>1. CASE CopyFile(a)
    <3>1. staged[a] \in Entry
      BY <2>1 DEF CopyFile, TypeOK, StagedOK, StagedFor
    <3>2. PICK x : staged' = [staged EXCEPT ![a] = [staged[a] EXCEPT !.artifact = x]]
      BY <2>1 DEF CopyFile
    <3>3. staged'[a].att = staged[a].att /\ staged[a] # Absent
      BY <3>1, <3>2, EntryExcept, EntryFields DEF TypeOK
    <3> QED
      BY <2>1, <3>2, <3>3 DEF CopyFile, TypeOK, NoTear
  <2>2. CASE WriteAtt(a)
    <3>1. staged[a] \in Entry /\ call[a] # NoCall
      BY <2>2 DEF WriteAtt, TypeOK, StagedOK, StagedFor
    <3>2. staged' = [staged EXCEPT ![a] = [staged[a] EXCEPT !.att = Env(a)]]
      BY <2>2 DEF WriteAtt
    <3>3. staged'[a].att = Env(a)
      BY <3>1, <3>2, EntryExcept DEF TypeOK
    <3>4. Env(a) # Torn
      BY <3>1, KeyType, SentinelAssumption
    <3> QED
      BY <2>2, <3>2, <3>3, <3>4 DEF WriteAtt, TypeOK, NoTear
  <2>3. CASE WriteReceipt(a)
    <3>1. staged[a] \in Entry
      BY <2>3 DEF WriteReceipt, TypeOK, StagedOK, StagedFor
    <3>2. PICK x : staged' = [staged EXCEPT ![a] = [staged[a] EXCEPT !.receipt = x]]
      BY <2>3 DEF WriteReceipt
    <3>3. staged'[a].att = staged[a].att /\ staged[a] # Absent
      BY <3>1, <3>2, EntryExcept, EntryFields DEF TypeOK
    <3> QED
      BY <2>3, <3>2, <3>3 DEF WriteReceipt, TypeOK, NoTear
  <2>4. CASE WriteMarker(a)
    <3>1. staged[a] \in Entry
      BY <2>4 DEF WriteMarker, TypeOK, StagedOK, StagedFor
    <3>2. PICK x : staged' = [staged EXCEPT ![a] = [staged[a] EXCEPT !.complete = x]]
      BY <2>4 DEF WriteMarker
    <3>3. staged'[a].att = staged[a].att /\ staged[a] # Absent
      BY <3>1, <3>2, EntryExcept, EntryFields DEF TypeOK
    <3> QED
      BY <2>4, <3>2, <3>3 DEF WriteMarker, TypeOK, NoTear
  <2>5. CASE MakeTmp(a)
    BY <2>5, SentinelAssumption DEF MakeTmp, TypeOK, StagedOK, StagedFor, NoTear
  <2>6. CASE Replace(a)
    BY <2>6, SentinelAssumption DEF Replace, TypeOK, StagedOK, StagedFor, NoTear
  <2>7. CASE Cleanup(a)
    BY <2>7, SentinelAssumption DEF Cleanup, TypeOK, StagedOK, StagedFor, NoTear
  <2>8. CASE ~(\/ CopyFile(a) \/ WriteAtt(a) \/ WriteReceipt(a) \/ WriteMarker(a)
              \/ MakeTmp(a) \/ Replace(a) \/ Cleanup(a))
    BY <1>a, <2>8 DEF WriteStep, Environment, CheckComplete, AssertTree, AssertAtt,
       Rebind,
       EndCopy, CheckStaged, AfterLostRace, Open, Call, IOError, Crash, Disturb, NoTear
  <2> QED
    BY <2>1, <2>2, <2>3, <2>4, <2>5, <2>6, <2>7, <2>8
<1>d. ASSUME NEW d \in Digests, Decay(d) PROVE NoTear'
  BY <1>d, KeysStay DEF Decay, TypeOK, NoTear
<1> QED
  BY <1>a, <1>d DEF Next, Done, vars, NoTear

LEMMA NeverTorn == ASSUME "shortWrite" \notin Faults PROVE Spec => []NoTear
<1>1. Init => NoTear
  BY DEF Init, NoTear
<1>2. IInv /\ NoTear /\ [Next]_vars => NoTear'
  BY NextNoTear DEF IInv
<1> QED
  BY <1>1, <1>2, Inductive, PTL DEF Spec

(* The outcome of one call changes, the others' stay. *)
LEMMA StepOfOne ==
    ASSUME NEW a \in Attempts, NEW r,
           \A b \in Attempts \ {a} : OutcomeOf(b)' = OutcomeOf(b),
           OutcomeOf(a)' = r
    PROVE  outcomeBar' = [outcomeBar EXCEPT ![a] = r]
  BY DEF outcomeBar

LEMMA OthersKeepOutcome ==
    ASSUME TypeOK, StagedOK, NEW a \in Attempts, WriteStep(a) \/ Environment(a)
    PROVE  \A b \in Attempts \ {a} : OutcomeOf(b)' = OutcomeOf(b)
  BY StepFrame DEF OutcomeOf

(* The initial states of the store are initial states of the map. *)
LEMMA RefineInit == Init => WOS!Init
  BY DEF Init, WOS!Init, WOS!Digests, Digests, entryBar, wantBar, outcomeBar,
     EntryOf, WantOf, OutcomeOf

(* Every step of the store is a step of the map, or none. *)
LEMMA RefineNext ==
    ASSUME TypeOK, TypeOK', StagedOK, OutcomeOK, NoTear, EntryIntegrity, [Next]_vars
    PROVE  [WOS!Next]_(WOS!vars)
<1> USE DEF WOS!vars
<1>a. ASSUME NEW a \in Attempts, WriteStep(a) \/ Environment(a)
      PROVE  WOS!Next \/ (entryBar' = entryBar /\ wantBar' = wantBar /\ outcomeBar' = outcomeBar)
  <2>0. /\ \A b \in Attempts \ {a} : OutcomeOf(b)' = OutcomeOf(b)
        /\ outcomeBar' = [outcomeBar EXCEPT ![a] = OutcomeOf(a)']
    BY <1>a, OthersKeepOutcome, StepOfOne
  <2>k. keys' = keys => entryBar' = entryBar
    BY DEF entryBar, EntryOf
  <2>c. call' = call => wantBar' = wantBar
    BY DEF wantBar, WantOf
  <2>o. outcomeBar[a] = OutcomeOf(a) /\ (OutcomeOf(a)' = OutcomeOf(a) => outcomeBar' = outcomeBar)
    BY <2>0 DEF outcomeBar
  <2>w. call[a] # NoCall => wantBar[a] = Env(a) /\ Key(a) \in Digests /\ entryBar[Key(a)] = EntryOf(Key(a))
    BY KeyType DEF wantBar, WantOf, entryBar
  <2>d. ASSUME keys' = keys, call' = call, OutcomeOf(a) = "open", OutcomeOf(a)' \in {"refused", "failed"}
        PROVE  WOS!Next
    BY <2>0, <2>k, <2>c, <2>o, <2>d DEF WOS!Next, WOS!Decide, WOS!Decline, WOS!Decided
  <2>1. CASE CheckComplete(a)
    BY <2>1, <2>k, <2>c, <2>o DEF CheckComplete, OutcomeOf, TypeOK, StagedOK,
       StagedFor, Labels
  <2>2. CASE MakeTmp(a)
    BY <2>2, <2>k, <2>c, <2>o DEF MakeTmp, OutcomeOf, TypeOK, StagedOK, StagedFor,
       Labels
  <2>3. CASE CopyFile(a)
    BY <2>3, <2>k, <2>c, <2>o DEF CopyFile, OutcomeOf, TypeOK, StagedOK, StagedFor,
       Labels
  <2>4. CASE EndCopy(a)
    BY <2>4, <2>k, <2>c, <2>o DEF EndCopy, OutcomeOf, TypeOK, StagedOK, StagedFor,
       Labels
  <2>5. CASE WriteAtt(a)
    BY <2>5, <2>k, <2>c, <2>o DEF WriteAtt, OutcomeOf, TypeOK, StagedOK, StagedFor,
       Labels
  <2>6. CASE WriteReceipt(a)
    BY <2>6, <2>k, <2>c, <2>o DEF WriteReceipt, OutcomeOf, TypeOK, StagedOK,
       StagedFor, Labels
  <2>7. CASE WriteMarker(a)
    BY <2>7, <2>k, <2>c, <2>o DEF WriteMarker, OutcomeOf, TypeOK, StagedOK,
       StagedFor, Labels
  <2>8. CASE Cleanup(a)
    BY <2>8, <2>k, <2>c, <2>o DEF Cleanup, OutcomeOf, TypeOK, StagedOK, StagedFor,
       Labels
  <2>9. CASE Disturb(a)
    BY <2>9, <2>k, <2>c, <2>o DEF Disturb, OutcomeOf, TypeOK, StagedOK, StagedFor,
       Labels
  <2>10. CASE AssertTree(a)
    <3>1. keys' = keys /\ call' = call /\ OutcomeOf(a) = "open"
      BY <2>10 DEF AssertTree, OutcomeOf, StagedOK, StagedFor
    <3>2. OutcomeOf(a)' \in {"open", "refused", "failed"}
      BY <2>10 DEF AssertTree, OutcomeOf, TypeOK, StagedOK, StagedFor
    <3> QED
      BY <3>1, <3>2, <2>d, <2>k, <2>c, <2>o
  <2>11. CASE AssertAtt(a)
    <3>1. keys' = keys /\ call' = call /\ OutcomeOf(a) = "open"
      BY <2>11 DEF AssertAtt, OutcomeOf, StagedOK, StagedFor
    <3>2. CASE keys[Key(a)].att = Env(a)
      <4>1. call[a] # NoCall /\ keys[Key(a)] # Absent
        BY <2>11 DEF AssertAtt, StagedOK, StagedFor
      <4>2. OutcomeOf(a)' = "present"
        BY <2>11, <3>2 DEF AssertAtt, OutcomeOf, TypeOK
      <4>3. WOS!Confirm(a)
        BY <3>1, <3>2, <4>1, <4>2, <2>0, <2>k, <2>c, <2>o, <2>w DEF WOS!Confirm,
           WOS!Decided, EntryOf
      <4> QED
        BY <4>3 DEF WOS!Next, WOS!Decide
    <3>3. CASE keys[Key(a)].att # Env(a)
      BY <2>11, <3>1, <3>3, <2>d DEF AssertAtt, OutcomeOf, TypeOK
    <3> QED
      BY <3>2, <3>3
  <2>12. CASE Rebind(a)
    <3>1. keys' = keys /\ call' = call /\ OutcomeOf(a) = "open"
      BY <2>12 DEF Rebind, OutcomeOf, StagedOK, StagedFor
    <3>2. OutcomeOf(a)' \in {"open", "refused", "failed"}
      BY <2>12 DEF Rebind, OutcomeOf, TypeOK, StagedOK, StagedFor
    <3> QED
      BY <3>1, <3>2, <2>d, <2>k, <2>c, <2>o
  <2>13. CASE CheckStaged(a)
    <3>1. keys' = keys /\ call' = call /\ OutcomeOf(a) = "open"
      BY <2>13 DEF CheckStaged, OutcomeOf, StagedOK, StagedFor
    <3>2. OutcomeOf(a)' \in {"open", "refused", "failed"}
      BY <2>13 DEF CheckStaged, OutcomeOf, TypeOK, StagedOK, StagedFor
    <3> QED
      BY <3>1, <3>2, <2>d, <2>k, <2>c, <2>o
  <2>14. CASE AfterLostRace(a)
    <3>1. keys' = keys /\ call' = call /\ OutcomeOf(a) = "open"
      BY <2>14 DEF AfterLostRace, OutcomeOf, StagedOK, StagedFor
    <3>2. OutcomeOf(a)' \in {"open", "refused", "failed"}
      BY <2>14 DEF AfterLostRace, OutcomeOf, TypeOK, StagedOK, StagedFor
    <3> QED
      BY <3>1, <3>2, <2>d, <2>k, <2>c, <2>o
  <2>15. CASE IOError(a)
    <3>1. keys' = keys /\ call' = call /\ OutcomeOf(a) = "open"
      BY <2>15 DEF IOError, OutcomeOf, StagedOK, StagedFor
    <3>2. OutcomeOf(a)' \in {"open", "refused", "failed"}
      BY <2>15 DEF IOError, OutcomeOf, TypeOK, StagedOK, StagedFor
    <3> QED
      BY <3>1, <3>2, <2>d, <2>k, <2>c, <2>o
  <2>16. CASE Replace(a)
    <3>1. call' = call /\ call[a] # NoCall /\ OutcomeOf(a) = "open" /\ staged[a] # Absent
      BY <2>16 DEF Replace, OutcomeOf, StagedOK, StagedFor
    <3>2. CASE keys[Key(a)] = Absent
      <4>1. keys' = [keys EXCEPT ![Key(a)] = staged[a]] /\ OutcomeOf(a)' = "committed"
        BY <2>16, <3>2 DEF Replace, OutcomeOf, TypeOK
      <4>2. staged[a].att = Env(a)
        BY <2>16, <3>1 DEF Replace, NoTear, StagedOK, StagedFor
      <4>3. entryBar' = [entryBar EXCEPT ![Key(a)] = Env(a)]
        BY <3>1, <4>1, <4>2, <2>w DEF entryBar, EntryOf, TypeOK
      <4>4. WOS!Commit(a)
        BY <3>1, <3>2, <4>1, <4>3, <2>0, <2>c, <2>o, <2>w DEF WOS!Commit, WOS!Decided,
           EntryOf
      <4> QED
        BY <4>4 DEF WOS!Next, WOS!Decide
    <3>3. CASE keys[Key(a)] # Absent
      BY <2>16, <3>3, <2>k, <2>c, <2>o DEF Replace, OutcomeOf, TypeOK, StagedOK,
         StagedFor
    <3> QED
      BY <3>2, <3>3
  <2>17. CASE Open(a)
    <3>1. PICK e \in Envelopes, t \in Trees : \E f \in SUBSET DOMAIN t : Call(a, e, f)
      BY <2>17 DEF Open
    <3>2. PICK f \in SUBSET DOMAIN t : Call(a, e, f)
      BY <3>1
    <3>3. call'[a] = [env |-> e, files |-> f] /\ f \in SUBSET Paths
      BY <3>2 DEF Call, TypeOK, Trees
    <3>4. call'[a] # NoCall
      BY <3>3, AbsentAssumption
    <3>5. wantBar' = [wantBar EXCEPT ![a] = e]
      BY <3>2, <3>3, <3>4 DEF Call, wantBar, WantOf, TypeOK
    <3>6. keys' = keys /\ OutcomeOf(a) = "none" /\ OutcomeOf(a)' = "open"
      BY <3>2 DEF Call, OutcomeOf, TypeOK, StagedOK, StagedFor
    <3>7. WOS!Ask(a, e)
      BY <3>5, <3>6, <2>0, <2>k, <2>o DEF WOS!Ask
    <3> QED
      BY <3>7 DEF WOS!Next
  <2>18. CASE Crash(a)
    <3>1. /\ keys' = keys /\ call' = call
          /\ OutcomeOf(a) \notin {"none", "crashed"} /\ OutcomeOf(a)' = "crashed"
      BY <2>18 DEF Crash, OutcomeOf, TypeOK, Results
    <3>2. WOS!Die(a)
      BY <3>1, <2>0, <2>k, <2>c, <2>o DEF WOS!Die
    <3> QED
      BY <3>2 DEF WOS!Next
  <2> QED
    BY <1>a, <2>1, <2>2, <2>3, <2>4, <2>5, <2>6, <2>7, <2>8, <2>9, <2>10, <2>11,
       <2>12, <2>13, <2>14, <2>15, <2>16, <2>17, <2>18, <2>18
       DEF WriteStep, Environment
<1>d. ASSUME NEW d \in Digests, Decay(d)
      PROVE  entryBar' = entryBar /\ wantBar' = wantBar /\ outcomeBar' = outcomeBar
  <2>1. keys[d] \in Entry
    BY <1>d DEF Decay, TypeOK
  <2>2. PICK t \in Trees : keys' = [keys EXCEPT ![d] = [keys[d] EXCEPT !.artifact = t]]
    BY <1>d DEF Decay
  <2>3. [keys[d] EXCEPT !.artifact = t] \in Entry
    BY <2>1, EntryUpdate
  <2>4. keys'[d] # Absent /\ keys[d] # Absent /\ keys'[d].att = keys[d].att
    BY <2>1, <2>2, <2>3, EntryExcept, EntryFields DEF TypeOK
  <2>5. \A e \in Digests : EntryOf(e)' = EntryOf(e)
    BY <2>2, <2>4 DEF TypeOK, EntryOf
  <2> QED
    BY <1>d, <2>5 DEF Decay, entryBar, wantBar, outcomeBar, WantOf, OutcomeOf
<1>u. UNCHANGED vars => entryBar' = entryBar /\ wantBar' = wantBar /\ outcomeBar' = outcomeBar
  BY DEF vars, entryBar, wantBar, outcomeBar, EntryOf, WantOf, OutcomeOf
<1> QED
  BY <1>a, <1>d, <1>u DEF Next, Done

(* Whatever the interleaving, crashes and faults other than short writes, the
   store behaves to its callers as a write-once map from digests to signed
   attestations, each call taking effect in one step. *)
THEOREM StoreIsWriteOnce == ASSUME "shortWrite" \notin Faults PROVE Spec => Linearizable
<1>1. IInv /\ IInv' /\ NoTear /\ [Next]_vars => [WOS!Next]_(WOS!vars)
  BY RefineNext DEF IInv
<1> QED
  BY <1>1, RefineInit, Inductive, NeverTorn, PTL DEF Spec, Linearizable, WOS!Spec
-----------------------------------------------------------------------------
(* What a step of one call leaves alone in the quarantines and the history. *)
LEMMA HistoryFrame ==
    ASSUME TypeOK, StagedOK, NEW a \in Attempts, WriteStep(a) \/ Environment(a)
    PROVE  /\ \A b \in Attempts \ {a} : quar'[b] = quar[b] /\ mishap'[b] = mishap[b]
           /\ rot' = rot
           /\ mishap[a] \subseteq mishap'[a]
           /\ quar'[a] = quar[a] \/ "disturb" \in mishap'[a] \/ Open(a)
<1>1. CASE CheckComplete(a) \/ AssertTree(a) \/ AssertAtt(a) \/ Rebind(a) \/ MakeTmp(a)
  BY <1>1 DEF CheckComplete, AssertTree, AssertAtt, Rebind, MakeTmp
<1>2. CASE CopyFile(a) \/ EndCopy(a) \/ CheckStaged(a) \/ WriteMarker(a)
  BY <1>2 DEF CopyFile, EndCopy, CheckStaged, WriteMarker
<1>3. CASE Replace(a) \/ AfterLostRace(a)
  BY <1>3 DEF Replace, AfterLostRace
<1>4. CASE WriteAtt(a) \/ WriteReceipt(a) \/ Cleanup(a)
  BY <1>4 DEF WriteAtt, WriteReceipt, Cleanup, TypeOK
<1>5. CASE Open(a)
  BY <1>5 DEF Open, Call, TypeOK
<1>6. CASE IOError(a) \/ Crash(a)
  BY <1>6 DEF IOError, Crash, TypeOK
<1>7. CASE Disturb(a)
  BY <1>7 DEF Disturb, TypeOK
<1> QED
  BY <1>1, <1>2, <1>3, <1>4, <1>5, <1>6, <1>7 DEF WriteStep, Environment

LEMMA NextNoLitter ==
    ASSUME TypeOK, StagedOK, NoLitter, [Next]_vars PROVE NoLitter'
<1>a. ASSUME NEW a \in Attempts, WriteStep(a) \/ Environment(a) PROVE NoLitter'
  <2>1. ASSUME pc'[a] = "returned", "litter" \notin mishap'[a] PROVE staged'[a] = Absent
    <3>1. CASE AssertTree(a) \/ AssertAtt(a) \/ Rebind(a) \/ CheckStaged(a) \/ AfterLostRace(a)
      BY <3>1, <2>1 DEF AssertTree, AssertAtt, Rebind, CheckStaged, AfterLostRace, TypeOK
    <3>2. CASE Replace(a) \/ Cleanup(a) \/ IOError(a)
      BY <3>2, <2>1 DEF Replace, Cleanup, IOError, TypeOK
    <3>3. CASE CheckComplete(a) \/ MakeTmp(a) \/ CopyFile(a) \/ EndCopy(a) \/ WriteAtt(a)
               \/ WriteReceipt(a) \/ WriteMarker(a) \/ Open(a) \/ Crash(a) \/ Disturb(a)
      BY <3>3, <2>1 DEF CheckComplete, MakeTmp, CopyFile, EndCopy, WriteAtt, WriteReceipt,
         WriteMarker, Open, Call, Crash, Disturb, TypeOK
    <3> QED
      BY <1>a, <3>1, <3>2, <3>3 DEF WriteStep, Environment
  <2> QED
    BY <1>a, <2>1, StepFrame, HistoryFrame DEF NoLitter
<1> QED
  BY <1>a DEF Next, Done, Decay, vars, NoLitter

(* write() removes its tmp directory on every way out: whatever fails, a call
   that has ended leaves none behind unless rmtree itself failed. *)
THEOREM TmpIsRemoved == Spec => []NoLitter
<1>1. Init => NoLitter
  BY DEF Init, NoLitter
<1>2. IInv /\ NoLitter /\ [Next]_vars => NoLitter'
  BY NextNoLitter DEF IInv
<1> QED
  BY <1>1, <1>2, Inductive, PTL DEF Spec

-----------------------------------------------------------------------------
(* What RefusalHasCause asks of a refused call. *)
Cause(a) ==
    \/ mishap[a] \cap {"osError", "disturb"} # {}
    \/ call[a].files # DOMAIN quar[a]
    \/ Key(a) \in rot
    \/ keys[Key(a)] # Absent /\ keys[Key(a)].att # Env(a)

(* As long as nobody changes the quarantine under a call, its files hash to the
   key and the tmp directory is a faithful, and in the end whole, copy; and a
   rename fails only over an entry or by a failing system call. *)
CopyOf(part, whole) ==
    DOMAIN part \subseteq DOMAIN whole /\ \A p \in DOMAIN part : part[p] = whole[p]

FaithfulFor(a) ==
    /\ pc[a] # "idle" /\ "disturb" \notin mishap[a] =>
         /\ call[a].files \subseteq DOMAIN quar[a]
         /\ HashTree(quar[a], call[a].files) = Key(a)
         /\ pc[a] = "copy" => CopyOf(staged[a].artifact, quar[a])
         /\ pc[a] = "hash" => staged[a].artifact = quar[a]
    /\ pc[a] = "lost" => keys[Key(a)] # Absent \/ "osError" \in mishap[a]
    /\ result[a] \in {"refused", "failed"} => Cause(a)
    /\ pc[a] \in {"cleanup", "returned"} => result[a] # "none"

Faithful == \A a \in Attempts : FaithfulFor(a)

(* What any step leaves of a call that has begun. *)
LEMMA BegunStays ==
    ASSUME IInv, [Next]_vars, NEW a \in Attempts, pc[a] # "idle"
    PROVE  /\ call'[a] = call[a] /\ Key(a) \in Digests
           /\ mishap[a] \subseteq mishap'[a] /\ rot \subseteq rot'
           /\ quar'[a] = quar[a] \/ "disturb" \in mishap'[a]
           /\ result[a] # "none" => result'[a] = result[a]
<1>0. TypeOK /\ StagedOK /\ Key(a) \in Digests
  BY KeyType DEF IInv, StagedOK, StagedFor
<1>1. ASSUME NEW b \in Attempts, WriteStep(b) \/ Environment(b), b # a
      PROVE  /\ call'[a] = call[a] /\ mishap'[a] = mishap[a] /\ rot' = rot
             /\ quar'[a] = quar[a] /\ result'[a] = result[a]
  BY <1>0, <1>1, StepFrame, HistoryFrame
<1>2. ASSUME WriteStep(a) \/ Environment(a)
      PROVE  /\ call'[a] = call[a] /\ mishap[a] \subseteq mishap'[a] /\ rot' = rot
             /\ quar'[a] = quar[a] \/ "disturb" \in mishap'[a]
             /\ result[a] # "none" => result'[a] = result[a]
  <2>1. ~Open(a)
    BY DEF Open, Call
  <2> QED
    BY <1>0, <1>2, <2>1, StepFrame, HistoryFrame
<1>3. ASSUME NEW d \in Digests, Decay(d)
      PROVE  call' = call /\ mishap' = mishap /\ rot \subseteq rot' /\ quar' = quar /\ result' = result
  BY <1>3 DEF Decay
<1>4. ASSUME UNCHANGED vars
      PROVE  call' = call /\ mishap' = mishap /\ rot' = rot /\ quar' = quar /\ result' = result
  BY <1>4 DEF vars
<1>5. CASE \E b \in Attempts : WriteStep(b) \/ Environment(b)
  BY <1>0, <1>1, <1>2, <1>5
<1> QED
  BY <1>0, <1>3, <1>4, <1>5 DEF Next, Done

(* A cause stays a cause. *)
LEMMA CauseStays ==
    ASSUME IInv, [Next]_vars, NEW a \in Attempts, pc[a] # "idle", Cause(a)
    PROVE  Cause(a)'
<1>1. TypeOK /\ StagedOK
  BY DEF IInv
<1> QED
  BY <1>1, BegunStays, KeysStay DEF Cause

LEMMA CopyGrows ==
    ASSUME NEW part \in Trees, NEW whole \in Trees, NEW p \in DOMAIN whole,
           CopyOf(part, whole)
    PROVE  CopyOf(AddFile(part, p, whole[p]), whole)
  BY DEF CopyOf, AddFile

LEMMA WholeCopy ==
    ASSUME NEW part \in Trees, NEW whole \in Trees, CopyOf(part, whole),
           DOMAIN whole \subseteq DOMAIN part
    PROVE  part = whole
<1>1. PICK S \in SUBSET Paths : part \in [S -> Bytes]
  BY DEF Trees
<1>2. PICK T \in SUBSET Paths : whole \in [T -> Bytes]
  BY DEF Trees
<1> QED
  BY <1>1, <1>2 DEF CopyOf

LEMMA OtherFaithful ==
    ASSUME IInv, [Next]_vars, NEW b \in Attempts, FaithfulFor(b),
           staged'[b] = staged[b], call'[b] = call[b], pc'[b] = pc[b], result'[b] = result[b],
           quar'[b] = quar[b], mishap'[b] = mishap[b]
    PROVE  FaithfulFor(b)'
<1>1. TypeOK /\ StagedOK
  BY DEF IInv
<1>2. pc[b] # "idle" => Key(b) \in Digests
  BY BegunStays
<1>3. result[b] # "none" => pc[b] # "idle"
  BY <1>1 DEF StagedOK, StagedFor
<1> QED
  BY <1>1, <1>2, <1>3, KeysStay, CauseStays DEF FaithfulFor

(* A step of the call itself. *)
LEMMA OwnFaithful ==
    ASSUME IInv, [Next]_vars, NEW a \in Attempts, FaithfulFor(a), WriteStep(a) \/ Environment(a)
    PROVE  FaithfulFor(a)'
<1>0. TypeOK /\ StagedOK /\ EntryIntegrity
  BY DEF IInv
<1>c. pc[a] # "idle" => Key(a) \in Digests /\ call'[a] = call[a]
  BY BegunStays
<1>s. pc[a] # "idle" /\ result[a] \in {"refused", "failed"} => Cause(a)'
  BY CauseStays DEF FaithfulFor
<1>1. CASE CheckComplete(a) \/ WriteAtt(a) \/ WriteReceipt(a) \/ WriteMarker(a) \/ Cleanup(a)
  BY <1>1, <1>0, <1>c, <1>s, BegunStays
     DEF CheckComplete, WriteAtt, WriteReceipt, WriteMarker, Cleanup, FaithfulFor, TypeOK
<1>2. CASE AssertTree(a)
  BY <1>2, <1>0, <1>c, <1>s, TreeDigestIsTree
     DEF AssertTree, FaithfulFor, TypeOK, StagedOK, StagedFor, EntryIntegrity, Cause
<1>3. CASE AssertAtt(a)
  BY <1>3, <1>0, <1>c, <1>s DEF AssertAtt, FaithfulFor, TypeOK, StagedOK, StagedFor, Cause
<1>4. CASE Rebind(a)
  BY <1>4, <1>0, <1>c, <1>s DEF Rebind, FaithfulFor, TypeOK, Cause
<1>5. CASE MakeTmp(a)
  BY <1>5, <1>0, <1>c, <1>s DEF MakeTmp, FaithfulFor, TypeOK, StagedOK, StagedFor, CopyOf, EmptyTree
<1>6. CASE CopyFile(a)
  <2>1. PICK p \in DOMAIN quar[a] \ DOMAIN staged[a].artifact :
          staged' = [staged EXCEPT ![a] =
                       [staged[a] EXCEPT !.artifact = AddFile(staged[a].artifact, p, quar[a][p])]]
    BY <1>6 DEF CopyFile
  <2>2. staged[a] \in Entry /\ quar[a] \in Trees /\ staged[a].artifact \in Trees
    BY <1>6, <1>0, EntryFields DEF CopyFile, TypeOK, StagedOK, StagedFor
  <2>3. staged'[a].artifact = AddFile(staged[a].artifact, p, quar[a][p])
    BY <1>0, <2>1, <2>2, EntryExcept DEF TypeOK
  <2>4. CopyOf(staged[a].artifact, quar[a]) => CopyOf(staged'[a].artifact, quar[a])
    BY <2>2, <2>3, CopyGrows
  <2> QED
    BY <1>6, <1>0, <1>c, <1>s, <2>4 DEF CopyFile, FaithfulFor, TypeOK
<1>7. CASE EndCopy(a)
  <2>1. staged[a].artifact \in Trees /\ quar[a] \in Trees
    BY <1>7, <1>0, EntryFields DEF EndCopy, TypeOK, StagedOK, StagedFor
  <2> QED
    BY <1>7, <1>0, <1>c, <1>s, <2>1, WholeCopy DEF EndCopy, FaithfulFor, TypeOK
<1>8. CASE CheckStaged(a)
  <2>1. "disturb" \notin mishap[a] /\ call[a].files = DOMAIN quar[a]
          => TreeDigest(staged[a].artifact) = Key(a)
    BY <1>8 DEF CheckStaged, FaithfulFor, TreeDigest
  <2> QED
    BY <1>8, <1>0, <1>c, <1>s, <2>1 DEF CheckStaged, FaithfulFor, TypeOK, Cause
<1>9. CASE Replace(a)
  BY <1>9, <1>0, <1>c, <1>s DEF Replace, FaithfulFor, TypeOK, StagedOK, StagedFor
<1>10. CASE AfterLostRace(a)
  BY <1>10, <1>0, <1>c, <1>s
     DEF AfterLostRace, FaithfulFor, TypeOK, StagedOK, StagedFor, EntryIntegrity, CompleteExists, Cause
<1>11. CASE Open(a)
  BY <1>11, <1>0 DEF Open, Call, FaithfulFor, TypeOK, StagedOK, StagedFor
<1>12. CASE IOError(a)
  BY <1>12, <1>0, <1>c, <1>s DEF IOError, FaithfulFor, TypeOK, StagedOK, StagedFor, Cause
<1>13. CASE Crash(a)
  BY <1>13, <1>0, <1>c, <1>s DEF Crash, FaithfulFor, TypeOK
<1>14. CASE Disturb(a)
  BY <1>14, <1>0, <1>c, <1>s DEF Disturb, FaithfulFor, TypeOK
<1> QED
  BY <1>1, <1>2, <1>3, <1>4, <1>5, <1>6, <1>7, <1>8, <1>9, <1>10, <1>11, <1>12, <1>13, <1>14
     DEF WriteStep, Environment

LEMMA NextFaithful == ASSUME IInv, Faithful, [Next]_vars PROVE Faithful'
<1>0. TypeOK /\ StagedOK
  BY DEF IInv
<1> SUFFICES ASSUME NEW b \in Attempts PROVE FaithfulFor(b)'
  BY DEF Faithful
<1>f. FaithfulFor(b)
  BY DEF Faithful
<1>1. ASSUME NEW a \in Attempts, WriteStep(a) \/ Environment(a) PROVE FaithfulFor(b)'
  <2>1. CASE a = b
    BY <1>1, <1>f, <2>1, OwnFaithful
  <2>2. CASE a # b
    BY <1>0, <1>1, <1>f, <2>2, StepFrame, HistoryFrame, OtherFaithful
  <2> QED
    BY <2>1, <2>2
<1>2. ASSUME NEW d \in Digests, Decay(d) PROVE FaithfulFor(b)'
  BY <1>2, <1>f, OtherFaithful DEF Decay
<1>3. CASE UNCHANGED vars
  BY <1>3, <1>f, OtherFaithful DEF vars
<1> QED
  BY <1>1, <1>2, <1>3 DEF Next, Done

LEMMA AlwaysFaithful == Spec => []Faithful
<1>1. Init => Faithful
  BY DEF Init, Faithful, FaithfulFor
<1>2. IInv /\ Faithful /\ [Next]_vars => Faithful'
  BY NextFaithful
<1> QED
  BY <1>1, <1>2, Inductive, PTL DEF Spec

(* write() never refuses a call for a reason of its own making: with a
   quarantine nobody touched, no failing call, no decayed bytes and no other
   attestation under the digest, neither the re-bind, the check of the copy,
   the marker nor a lost race turns the caller away. *)
THEOREM RefusalsAreCaused == Spec => []RefusalHasCause
<1>1. Faithful => RefusalHasCause
  BY DEF Faithful, FaithfulFor, Cause, RefusalHasCause
<1> QED
  BY <1>1, AlwaysFaithful, PTL
=============================================================================
