----------------------------- MODULE AuditSink -----------------------------
(***************************************************************************)
(* PromotionAuditSink.emit (promotion/audit.py), called by several          *)
(* promotions of one store at once: the shared index/promotions.jsonl, to  *)
(* which each appends its record, and index/denied/, where a denial is      *)
(* retained a second time under a name made of its second and its digest's *)
(* first 16 hex digits.                                                     *)
(*                                                                         *)
(* Both files are written through buffered handles.  A flush writes until   *)
(* the buffer is empty or a write(2) fails, and a write(2) may take only a  *)
(* part: the rest then goes, in the index, behind whatever others appended *)
(* meanwhile, in a retained file, to its own offset.  The index is the      *)
(* sequence of the pieces written to it; a line ends with a last piece.     *)
(***************************************************************************)
EXTENDS Naturals, Sequences, FiniteSets, Functions

CONSTANTS
    Attempts,       \* promotion attempts that emit one record each
    Denied,         \* those whose outcome is in _DENY_OUTCOMES
    Stamp,          \* Stamp[a]: promoted_at, to the second
    Short,          \* Short[a]: the digest's first 16 digits, or "unknown"
    Length,         \* Length[a]: the bytes of a's record
    MaxCuts,        \* bound: the appends cut short, of all attempts
    SinkFaults      \* what may go wrong, of SinkFaultKinds

SinkFaultKinds == {"unencodable", "noDirectory", "shortWrite", "append", "sync", "retain", "crash"}

ASSUME SinkAssumption ==
    /\ IsFiniteSet(Attempts)
    /\ Denied \subseteq Attempts
    /\ Length \in [Attempts -> Nat \ {0}]
    /\ MaxCuts \in Nat
    /\ SinkFaults \subseteq SinkFaultKinds

(* Mutant: the name is the stamp alone. *)
RetainedNameUndigested(a) == <<Stamp[a], "json">>

(* The name of a's file in index/denied/. *)
RetainedName(a) == <<Stamp[a], Short[a]>>

Names == {RetainedName(a) : a \in Attempts}

Pieces == [who : Attempts, first : BOOLEAN, last : BOOLEAN]
Stages == {"emit", "append", "close", "sync", "retain", "write", "rest", "done", "warned", "dead"}

(* What a file of index/denied/ holds: from offset 0 the record of `top`, whole
   or its head, and the end of something longer if `size` says so; "none" where
   it is nobody's. *)
Absent   == [top |-> "none", whole |-> FALSE, size |-> 0]
Contents == [top : Attempts \cup {"none"}, whole : BOOLEAN,
             size : {0} \cup UNION {0 .. Length[a] : a \in Attempts}]

VARIABLES
    index,      \* the pieces of promotions.jsonl, in file order
    cuts,       \* history: how many of its writes were cut short
    denied,     \* denied[n]: what index/denied/ holds under n
    at,         \* at[a]: the next step of a's emit()
    opened      \* history: who opened its file in index/denied/

avars == <<index, cuts, denied, at, opened>>

AInit ==
    /\ index  = <<>>
    /\ cuts   = 0
    /\ denied = [n \in Names |-> Absent]
    /\ at     = [a \in Attempts |-> "emit"]
    /\ opened = {}

Go(a, from, to) == at[a] = from /\ at' = [at EXCEPT ![a] = to]

Begun(a) == \E i \in DOMAIN index : index[i].who = a

(* The next piece of a's record, its rest if `last`. *)
Put(a, last) == index' = Append(index, [who |-> a, first |-> ~ Begun(a), last |-> last])

(* write(2) takes a part of what it is given. *)
Cut(a) ==
    /\ "shortWrite" \in SinkFaults
    /\ cuts < MaxCuts /\ cuts' = cuts + 1
    /\ Put(a, FALSE)

AfterMirror(a)  == IF a \in Denied THEN "retain" ELSE "done"
-----------------------------------------------------------------------------
(* The logger's line, which nothing precedes, then canonical_bytes, makedirs and
   open("ab").  A record that cannot be encoded, a directory or a file that
   cannot be had, is a warning. *)
Emit(a) ==
    /\ \/ Go(a, "emit", "append")
       \/ SinkFaults \cap {"unencodable", "noDirectory"} # {} /\ Go(a, "emit", "warned")
    /\ UNCHANGED <<index, cuts, denied, opened>>

(* Mutant: the file is opened "wb". *)
AppendTruncating(a) ==
    /\ Go(a, "append", "sync")
    /\ index' = <<[who |-> a, first |-> TRUE, last |-> TRUE]>>
    /\ UNCHANGED <<cuts, denied, opened>>

(* Mutant: the record and its newline are two writes. *)
AppendInTwo(a) ==
    /\ \/ at[a] = "append" /\ ~ Begun(a) /\ Put(a, FALSE) /\ UNCHANGED at
       \/ Begun(a) /\ Go(a, "append", "sync") /\ Put(a, TRUE)
    /\ UNCHANGED <<cuts, denied, opened>>

(* write, flush: one write(2) at the end of the file takes all that is left, or
   a part, after which the flush goes on with the rest, or fails. *)
AppendLine(a) ==
    /\ \/ Go(a, "append", "sync") /\ Put(a, TRUE) /\ UNCHANGED cuts
       \/ at[a] = "append" /\ Cut(a) /\ UNCHANGED at
       \/ "append" \in SinkFaults /\ Go(a, "append", "close") /\ UNCHANGED <<index, cuts>>
    /\ UNCHANGED <<denied, opened>>

(* The handle's close() after a flush that failed flushes once more: what is left
   of the buffer is written now or never.  A warning either way. *)
CloseTorn(a) ==
    /\ \/ Go(a, "close", "warned") /\ Put(a, TRUE) /\ UNCHANGED cuts
       \/ at[a] = "close" /\ Cut(a) /\ UNCHANGED at
       \/ Go(a, "close", "warned") /\ UNCHANGED <<index, cuts>>
    /\ UNCHANGED <<denied, opened>>

(* os.fsync, which may fail after the record is in the file. *)
SyncLine(a) ==
    /\ \/ Go(a, "sync", AfterMirror(a))
       \/ "sync" \in SinkFaults /\ Go(a, "sync", "warned")
    /\ UNCHANGED <<index, cuts, denied, opened>>

(* _retain_denied: open("wb") truncates the file whoever wrote it. *)
OpenRetained(a) ==
    /\ \/ /\ Go(a, "retain", "write")
          /\ denied' = [denied EXCEPT ![RetainedName(a)] = Absent]
          /\ opened' = opened \cup {a}
       \/ /\ "retain" \in SinkFaults
          /\ Go(a, "retain", "warned")
          /\ UNCHANGED <<denied, opened>>
    /\ UNCHANGED <<index, cuts>>

(* The file now begins with `top` and is n bytes long, unless it was longer. *)
Overlay(a, top, whole, n) ==
    denied' = [denied EXCEPT ![RetainedName(a)] =
                  [top |-> top, whole |-> whole, size |-> IF @.size > n THEN @.size ELSE n]]

(* Mutant: the retained record is appended to what the file holds. *)
WriteRetainedAppending(a) ==
    /\ Go(a, "write", "done")
    /\ denied' = [denied EXCEPT ![RetainedName(a)] =
                      [top |-> a, whole |-> TRUE, size |-> @.size + Length[a]]]
    /\ UNCHANGED <<index, cuts, opened>>

(* The buffered record is written at close(), from offset 0 of the same file: a
   longer one that another writer put there meanwhile keeps its end.  The write
   may take only a part, or fail. *)
WriteRetained(a) ==
    /\ \/ Go(a, "write", "done") /\ Overlay(a, a, TRUE, Length[a])
       \/ /\ "shortWrite" \in SinkFaults
          /\ Go(a, "write", "rest")
          /\ \E n \in 1 .. Length[a] - 1 : Overlay(a, a, FALSE, n)
       \/ "retain" \in SinkFaults /\ Go(a, "write", "warned") /\ UNCHANGED denied
    /\ UNCHANGED <<index, cuts, opened>>

(* The rest, where its head ended: completes the record if the head is still
   there, and makes a mixture of whatever else is. *)
FinishRetained(a) ==
    /\ \/ /\ Go(a, "rest", "done")
          /\ LET held == denied[RetainedName(a)] IN
             IF held.top = a /\ ~ held.whole
             THEN Overlay(a, a, TRUE, Length[a])
             ELSE Overlay(a, "none", FALSE, Length[a])
       \/ "retain" \in SinkFaults /\ Go(a, "rest", "warned") /\ UNCHANGED denied
    /\ UNCHANGED <<index, cuts, opened>>

(* The process is killed anywhere in emit(). *)
Die(a) ==
    /\ "crash" \in SinkFaults
    /\ \E from \in Stages \ {"done", "warned", "dead"} : Go(a, from, "dead")
    /\ UNCHANGED <<index, cuts, denied, opened>>

AStep(a) ==
    \/ Emit(a) \/ AppendLine(a) \/ CloseTorn(a) \/ SyncLine(a)
    \/ OpenRetained(a) \/ WriteRetained(a) \/ FinishRetained(a) \/ Die(a)

AEnded == (\A a \in Attempts : at[a] \in {"done", "warned", "dead"}) /\ UNCHANGED avars

ANext == (\E a \in Attempts : AStep(a)) \/ AEnded

ASpec == AInit /\ [][ANext]_avars
-----------------------------------------------------------------------------
(* what a reader of the index finds *)

(* A piece starts a line if the one before it ended with a newline. *)
StartsLine(i) == i = 1 \/ index[i - 1].last

(* a's record is a line of its own: its pieces, with nothing between them. *)
Readable(a) ==
    \E i \in DOMAIN index :
        /\ index[i].who = a /\ index[i].first /\ StartsLine(i)
        /\ \E j \in i .. Len(index) :
              index[j].last /\ \A k \in i .. j : index[k].who = a

(* Whose record is in more than one piece, or not all there. *)
Split == {a \in Attempts : \E i \in DOMAIN index : index[i].who = a /\ ~ index[i].last}

(* a's file in index/denied/ holds its record and nothing else. *)
Retained(a) == denied[RetainedName(a)] = [top |-> a, whole |-> TRUE, size |-> Length[a]]

(* Recorded, as far as emit() told anyone, and not to be found. *)
Lost == {a \in Attempts : at[a] \in {"retain", "write", "rest", "done"} /\ ~ Readable(a)}

ATypeOK ==
    /\ index  \in Seq(Pieces)
    /\ cuts   \in 0 .. MaxCuts
    /\ denied \in [Names -> Contents]
    /\ at     \in [Attempts -> Stages]
    /\ opened \in SUBSET Attempts

(* A write cut short costs two records at most: its own, whose rest may land
   behind another process's line with no error and no warning, and one other,
   glued to its head (audit.py:51-54). *)
OneCutCostsTwo ==
    /\ Cardinality(Lost \ Split) <= cuts
    /\ Cardinality(Lost) <= 2 * cuts

(* A denial is retained twice, so losing one that emit() recorded takes two
   mishaps: an append cut short, its own or one before it, and another denial of
   the same digest within the same second (audit.py:3-7, 60-69). *)
DenialLossTakesTwo ==
    \A a \in Denied : (at[a] = "done" /\ ~ Readable(a) /\ ~ Retained(a)) =>
        /\ Split # {}
        /\ \E r \in opened \ {a} : Stamp[r] = Stamp[a] /\ Short[r] = Short[a]

(* Nothing that any promotion does later, failing or not, takes back a record
   that could be read (audit.py:51-54). *)
NothingUndone == [][\A a \in Attempts : Readable(a) => Readable(a)']_avars
=============================================================================
