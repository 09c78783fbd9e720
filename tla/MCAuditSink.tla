---------------------------- MODULE MCAuditSink ----------------------------
(* Small instances of AuditSink: two denials of one digest in one second, the
   first with the longer record; beside them a denial of another digest in that
   second. *)
EXTENDS AuditSink, TLC

MCDenied == Attempts
MCStamp  == [a \in Attempts |-> "t1"]
MCShort  == [a \in Attempts |-> IF a = "other" THEN "d2" ELSE "d1"]
MCLength == [a \in Attempts |-> IF a = "early" THEN 2 ELSE 1]
=============================================================================
