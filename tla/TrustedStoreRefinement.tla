----------------------- MODULE TrustedStoreRefinement -----------------------
(***************************************************************************)
(* TrustedStore implements WriteOnceStore.  A call decides in the step that *)
(* sets its result; for a commit that is the rename, before the caller has *)
(* heard of it.                                                            *)
(***************************************************************************)
EXTENDS TrustedStore

EntryOf(d) == IF keys[d] = Absent THEN Absent ELSE keys[d].att
WantOf(a)  == IF call[a] = NoCall THEN NoCall ELSE call[a].env
OutcomeOf(a) ==
    IF pc[a] = "idle" THEN "none"
    ELSE IF pc[a] = "crashed" THEN "crashed"
    ELSE IF result[a] = "none" THEN "open" ELSE result[a]

entryBar   == [d \in Digests |-> EntryOf(d)]
wantBar    == [a \in Attempts |-> WantOf(a)]
outcomeBar == [a \in Attempts |-> OutcomeOf(a)]

WOS == INSTANCE WriteOnceStore
         WITH entry <- entryBar, want <- wantBar, outcome <- outcomeBar,
              Nobody <- NoCall

(* Every interleaving of the store's file-system steps is, to its callers, a
   run of a write-once map whose calls take effect one at a time. *)
Linearizable == WOS!Spec

(* ... and every call is decided unless its process dies first: racing writers
   do not keep each other from an answer (local_fs.py:114-122). *)
CallsDecided == WOS!Fairness
=============================================================================
