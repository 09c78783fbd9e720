--------------------------- MODULE MCTrustedStore ---------------------------
(* Small instances of TrustedStore: two paths with two contents each; e1 and
   e2 are two attestations of one artifact (an ingest repeated later signs a
   new created_at), e3 attests another one. *)
EXTENDS TrustedStoreRefinement, TLC

CONSTANTS e1, e2, e3, weights, cache, b1, b2

D1 == weights :> b1
D2 == weights :> b2
D3 == weights :> b1 @@ cache :> b1
OnePath  == e1 :> D1 @@ e2 :> D1 @@ e3 :> D2      \* Paths = {weights}
TwoPaths == e1 :> D1 @@ e2 :> D1 @@ e3 :> D3
Symmetry == Permutations(Attempts)
=============================================================================
