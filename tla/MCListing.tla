----------------------------- MODULE MCListing -----------------------------
(* Small instances of Listing for TLC. *)
EXTENDS Listing, TLC

CONSTANTS t1, t2, r1, r2

TwoTraversals == {t1, t2}
TwoRequests == {r1, r2}
ThreeIds == 1..3

(* Of the times it matters which are equal and whether the last is zero: these  *)
(* are all the cases of three snapshots, up to the names of the snapshots.      *)
ThreeTimes == {<<1, 2, 3>>, <<2, 2, 1>>, <<2, 1, 1>>, <<1, 1, 1>>, <<0, 1, 2>>, <<1, 1, 0>>}

\* Clients and handlers are interchangeable; sound for safety only.
Symmetry == Permutations(TwoTraversals) \cup Permutations(TwoRequests)
=============================================================================
