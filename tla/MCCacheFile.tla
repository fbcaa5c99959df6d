---------------------------- MODULE MCCacheFile ----------------------------
(***************************************************************************)
(* Instance of CacheFile for TLC: two providers on one file, and a reader. *)
(***************************************************************************)
EXTENDS CacheFile, TLC

CONSTANTS p1, p2, f1, f2, f3, f4

Providers == {p1, p2}
Files == {f1, f2, f3, f4}
FileSymmetry == Permutations(Files) \cup Permutations(Providers)
=============================================================================
