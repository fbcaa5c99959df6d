---------------------------- MODULE MCLauncher -----------------------------
(***************************************************************************)
(* Instances of Launcher for TLC: two monitors.                            *)
(***************************************************************************)
EXTENDS Launcher, TLC

CONSTANTS m1, m2

Heads == {m1, m2}
HeadSymmetry == Permutations(Heads)
=============================================================================
