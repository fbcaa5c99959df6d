---------------------------- MODULE MCDesktop ------------------------------
(***************************************************************************)
(* An instance of Desktop for TLC: two monitors, of which one has a title  *)
(* that another window may bear.                                           *)
(***************************************************************************)
EXTENDS Desktop

CONSTANTS m1, m2

Heads == {m1, m2}
SharedHeads == {m1}
=============================================================================
