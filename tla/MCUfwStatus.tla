---------------------------- MODULE MCUfwStatus ------------------------------
(***************************************************************************)
(* Instance of UfwStatus for TLC.  The limit is exactly two periods and a  *)
(* run, as 120 seconds are: the timer adds up to 10 seconds to its 45, and *)
(* a run may take 10.                                                      *)
(***************************************************************************)
EXTENDS UfwStatus, TLC

CONSTANTS i1, i2

Inodes == {i1, i2}
AnyInode == Permutations(Inodes)

(* One listing for each card; the details of a class are shown alike.      *)
Listings == {Evidence("active", TRUE, "verified_runtime_active"),
             Evidence("inactive", TRUE, "verified_runtime_inactive"),
             Evidence("unconfirmed", FALSE, "inconsistent_ruleset"),
             Evidence("error", FALSE, "timeout")}
=============================================================================
