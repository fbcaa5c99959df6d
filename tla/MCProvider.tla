---------------------------- MODULE MCProvider -----------------------------
(***************************************************************************)
(* Instances of Provider for TLC: two sources, and probes that succeed or  *)
(* fail.                                                                   *)
(***************************************************************************)
EXTENDS Provider

CONSTANTS r1

(* One probe that succeeds, fails or hits its time-out.                    *)
OneProbe == {"network_dns"}
OneOutcomes == [p \in OneProbe |-> OutcomesOf(p)]
OneAllowed == SUBSET OneProbe
=============================================================================
