--------------------------- MODULE MCProbeManager ---------------------------
(***************************************************************************)
(* The instance of ProbeManager for TLC: three probes compete for two      *)
(* workers.  One has every outcome of the HTTPS probe, which shows what a  *)
(* redirect loop comes to; one succeeds with lost packets or raises, and   *)
(* one always raises.                                                      *)
(***************************************************************************)
EXTENDS ProbeManager, TLC

CONSTANTS r1, w1, w2

Three == {"network_internet", "network_dns", "network_https"}
Rank3 == [p \in Three |-> CASE p = "network_internet" -> 2
                            [] p = "network_dns"      -> 3
                            [] p = "network_https"    -> 4]
Interval3 == [p \in Three |-> 1]
Outcomes3 == [p \in Three |->
                 CASE p = "network_internet" -> {ProbePing("zero", 50, r1)}
                   [] p = "network_dns"      -> {}
                   [] p = "network_https"    -> OutcomesOf(p)]
Workers2 == {w1, w2}
WorkerSymmetry == Permutations(Workers2)
=============================================================================
