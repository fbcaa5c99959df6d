--------------------------- MODULE MCProbeTiming ---------------------------
(***************************************************************************)
(* Instance of ProbeTiming for TLC: three probes on two workers, with the  *)
(* shape of the default configuration (a run is much shorter than the      *)
(* interval).  The room for the three turns is exactly enough.  One probe  *)
(* succeeds or raises, the other two always raise.                         *)
(***************************************************************************)
EXTENDS ProbeTiming, TLC

CONSTANTS r1, w1, w2

Names == {"network_gateway", "network_dns", "network_public_ip"}
NameRank == [p \in Names |-> CASE p = "network_gateway"   -> 1
                               [] p = "network_dns"       -> 3
                               [] p = "network_public_ip" -> 5]
NameInterval == [p \in Names |-> CASE p = "network_gateway"   -> 10
                                   [] p = "network_dns"       -> 10
                                   [] p = "network_public_ip" -> 11]
NameRun == [p \in Names |-> 1]
NameOutcomes == [p \in Names |-> IF p = "network_public_ip"
                                 THEN {ProbePublicIp("response", TRUE, r1)}
                                 ELSE {}]
Workers2 == {w1, w2}
WorkerSymmetry == Permutations(Workers2)

\* What the theorems about waiting suppose holds of this instance.
ASSUME RoomAssumption == Roomy
=============================================================================
