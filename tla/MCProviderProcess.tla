------------------------- MODULE MCProviderProcess -------------------------
(***************************************************************************)
(* The instance of ProviderProcess for TLC: two probes on two workers, so  *)
(* that a tick looks at two futures and close cancels two.  Both always    *)
(* raise: what else a probe may return is the matter of MCProbeManager.    *)
(***************************************************************************)
EXTENDS ProviderProcess

CONSTANTS r1, w1, w2

Pair == {"network_internet", "network_https"}
RankPair == [p \in Pair |-> IF p = "network_internet" THEN 2 ELSE 4]
IntervalPair == [p \in Pair |-> 1]
OutcomesPair == [p \in Pair |-> {}]
Workers2 == {w1, w2}
=============================================================================
