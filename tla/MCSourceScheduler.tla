------------------------- MODULE MCSourceScheduler -------------------------
(***************************************************************************)
(* Instances of SourceScheduler for TLC: a source that a long pass makes   *)
(* miss runs, and one whose interval exceeds the longest pass.             *)
(***************************************************************************)
EXTENDS SourceScheduler

Sources == {"system", "power"}
RankOf == [s \in Sources |-> IF s = "system" THEN 1 ELSE 2]
IntervalOf == [s \in Sources |-> IF s = "system" THEN 2 ELSE 5]
=============================================================================
