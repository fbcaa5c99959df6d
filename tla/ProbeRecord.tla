---------------------------- MODULE ProbeRecord ----------------------------
(***************************************************************************)
(* The per-probe record of src/bhola_probes.py: what the dashboard is told *)
(* about a probe between two of its runs.  Pure operators; the state they  *)
(* act on belongs to ProbeManager.                                         *)
(***************************************************************************)
EXTENDS ProbeOutcomes

CONSTANT Epoch          \* wall-clock seconds at which a tick may read the time

ASSUME EpochAssumption == Epoch \subseteq Nat \ {0}

Record == [values : Reading \cup {NoReading},
           status : Status,
           source_state : SourceState \cup {"pending"},
           confidence : Confidence,
           last_success_epoch : Epoch \cup {0},
           has_good_result : BOOLEAN]

(* NoReading is also what the fallback dictionary holds.                   *)
NewRecord == [values |-> NoReading, status |-> "unknown",
              source_state |-> "pending", confidence |-> "low",
              last_success_epoch |-> 0, has_good_result |-> FALSE]

(* self.values.update(outcome.values): an empty dictionary changes nothing.*)
UpdateValues(old, new) == IF new = NoReading THEN old ELSE new

(* Mutants of Apply: a failure overwrites everything but the time of the   *)
(* last success, and a failed refresh stays "fresh".                       *)
ApplyOverwrites(rec, outcome, wall) ==
    [values |-> outcome.values, status |-> outcome.status,
     source_state |-> outcome.source_state, confidence |-> outcome.confidence,
     last_success_epoch |-> IF outcome.success THEN wall ELSE rec.last_success_epoch,
     has_good_result |-> outcome.success]
ApplyKeepsFresh(rec, outcome, wall) ==
    IF outcome.success
    THEN [rec EXCEPT !.status = outcome.status, !.source_state = "fresh",
                     !.last_success_epoch = wall, !.has_good_result = TRUE]
    ELSE [rec EXCEPT !.status = "degraded"]

Apply(rec, outcome, wall) ==
    CASE outcome.success ->
            [values |-> UpdateValues(rec.values, outcome.values),
             status |-> outcome.status,
             source_state |-> "fresh",
             confidence |-> outcome.confidence,
             last_success_epoch |-> wall,
             has_good_result |-> TRUE]
      [] ~outcome.success /\ rec.has_good_result ->
            [rec EXCEPT !.status = "degraded",
                        !.source_state = outcome.source_state,
                        !.confidence = "low"]
      [] ~outcome.success /\ ~rec.has_good_result ->
            [rec EXCEPT !.status = outcome.status,
                        !.source_state = outcome.source_state,
                        !.confidence = outcome.confidence]
=============================================================================
