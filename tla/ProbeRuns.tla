----------------------------- MODULE ProbeRuns -----------------------------
(***************************************************************************)
(* What ProbeManager promises its caller, without threads, futures, queue  *)
(* or time: a probe is run again only when its previous run has been       *)
(* published, only an Allowed set of probes runs together, the result of a *)
(* run is applied to the record of that probe and to nothing else, and     *)
(* closing lets no run go on.                                              *)
(***************************************************************************)
EXTENDS ProbeRecord

CONSTANTS Probe, Outcomes, NoResult,
          Allowed       \* the sets of probes that may be in progress together

VARIABLES
    phase,      \* how far the run of a probe has come
    outcome,    \* what an ended run has returned
    record,     \* what is known about the probe
    mode        \* "open", then "closing", then "closed"

rvars == <<phase, outcome, record, mode>>

Phase == {"none", "pending", "running", "finished"}

InProgress == {p \in Probe : phase[p] # "none"}

RInit ==
    /\ phase = [p \in Probe |-> "none"]
    /\ outcome = [p \in Probe |-> NoResult]
    /\ record = [p \in Probe |-> NewRecord]
    /\ mode = "open"

Start(p) ==
    /\ mode = "open" /\ phase[p] = "none"
    /\ InProgress \cup {p} \in Allowed
    /\ phase' = [phase EXCEPT ![p] = "pending"]
    /\ UNCHANGED <<outcome, record, mode>>

Begin(p) ==
    /\ mode # "closed" /\ phase[p] = "pending"
    /\ phase' = [phase EXCEPT ![p] = "running"]
    /\ UNCHANGED <<outcome, record, mode>>

Finish(p) ==
    /\ mode # "closed" /\ phase[p] = "running"
    /\ phase' = [phase EXCEPT ![p] = "finished"]
    /\ \E o \in Outcomes[p] \cup {ErrorOutcome} :
          outcome' = [outcome EXCEPT ![p] = o]
    /\ UNCHANGED <<record, mode>>

Publish(p) ==
    /\ mode = "open" /\ phase[p] = "finished"
    /\ phase' = [phase EXCEPT ![p] = "none"]
    /\ outcome' = [outcome EXCEPT ![p] = NoResult]
    /\ \E wall \in Epoch :
          record' = [record EXCEPT ![p] = Apply(@, outcome[p], wall)]
    /\ mode' = mode

BeginClosing ==
    /\ mode = "open" /\ mode' = "closing"
    /\ UNCHANGED <<phase, outcome, record>>

EndClosing ==
    /\ mode = "closing" /\ \A p \in Probe : phase[p] # "running"
    /\ mode' = "closed"
    /\ phase' = [p \in Probe |-> "none"]
    /\ outcome' = [p \in Probe |-> NoResult]
    /\ record' = record

RNext == \/ \E p \in Probe : Start(p) \/ Begin(p) \/ Finish(p) \/ Publish(p)
         \/ BeginClosing \/ EndClosing

RSpec == RInit /\ [][RNext]_rvars
=============================================================================
