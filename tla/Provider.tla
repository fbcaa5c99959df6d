------------------------------ MODULE Provider ------------------------------
(***************************************************************************)
(* run_provider and main of src/bhola_provider.py: the loop that composes  *)
(* the scheduler, the probe manager and the state file, and the signal     *)
(* that stops it.                                                          *)
(*                                                                         *)
(* The parts are used by what they promise: the main thread is             *)
(* ProviderLoop, and the probe manager is ProbeRuns.  ProviderProcess has  *)
(* the manager and its threads in their place, and implements this.        *)
(***************************************************************************)
EXTENDS ProbeRecord

CONSTANTS Probe, Outcomes, NoResult, Allowed,   \* as in ProbeRuns
          Source, NoDoc, MaxSignals             \* as in ProviderLoop

ASSUME ProviderAssumption == Source # {} /\ MaxSignals \in Nat

VARIABLES
    phase, outcome, record, mode,   \* of the probe manager: see ProbeRuns
    toReap,                         \* the futures that tick has yet to look at
    loop, once, stop, signals, health, completed, payload, stored, status,
    lateWrites                      \* of the main thread: see ProviderLoop

Runs == INSTANCE ProbeRuns
Main == INSTANCE ProviderLoop

runVars == <<phase, outcome, record, mode>>
loopVars == <<loop, once, stop, signals, health, completed, payload, stored, status,
              lateWrites>>
vars == <<runVars, toReap, loopVars>>

Document == [health : [Source -> Main!Health], records : [Probe -> Record]]

TypeOK ==
    /\ phase \in [Probe -> Runs!Phase]
    /\ record \in [Probe -> Record] /\ payload \in [Probe -> Record]
    /\ mode \in {"open", "closing", "closed"}
    /\ toReap \subseteq Probe
    /\ loop \in Main!Place
    /\ once \in BOOLEAN /\ stop \in BOOLEAN /\ completed \in BOOLEAN
    /\ signals \in 0..MaxSignals
    /\ health \in [Source -> Main!Health]
    /\ stored \in Document \cup {NoDoc}
    /\ status \in {"running", "ok", "error"}
    /\ lateWrites \in 0..2

(* With --once there is no probe manager: it is closed from the start.     *)
Init ==
    /\ phase = [p \in Probe |-> "none"]
    /\ outcome = [p \in Probe |-> NoResult]
    /\ record = [p \in Probe |-> NewRecord]
    /\ toReap = {}
    /\ Main!Init
    /\ mode = IF once THEN "closed" ELSE "open"

-----------------------------------------------------------------------------
(* The collectors have run, and tick goes through the futures.             *)

Collect ==
    /\ Main!RunDue
    /\ toReap' = Runs!InProgress
    /\ UNCHANGED runVars

(* A future that is not done when tick comes to it is left for the next    *)
(* tick; one that became done since tick began is not.                     *)
Skip(p) ==
    /\ p \in toReap /\ phase[p] # "finished"
    /\ toReap' = toReap \ {p}
    /\ UNCHANGED <<runVars, loopVars>>

Reap(p) ==
    /\ p \in toReap
    /\ Runs!Publish(p)
    /\ toReap' = toReap \ {p}
    /\ UNCHANGED loopVars

Submit(p) ==
    /\ loop = "tick" /\ toReap = {}
    /\ Runs!Start(p)
    /\ UNCHANGED <<toReap, loopVars>>

EndTick ==
    /\ toReap = {}
    /\ Main!AfterTick
    /\ UNCHANGED <<toReap, runVars>>

Close ==
    /\ Main!Leave
    /\ IF once THEN UNCHANGED runVars ELSE Runs!BeginClosing
    /\ toReap' = toReap

Closed ==
    /\ Main!Return
    /\ Runs!EndClosing
    /\ toReap' = toReap

(* The main thread where it has nothing to do with the manager.            *)
Alone == (Main!Top \/ Main!Alone) /\ UNCHANGED <<toReap, runVars>>

Signal == Main!Signal /\ UNCHANGED <<toReap, runVars>>

(* The worker threads go on during all of this.                            *)
Work(p) ==
    /\ Runs!Begin(p) \/ Runs!Finish(p)
    /\ UNCHANGED <<toReap, loopVars>>

Ended == loop \in {"exited", "stuck"} /\ UNCHANGED vars

MainStep == \/ Alone \/ Collect \/ EndTick \/ Close \/ Closed
            \/ \E p \in Probe : Skip(p) \/ Reap(p) \/ Submit(p)

Next == MainStep \/ Signal \/ (\E p \in Probe : Work(p)) \/ Ended

Spec == Init /\ [][Next]_vars

(* The main thread runs; a tick submits finitely many probes; every probe  *)
(* ends in time (ProviderProcess says why); and passes that collect come   *)
(* again and again, for the "system" source is due every second.           *)
Fairness ==
    /\ WF_vars(MainStep)
    /\ \A p \in Probe : WF_vars(Work(p))
    /\ SF_vars(Collect /\ completed')

FairSpec == Spec /\ Fairness

-----------------------------------------------------------------------------
BetweenPasses == loop \in {"wait", "locked", "asleep", "relocked", "top"}

(* After a pass that wrote, the file shows what the manager knows and how  *)
(* the sources fared, the results this very pass has reaped included.      *)
FileShowsRecords ==
    BetweenPasses /\ completed =>
        stored = [health |-> health, records |-> record]

(* No dashboard ever sees a document that lacks a source: the first one    *)
(* written has collected them all, or their fallbacks.                     *)
FirstDocumentComplete ==
    stored # NoDoc => \A s \in Source : stored.health[s] # "none"

(* However the loop is left, by the flag, by --once or by an exception,    *)
(* no probe is left queued or running.                                     *)
ExitIsQuiet ==
    loop = "exited" => mode = "closed" /\ \A p \in Probe : phase[p] = "none"

(* Once asked to stop, the provider writes at most one more document.      *)
StopEndsWriting == lateWrites <= 1

(* The strengthening that makes these inductive: what a pass knows at each *)
(* of its steps, and when the manager is open.                             *)
ProviderInv ==
    /\ FileShowsRecords /\ FirstDocumentComplete /\ ExitIsQuiet /\ StopEndsWriting
    /\ loop \in Main!Place /\ lateWrites \in 0..2
    /\ loop \in {"tick", "write"} \/ completed =>
          \A s \in Source : health[s] # "none"
    /\ loop = "write" => completed /\ payload = record
    /\ once => /\ mode = "closed" /\ payload = record
               /\ \A p \in Probe : phase[p] = "none"
               /\ loop \notin {"tick", "closing"}
    /\ ~once /\ loop \notin {"closing", "exited"} => mode = "open"
    /\ toReap # {} => loop = "tick"
    /\ loop \in {"collect", "tick", "write"} /\ stop => lateWrites = 0
    /\ lateWrites > 0 => stop

(* What the manager knows reaches the file again and again.                *)
FileCurrent == stored # NoDoc /\ stored.records = record
FileCatchesUp == []<>(FileCurrent \/ loop \in {"exited", "stuck"})

(* Once the flag is set the provider exits, even if it is collecting,      *)
(* writing or waiting for a probe then, unless a later signal finds the    *)
(* event's lock held: the launcher's SIGTERM, say, that follows the        *)
(* terminal's SIGINT.  Nothing but such a signal keeps it from exiting     *)
(* (SignalIsHeeded says what one that comes first does).                   *)
StopIsHeeded == stop ~> loop \in {"exited", "stuck"}

(* docs/architecture.md: "The provider handles SIGINT and SIGTERM with an  *)
(* event-driven stop".  After a signal the provider exits.                 *)
SignalIsHeeded == (signals > 0) ~> (loop = "exited")
=============================================================================
