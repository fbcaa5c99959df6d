-------------------------- MODULE ProviderProcess --------------------------
(***************************************************************************)
(* The provider's process: the main thread of run_provider (ProviderLoop)  *)
(* with the probe manager and the executor's threads (ProbeManager) in it, *)
(* step by step.  Provider is what it promises.                            *)
(*                                                                         *)
(* With --once there is no manager, and its variables stay as they are.    *)
(***************************************************************************)
EXTENDS ProbeManager

CONSTANTS Source, NoDoc, MaxSignals             \* as in ProviderLoop

ASSUME SourceAssumption == Source # {} /\ MaxSignals \in Nat

VARIABLES loop, once, stop, signals, health, completed, payload, stored, status,
          lateWrites                            \* see ProviderLoop

Main == INSTANCE ProviderLoop

loopVars == <<loop, once, stop, signals, health, completed, payload, stored, status,
              lateWrites>>
pvars == <<vars, loopVars>>

PInit == Init /\ Main!Init

(* The clock is read for the pass, and the scheduler's collectors begin.   *)
PTop == Main!Top /\ IF once \/ stop THEN UNCHANGED vars ELSE ReadClock

(* They have run; tick begins with the wall clock and its futures.         *)
PCollect == Main!RunDue /\ IF once THEN UNCHANGED vars
                                   ELSE \E wall \in Epoch : BeginTick(wall)

(* tick and close go through futures and probes without the loop.          *)
PTick == /\ \/ \E p \in Probe : SkipFuture(p) \/ ReapFuture(p) \/ Submit(p)
            \/ EndReap
         /\ UNCHANGED loopVars

PEndTick == EndTick /\ Main!AfterTick

PAlone == Main!Alone /\ UNCHANGED vars

PSignal == Main!Signal /\ UNCHANGED vars

PClose == Main!Leave /\ IF once THEN UNCHANGED vars ELSE Close

PClosing == /\ (\E p \in Probe : CancelFuture(p)) \/ Shutdown
            /\ UNCHANGED loopVars

(* Mutant of PClosed: run_provider does not wait for close.                *)
LeaveAtOnce == Main!Return /\ UNCHANGED vars

PClosed == Main!Return /\ CloseDone

PWork == /\ \E w \in Worker : WorkerTake(w) \/ WorkerFinish(w)
         /\ UNCHANGED loopVars

PElapse == ~once /\ Elapse /\ UNCHANGED loopVars

PEnded == loop \in {"exited", "stuck"} /\ UNCHANGED pvars

PMain == \/ PTop \/ PCollect \/ PTick \/ PEndTick \/ PAlone
         \/ PClose \/ PClosing \/ PClosed

PNext == PMain \/ PSignal \/ PWork \/ PElapse \/ PEnded

PSpec == PInit /\ [][PNext]_pvars

(* The operating system runs every thread, the calls that the main thread  *)
(* makes return, and a probe ends: a command is killed at its time-out,    *)
(* and a request has finitely many operations with a time-out each.        *)
PFairness ==
    /\ WF_pvars(PMain)
    /\ \A w \in Worker : /\ WF_pvars(WorkerTake(w) /\ UNCHANGED loopVars)
                         /\ WF_pvars(WorkerFinish(w) /\ UNCHANGED loopVars)

PFairSpec == PSpec /\ PFairness

-----------------------------------------------------------------------------
(* Where the manager's main thread is, and where run_provider is.          *)
InStep ==
    /\ pc = "collect" <=> loop = "collect"
    /\ pc \in {"reap", "submit"} <=> loop = "tick"
    /\ pc \in {"cancel", "join"} <=> loop = "closing"
    /\ pc = "closed" <=> loop = "exited"

(* The manager is only ever ticked and closed by run_provider, and without *)
(* one, with --once, there is nothing to tick and to close.                *)
Together ==
    /\ loop \in Main!Place /\ once \in BOOLEAN
    /\ ~once => InStep
    /\ once => /\ pc = "idle" /\ active = {} /\ queue = <<>>
               /\ \A w \in Worker : worker[w] = Idle
               /\ loop \notin {"tick", "closing"}

(* However the process ends, no probe is queued or running in its threads, *)
(* so that nothing keeps the interpreter from exiting.                     *)
ExitLeavesNoThread ==
    loop = "exited" => queue = <<>> /\ \A w \in Worker : worker[w] = Idle

(* The process implements Provider: the futures that tick has yet to look  *)
(* at are those it reaps or skips, and the manager of a process with       *)
(* --once, which has none, is a closed one.                                *)

ToReapBar == IF pc = "reap" THEN toCheck ELSE {}

ModeOfProcess == IF once THEN "closed" ELSE ModeBar

Promise == INSTANCE Provider WITH
    Allowed <- {S \in SUBSET Probe : Cardinality(S) <= MaxWorkers},
    phase <- PhaseBar, outcome <- OutcomeBar, mode <- ModeOfProcess,
    toReap <- ToReapBar

(* Every behaviour of the process, whatever its threads do between the     *)
(* steps of the loop, is one that Provider allows; what is shown of the    *)
(* document, the exit and the last write there holds of the process.       *)
ImplementsProvider == Promise!Spec

(* A run that ended is published by a later tick, or close gives it up,    *)
(* unless a signal has blocked the loop.                                   *)
FinishedIsPublished ==
    \A p \in Probe : future[p] = "finished" ~> future[p] = "none" \/ loop = "stuck"

(* close() returns, whatever was queued or running when it was called, and *)
(* with it the provider.                                                   *)
CloseReturns == loop = "closing" ~> loop = "exited"
=============================================================================
