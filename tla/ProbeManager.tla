---------------------------- MODULE ProbeManager ----------------------------
(***************************************************************************)
(* ProbeManager of src/bhola_probes.py and the ThreadPoolExecutor it owns. *)
(*                                                                         *)
(* Two kinds of threads act on the state.  The provider's main thread runs *)
(* tick() and close(); its place in them is "pc".  The worker threads take *)
(* probes from the executor's queue, run them and leave the result in the  *)
(* future.  A step of a worker may come between any two steps of the main  *)
(* thread: between the look at two futures, between two submissions, and   *)
(* between the cancellation of two futures.                                *)
(*                                                                         *)
(* Time is the provider's monotonic clock, and every instant is kept       *)
(* relative to it, so that the state stays finite while time goes on for   *)
(* ever: untilDue[p] is next_run[p] minus the time, and lag is the time    *)
(* minus the "now" the main thread read before it ran the blocking local   *)
(* collectors and then handed to tick.  Hence now - next_run[p] is         *)
(* -(untilDue[p] + lag).                                                   *)
(*                                                                         *)
(* The worker pool is modelled from how the code uses it: a first-in       *)
(* first-out queue of work items, one future per item, and at most         *)
(* Cardinality(Worker) threads.                                            *)
(***************************************************************************)
EXTENDS ProbeRecord, Sequences, FiniteSets

CONSTANTS Probe,        \* the probes, named as in create_probe_manager
          Rank,         \* the place of a probe in the list of definitions
          Interval,     \* the least time between two runs of a probe
          Outcomes,     \* the outcomes a probe may return
          Worker,       \* the executor's threads
          Idle,         \* a worker between two runs
          Raised,       \* the result of a probe that raised an exception
          NoResult,     \* a future without a result
          MaxLag        \* the longest a pass of the local collectors blocks

MaxWorkers == Cardinality(Worker)

ASSUME ProbeAssumption ==
    /\ IsFiniteSet(Probe)
    /\ Rank \in [Probe -> Nat]
    /\ \A p, q \in Probe : Rank[p] = Rank[q] => p = q
    /\ Interval \in [Probe -> Nat \ {0}]
    /\ Outcomes \in [Probe -> SUBSET ProbeOutcome]

(* What ProbeOutcomes proves of every probe of the repository.             *)
ASSUME SuccessAssumption ==
    \A p \in Probe : \A o \in Outcomes[p] :
        /\ o.success => o.status \in {"ok", "degraded"}
        /\ o.source_state = "fresh" => o.success

ASSUME WorkerAssumption == IsFiniteSet(Worker) /\ MaxWorkers \in 1..2

ASSUME TokenAssumption ==
    /\ Idle \notin Probe
    /\ Raised # NoResult
    /\ {Raised, NoResult} \cap ProbeOutcome = {}

ASSUME LagAssumption == MaxLag \in Nat

VARIABLES
    active,     \* the keys of self._active: the futures not yet reaped
    future,     \* the state of the future of each probe
    result,     \* the result a finished future holds
    queue,      \* the executor's queue of work items
    worker,     \* what each worker thread runs
    record,     \* self._records
    untilDue,   \* self._next_run, relative to the clock
    pc,         \* where the main thread is
    toCheck,    \* the futures the loop of tick or close has still to look at
    lag,        \* the age of the "now" the main thread holds
    wallEpoch   \* the wall-clock time tick read when it began

poolVars == <<future, result, queue, worker>>
vars == <<active, future, result, queue, worker, record, untilDue, pc,
          toCheck, lag, wallEpoch>>

FutureState == {"none", "pending", "running", "finished", "cancelled"}
MainState == {"idle", "collect", "reap", "submit", "cancel", "join", "closed"}

TypeOK ==
    /\ active \subseteq Probe
    /\ future \in [Probe -> FutureState]
    /\ result \in [Probe -> ProbeOutcome \cup {Raised, NoResult}]
    /\ queue \in Seq(Probe)
    /\ worker \in [Worker -> Probe \cup {Idle}]
    /\ record \in [Probe -> Record]
    /\ untilDue \in [Probe -> Int]
    /\ pc \in MainState
    /\ toCheck \subseteq Probe
    /\ lag \in Nat
    /\ wallEpoch \in Epoch \cup {0}

Init ==
    /\ active = {}
    /\ future = [p \in Probe |-> "none"]
    /\ result = [p \in Probe |-> NoResult]
    /\ queue = <<>>
    /\ worker = [w \in Worker |-> Idle]
    /\ record = [p \in Probe |-> NewRecord]
    /\ untilDue = [p \in Probe |-> 0]
    /\ pc = "idle"
    /\ toCheck = {}
    /\ lag = 0
    /\ wallEpoch = 0

-----------------------------------------------------------------------------
(* Time.  It passes while the main thread waits for its next pass, while   *)
(* the local collectors block it, and while close() waits for the workers; *)
(* tick itself never blocks.  Once a probe has been due for MaxLag it is   *)
(* due whatever "now" a tick is given, so untilDue stops there.            *)

Elapse ==
    /\ \/ pc \in {"idle", "join"} /\ lag' = lag
       \/ pc = "collect" /\ lag < MaxLag /\ lag' = lag + 1
    /\ untilDue' = [p \in Probe |-> IF untilDue[p] > -MaxLag
                                    THEN untilDue[p] - 1 ELSE untilDue[p]]
    /\ UNCHANGED <<active, poolVars, record, pc, toCheck, wallEpoch>>

(* The main thread reads the clock and starts the local collectors.        *)
ReadClock ==
    /\ pc = "idle"
    /\ pc' = "collect"
    /\ lag' = 0
    /\ UNCHANGED <<active, poolVars, record, untilDue, toCheck, wallEpoch>>

-----------------------------------------------------------------------------
(* tick(now): reap the futures that are done, then submit due probes in    *)
(* the order of their definitions while there is capacity.                 *)

BeginTick(wall) ==
    /\ pc = "collect"
    /\ pc' = "reap"
    /\ toCheck' = active
    /\ wallEpoch' = wall
    /\ UNCHANGED <<active, poolVars, record, untilDue, lag>>

(* Mutants of Done: a future that runs is taken for done, and only a       *)
(* cancelled one is.                                                       *)
RunningCountsAsDone(p) == future[p] \in {"running", "finished", "cancelled"}
OnlyCancelledIsDone(p) == future[p] = "cancelled"

Done(p) == future[p] \in {"finished", "cancelled"}

(* future.result(), with the exception of a failed probe already reduced.  *)
ReapedOutcome(p) ==
    IF result[p] \in ProbeOutcome THEN result[p] ELSE ErrorOutcome

SkipFuture(p) ==
    /\ pc = "reap" /\ p \in toCheck /\ ~Done(p)
    /\ toCheck' = toCheck \ {p}
    /\ UNCHANGED <<active, poolVars, record, untilDue, pc, lag, wallEpoch>>

(* Mutant of ReapFuture: an exception is swallowed and leaves no trace.    *)
SwallowException(p) ==
    /\ pc = "reap" /\ p \in toCheck /\ Done(p)
    /\ toCheck' = toCheck \ {p}
    /\ active' = active \ {p}
    /\ future' = [future EXCEPT ![p] = "none"]
    /\ result' = [result EXCEPT ![p] = NoResult]
    /\ record' = IF result[p] = Raised THEN record
                 ELSE [record EXCEPT ![p] = Apply(@, result[p], wallEpoch)]
    /\ UNCHANGED <<queue, worker, untilDue, pc, lag, wallEpoch>>

ReapFuture(p) ==
    /\ pc = "reap" /\ p \in toCheck /\ Done(p)
    /\ toCheck' = toCheck \ {p}
    /\ active' = active \ {p}
    /\ future' = [future EXCEPT ![p] = "none"]
    /\ result' = [result EXCEPT ![p] = NoResult]
    /\ record' = [record EXCEPT ![p] = Apply(@, ReapedOutcome(p), wallEpoch)]
    /\ UNCHANGED <<queue, worker, untilDue, pc, lag, wallEpoch>>

EndReap ==
    /\ pc = "reap" /\ toCheck = {}
    /\ pc' = "submit"
    /\ UNCHANGED <<active, poolVars, record, untilDue, toCheck, lag, wallEpoch>>

(* Mutants of HasCapacity: off by one, and waiting for the whole pool to   *)
(* become free.                                                            *)
OneTooMany == Cardinality(active) <= MaxWorkers
WholePoolFree == active = {}

HasCapacity == Cardinality(active) < MaxWorkers

(* Mutants of Eligible: without the check for a run in progress, and       *)
(* without the check of the time.                                          *)
EligibleWhileActive == {p \in Probe : untilDue[p] + lag <= 0}
EligibleAnyTime == Probe \ active

Eligible == {p \in Probe : p \notin active /\ untilDue[p] + lag <= 0}

Submit(p) ==
    /\ pc = "submit" /\ HasCapacity
    /\ p \in Eligible /\ \A q \in Eligible : Rank[p] <= Rank[q]
    /\ active' = active \cup {p}
    /\ future' = [future EXCEPT ![p] = "pending"]
    /\ queue' = Append(queue, p)
    /\ untilDue' = [untilDue EXCEPT ![p] = Interval[p] - lag]
    /\ UNCHANGED <<result, worker, record, pc, toCheck, lag, wallEpoch>>

EndTick ==
    /\ pc = "submit" /\ (~HasCapacity \/ Eligible = {})
    /\ pc' = "idle"
    /\ lag' = 0
    /\ wallEpoch' = 0
    /\ UNCHANGED <<active, poolVars, record, untilDue, toCheck>>

-----------------------------------------------------------------------------
(* close(): no tick does anything from here on.  It asks every future to   *)
(* cancel, which succeeds only for one no worker has begun, empties the    *)
(* queue and waits for the workers.                                        *)

Close ==
    /\ pc = "idle"
    /\ pc' = "cancel"
    /\ toCheck' = active
    /\ UNCHANGED <<active, poolVars, record, untilDue, lag, wallEpoch>>

CancelFuture(p) ==
    /\ pc = "cancel" /\ p \in toCheck
    /\ toCheck' = toCheck \ {p}
    /\ future' = [future EXCEPT ![p] = IF @ = "pending" THEN "cancelled" ELSE @]
    /\ UNCHANGED <<active, result, queue, worker, record, untilDue, pc, lag,
                   wallEpoch>>

Shutdown ==
    /\ pc = "cancel" /\ toCheck = {}
    /\ pc' = "join"
    /\ queue' = <<>>
    /\ UNCHANGED <<active, future, result, worker, record, untilDue, toCheck,
                   lag, wallEpoch>>

(* Mutants of Joined: shutdown(wait=False), and a wait for the futures     *)
(* that only tick reaps.                                                   *)
NoJoin == TRUE
AllReaped == active = {}

Joined == \A w \in Worker : worker[w] = Idle

CloseDone ==
    /\ pc = "join" /\ Joined
    /\ pc' = "closed"
    /\ active' = {}
    /\ future' = [p \in Probe |-> "none"]
    /\ result' = [p \in Probe |-> NoResult]
    /\ UNCHANGED <<queue, worker, record, untilDue, toCheck, lag, wallEpoch>>

-----------------------------------------------------------------------------
(* The worker threads.                                                     *)

WorkerTake(w) ==
    /\ worker[w] = Idle /\ queue # <<>>
    /\ queue' = Tail(queue)
    /\ LET p == Head(queue)
       IN  IF future[p] = "pending"
           THEN /\ future' = [future EXCEPT ![p] = "running"]
                /\ worker' = [worker EXCEPT ![w] = p]
           ELSE UNCHANGED <<future, worker>>
    /\ UNCHANGED <<active, result, record, untilDue, pc, toCheck, lag, wallEpoch>>

WorkerFinish(w) ==
    /\ worker[w] # Idle
    /\ \E res \in Outcomes[worker[w]] \cup {Raised} :
          result' = [result EXCEPT ![worker[w]] = res]
    /\ future' = [future EXCEPT ![worker[w]] = "finished"]
    /\ worker' = [worker EXCEPT ![w] = Idle]
    /\ UNCHANGED <<active, queue, record, untilDue, pc, toCheck, lag, wallEpoch>>

(* After close() has returned the process has nothing left to do.          *)
Stopped == pc = "closed" /\ UNCHANGED vars

-----------------------------------------------------------------------------
Tick == \/ \E wall \in Epoch : BeginTick(wall)
        \/ \E p \in Probe : SkipFuture(p) \/ ReapFuture(p) \/ Submit(p)
        \/ EndReap \/ EndTick

Closing == Close \/ (\E p \in Probe : CancelFuture(p)) \/ Shutdown \/ CloseDone

Next == \/ Elapse \/ ReadClock \/ Tick \/ Closing
        \/ \E w \in Worker : WorkerTake(w) \/ WorkerFinish(w)
        \/ Stopped

Spec == Init /\ [][Next]_vars

-----------------------------------------------------------------------------
(* The manager implements ProbeRuns: a cancelled run is still a pending    *)
(* one, and the result of a run is the outcome tick will make of it.       *)

PhaseBar == [p \in Probe |->
                IF future[p] = "cancelled" THEN "pending" ELSE future[p]]

OutcomeBar == [p \in Probe |->
                IF future[p] = "finished" THEN ReapedOutcome(p) ELSE NoResult]

ModeBar == IF pc = "closed" THEN "closed"
           ELSE IF pc \in {"cancel", "join"} THEN "closing" ELSE "open"

Runs == INSTANCE ProbeRuns WITH
    Allowed <- {S \in SUBSET Probe : Cardinality(S) <= MaxWorkers},
    phase <- PhaseBar, outcome <- OutcomeBar, mode <- ModeBar

(* Every behaviour of the manager and its worker pool is one of ProbeRuns. *)
ImplementsRuns == Runs!RSpec

-----------------------------------------------------------------------------
(* Properties.                                                             *)

Queued(p) == \E i \in 1..Len(queue) : queue[i] = p
Running(p) == \E w \in Worker : worker[w] = p

(* The futures tick and close look at are those of the runs in progress:   *)
(* a submitted run is never forgotten and a reaped one never looked at     *)
(* again, whatever the workers do between the steps of the main thread.    *)
ActiveHasFuture ==
    \A p \in Probe :
        /\ p \in active <=> future[p] # "none"
        /\ future[p] = "running" <=> Running(p)
        /\ future[p] = "pending" => Queued(p)
        /\ Queued(p) => future[p] \in {"pending", "cancelled"}
        /\ future[p] = "finished" <=> result[p] # NoResult

(* "never submits a probe while another invocation of the same probe is    *)
(* active": a probe is in at most one place of the executor.               *)
NoOverlap ==
    /\ \A i, j \in 1..Len(queue) : queue[i] = queue[j] => i = j
    /\ \A v, w \in Worker : worker[v] = worker[w] /\ worker[v] # Idle => v = w
    /\ \A p \in Probe : ~(Queued(p) /\ Running(p))

(* The runs in progress never exceed the pool, so that the executor holds  *)
(* no backlog: there is an idle thread for every queued item.              *)
PoolBound == Cardinality(active) <= MaxWorkers

NoBacklog ==
    Len(queue) <= Cardinality({w \in Worker : worker[w] = Idle})

(* close() leaves nothing behind: no queued item, no running probe.        *)
QuietWhenClosed ==
    pc = "closed" => /\ active = {} /\ queue = <<>>
                     /\ \A w \in Worker : worker[w] = Idle

(* No future is cancelled while tick may still reap it: a cancellation     *)
(* never shows up as the failure of a probe.                               *)
CancelOnlyWhenClosing ==
    \A p \in Probe : future[p] = "cancelled" => pc \in {"cancel", "join"}

(* Where the main thread is tells what it still has to look at.            *)
MainThread ==
    /\ toCheck \subseteq active
    /\ pc \notin {"reap", "cancel"} => toCheck = {}
    /\ pc = "reap" => wallEpoch \in Epoch
    /\ pc = "cancel" => \A p \in Probe : future[p] = "pending" => p \in toCheck
    /\ pc \in {"join", "closed"} => queue = <<>>

(* The strengthening that makes the invariants of the pool inductive.      *)
PoolInv ==
    /\ TypeOK /\ ActiveHasFuture /\ NoOverlap /\ PoolBound
    /\ CancelOnlyWhenClosing /\ MainThread /\ QuietWhenClosed

(* Once a probe has succeeded its record keeps showing data: no failure    *)
(* brings "error" or "unknown" back, and before a success nothing is shown *)
(* as fresh.                                                               *)
RecordCoherent ==
    \A p \in Probe :
        LET r == record[p]
        IN  /\ r.has_good_result => r.status \in {"ok", "degraded"}
            /\ r.has_good_result <=> r.last_success_epoch # 0
            /\ r.source_state = "fresh" => r.has_good_result
            /\ ~r.has_good_result => r.values = NoReading

(* docs/architecture.md: "`ok`: a sufficiently strong current signal       *)
(* confirms operation".  A record that shows ok shows the result of a      *)
(* success, and no failure has come since.                                 *)
Confirmed(p) == record[p].status = "ok" => record[p].source_state = "fresh"

OkIsConfirmed == \A p \in Probe : Confirmed(p)

(* The probes that call no failure ok: all but the one of HTTPS, whose ok  *)
(* may be that of a redirect loop.                                         *)
Careful == {p \in Probe : \A o \in Outcomes[p] : o.status = "ok" => o.success}

CarefulIsConfirmed == \A p \in Careful : Confirmed(p)

(* The strengthening that makes RecordCoherent inductive.                  *)
RecordInv ==
    /\ RecordCoherent
    /\ \A p \in Probe : result[p] \in Outcomes[p] \cup {Raised, NoResult}

(* Every result is published exactly once: a record changes only when tick *)
(* consumes the finished future of that probe, and a finished future goes  *)
(* away only into the record or when close() gives up.                     *)
PublishedOnce ==
    [][\A p \in Probe :
        /\ record'[p] # record[p] => future[p] = "finished" /\ future'[p] = "none"
        /\ future[p] = "finished" /\ future'[p] # "finished" /\ pc' # "closed"
              => record'[p] = Apply(record[p], ReapedOutcome(p), wallEpoch)]_vars

(* From the moment close() begins no run is added and nothing is published.*)
ClosingIsFinal ==
    [][(pc \in {"cancel", "join", "closed"}) =>
          /\ pc' \in {"cancel", "join", "closed"}
          /\ active' \subseteq active /\ record' = record]_vars

(* What a probe last measured is replaced only by a newer success; a run   *)
(* that failed or raised never erases it.                                  *)
GoodDataRetained ==
    [][\A p \in Probe :
        /\ record[p].has_good_result => record'[p].has_good_result
        /\ record'[p].values # record[p].values => record'[p].source_state = "fresh"
        /\ record'[p].last_success_epoch # record[p].last_success_epoch
              => record'[p].source_state = "fresh"]_vars
=============================================================================
