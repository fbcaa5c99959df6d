---------------------------- MODULE ProbeTiming ----------------------------
(***************************************************************************)
(* How often the probes of ProbeManager run.  The provider loop waits at   *)
(* most MaxGap before its next pass, a probe runs at most MaxRun, and an   *)
(* idle worker takes a queued item without delay.  Under these bounds the  *)
(* order in which tick serves the probes decides whether one of them can   *)
(* starve, and the moment at which tick's "now" was read decides how close *)
(* two runs may come.                                                      *)
(*                                                                         *)
(* MaxRun is an assumption about the system under the probes.  A command   *)
(* is killed at its time-out; but the time-out of urlopen bounds each      *)
(* operation on the socket and not the request, and looking up the name    *)
(* has none.  Of a request that takes longer nothing is claimed here.      *)
(*                                                                         *)
(* The timers only observe, except that time stops at the bounds.          *)
(***************************************************************************)
EXTENDS ProbeManager

CONSTANTS MaxGap,       \* the longest wait between two passes
          MaxRun,       \* the longest run of each probe
          LongestRun,   \* the longest run of any
          WaitLimit     \* how long a probe that is due may wait for a worker

ASSUME TimingAssumption ==
    /\ MaxGap \in Nat \ {0} /\ WaitLimit \in Nat
    /\ MaxRun \in [Probe -> Nat \ {0}]
    /\ LongestRun \in Nat /\ \A p \in Probe : MaxRun[p] <= LongestRun

VARIABLES
    idleFor,        \* how long the main thread has been waiting
    ranFor,         \* how long each worker has been in its run
    sinceStart,     \* the time since the last submission, up to Interval
    overdue,        \* how long a probe that is due has not been submitted
    sinceGood       \* the time since the last success was published

timers == <<idleFor, ranFor, sinceStart, overdue, sinceGood>>

(* The counters stop one past the largest value a property asks about.     *)
Capped(n, cap) == IF n < cap THEN n + 1 ELSE n

(* A result is replaced after its interval, the wait for a worker, the run *)
(* itself, and the pass that reaps it.                                     *)
FreshLimit(p) == Interval[p] + WaitLimit + MaxRun[p] + MaxGap + MaxLag

TInit ==
    /\ Init
    /\ idleFor = 0
    /\ ranFor = [w \in Worker |-> 0]
    /\ sinceStart = [p \in Probe |-> Interval[p]]
    /\ overdue = [p \in Probe |-> 0]
    /\ sinceGood = [p \in Probe |-> 0]

TElapse ==
    /\ Elapse
    /\ pc = "idle" => idleFor < MaxGap
    /\ \A w \in Worker : worker[w] # Idle => ranFor[w] < MaxRun[worker[w]]
    /\ queue = <<>> \/ \A w \in Worker : worker[w] # Idle
    /\ idleFor' = IF pc = "idle" THEN idleFor + 1 ELSE 0
    /\ ranFor' = [w \in Worker |-> IF worker[w] = Idle THEN 0 ELSE ranFor[w] + 1]
    /\ sinceStart' = [p \in Probe |-> Capped(sinceStart[p], Interval[p])]
    /\ overdue' = [p \in Probe |-> IF p \notin active /\ untilDue[p] <= 0
                                   THEN Capped(overdue[p], WaitLimit + 1) ELSE 0]
    /\ sinceGood' = [p \in Probe |->
                        IF record[p].source_state = "fresh"
                        THEN Capped(sinceGood[p], FreshLimit(p) + 1) ELSE 0]

TSubmit(p) ==
    /\ Submit(p)
    /\ sinceStart' = [sinceStart EXCEPT ![p] = 0]
    /\ overdue' = [overdue EXCEPT ![p] = 0]
    /\ UNCHANGED <<idleFor, ranFor, sinceGood>>

TReapFuture(p) ==
    /\ ReapFuture(p)
    /\ sinceGood' = [sinceGood EXCEPT ![p] = IF ReapedOutcome(p).success THEN 0 ELSE @]
    /\ UNCHANGED <<idleFor, ranFor, sinceStart, overdue>>

TWorkerFinish(w) ==
    /\ WorkerFinish(w)
    /\ ranFor' = [ranFor EXCEPT ![w] = 0]
    /\ UNCHANGED <<idleFor, sinceStart, overdue, sinceGood>>

TReadClock ==
    /\ ReadClock
    /\ idleFor' = 0
    /\ UNCHANGED <<ranFor, sinceStart, overdue, sinceGood>>

Untimed ==
    \/ \E wall \in Epoch : BeginTick(wall)
    \/ \E p \in Probe : SkipFuture(p)
    \/ EndReap \/ EndTick \/ Closing \/ Stopped
    \/ \E w \in Worker : WorkerTake(w)

TNext ==
    \/ TElapse \/ TReadClock
    \/ \E p \in Probe : TSubmit(p) \/ TReapFuture(p)
    \/ \E w \in Worker : TWorkerFinish(w)
    \/ Untimed /\ UNCHANGED timers

tvars == <<vars, timers>>

TSpec == TInit /\ [][TNext]_tvars

-----------------------------------------------------------------------------
Starts(p) == p \notin active /\ p \in active'

(* Two runs of a probe are at least its interval apart, less the time the  *)
(* local collectors blocked the pass that submitted the first one: tick    *)
(* counts from a "now" read before they ran.                               *)
SpacingWithLag ==
    [][\A p \in Probe : Starts(p) => sinceStart[p] >= Interval[p] - MaxLag]_tvars

(* No probe starves behind the ones defined before it: one that is due is  *)
(* submitted within WaitLimit.                                             *)
BoundedWait ==
    pc \notin {"cancel", "join", "closed"} =>
        \A p \in Probe : overdue[p] <= WaitLimit

(* What a record calls "fresh" is never older than the interval, the wait, *)
(* the run and the pass that publishes it: a probe that fails takes the    *)
(* "fresh" of its last success away, and one that runs keeps it no longer  *)
(* than MaxRun.                                                            *)
FreshIsRecent ==
    pc \notin {"cancel", "join", "closed"} =>
        \A p \in Probe : record[p].source_state = "fresh"
                            => sinceGood[p] <= FreshLimit(p)

(* What the timers measure: what is left of an interval and what has gone  *)
(* since the submission add up to it, less the lag.                        *)
TimerInv ==
    /\ lag \in 0..MaxLag /\ idleFor \in 0..MaxGap
    /\ ranFor \in [Worker -> Nat]
    /\ \A w \in Worker : IF worker[w] = Idle THEN ranFor[w] = 0
                                             ELSE ranFor[w] <= MaxRun[worker[w]]
    /\ overdue \in [Probe -> Nat] /\ sinceGood \in [Probe -> Nat]
    /\ sinceStart \in [Probe -> Nat]
    /\ \A p \in Probe : \/ sinceStart[p] = Interval[p]
                        \/ sinceStart[p] + untilDue[p] >= Interval[p] - MaxLag

(* The strengthening that makes FreshIsRecent inductive: how old the last  *)
(* success of a probe may be at each stage of the run that replaces it.    *)
(* Slack is what a finished run has waited for tick to come round to it.   *)
Slack(p) == CASE pc = "idle"                     -> idleFor
              [] pc = "collect"                  -> MaxGap + lag
              [] pc = "reap" /\ p \in toCheck    -> MaxGap + MaxLag
              [] OTHER                           -> 0

FreshUntil(p) ==
    LET late == Interval[p] + WaitLimit
    IN  /\ p \notin active => IF untilDue[p] > 0
                              THEN sinceGood[p] + untilDue[p] <= Interval[p]
                              ELSE sinceGood[p] <= Interval[p] + overdue[p]
        /\ future[p] = "pending" => sinceGood[p] <= late
        /\ \A w \in Worker : worker[w] = p => sinceGood[p] <= late + ranFor[w]
        /\ future[p] = "finished" => sinceGood[p] <= late + MaxRun[p] + Slack(p)

FreshFor(p) == /\ untilDue[p] <= Interval[p]
               /\ record[p].source_state = "fresh" => FreshUntil(p)

FreshInv == pc \notin {"cancel", "join", "closed"} => \A p \in Probe : FreshFor(p)

-----------------------------------------------------------------------------
(* Why no probe starves.  A submitted probe keeps a worker from the others *)
(* for at most a Turn: its run, and the pass that reaps it.  A probe that  *)
(* is due is found so by a pass that begins at most Notice later.  From    *)
(* then on all workers are taken, each by a probe that had not had its     *)
(* turn, so that the turns of the others add up to the wait.               *)

Turn == LongestRun + MaxGap + MaxLag
Lead == IF MaxLag = 0 THEN 0 ELSE MaxLag - 1
Notice == Lead + MaxGap + MaxLag

(* The workers are enough: each other probe has one turn within WaitLimit, *)
(* and none is due again so soon that it could have another.               *)
Roomy ==
    /\ Turn * (Cardinality(Probe) - 1) <= MaxWorkers * (WaitLimit - Notice)
    /\ \A p \in Probe : Interval[p] > WaitLimit + Turn + MaxLag

(* How long a run has been in progress, at each of its stages.             *)
TurnFor(q) ==
    /\ future[q] = "pending" => sinceStart[q] = 0
    /\ \A w \in Worker : worker[w] = q => sinceStart[q] <= ranFor[w]
    /\ future[q] = "finished" => sinceStart[q] <= MaxRun[q] + Slack(q)

(* What is left of a turn; the probes whose turn kept, or still keeps, p   *)
(* waiting; and that the workers' time since p was noticed is accounted    *)
(* for by their turns.  (x and y are the probes in progress, at most two.) *)
Left(q) == IF q \in active THEN Turn - sinceStart[q] ELSE 0

Served(p) == {q \in Probe \ {p} : sinceStart[q] <= overdue[p] + Turn}

Spent(p) == \A x, y \in Probe :
    MaxWorkers * (overdue[p] - Notice) + Left(x) + (IF x = y THEN 0 ELSE Left(y))
        <= Turn * Cardinality(Served(p))

PoolFull == Cardinality(active) = MaxWorkers

WaitFor(p) ==
    /\ overdue[p] <= WaitLimit
    /\ p \in active \/ untilDue[p] > 0 => overdue[p] = 0
    /\ p \notin active /\ untilDue[p] <= 0 =>
          /\ untilDue[p] > -MaxLag => overdue[p] <= -untilDue[p]
          /\ pc = "idle" => overdue[p] <= Lead + idleFor \/ PoolFull
          /\ pc = "collect" => overdue[p] <= Lead + MaxGap + lag \/ PoolFull
          /\ Spent(p)

(* The strengthening that makes BoundedWait inductive.                     *)
WaitInv == pc \notin {"cancel", "join", "closed"} =>
               \A p \in Probe : TurnFor(p) /\ WaitFor(p)
=============================================================================
