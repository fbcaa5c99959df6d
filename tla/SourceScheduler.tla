-------------------------- MODULE SourceScheduler --------------------------
(***************************************************************************)
(* SourceScheduler of src/bhola_scheduler.py, driven as run_provider of    *)
(* src/bhola_provider.py drives it: wait, read the clock, run every source *)
(* that is due, do the rest of the pass, compute the next wait.            *)
(*                                                                         *)
(* The clock is the monotonic one, and instants are kept relative to it:   *)
(* dueIn[s] is next_run[s] minus the time, and lag is the time minus the   *)
(* "now" run_due was given.  So now - next_run[s] is -(dueIn[s] + lag).    *)
(* Collectors block: time passes while a source runs, and while the rest   *)
(* of the pass (probes, cache file) runs, MaxBlock in all.                 *)
(***************************************************************************)
EXTENDS Integers, FiniteSets

CONSTANTS Source,       \* the scheduled sources
          Rank,         \* the place of a source in the list
          Interval,     \* the interval of a source
          MaxWait,      \* the "maximum" of wait_seconds
          MaxBlock      \* the longest a pass takes

ASSUME SourceAssumption ==
    /\ IsFiniteSet(Source) /\ Source # {}
    /\ Rank \in [Source -> Nat]
    /\ \A s, t \in Source : Rank[s] = Rank[t] => s = t
    /\ Interval \in [Source -> Nat \ {0}]

ASSUME TimeAssumption == MaxWait \in Nat \ {0} /\ MaxBlock \in Nat

VARIABLES
    dueIn,      \* source.next_run, relative to the clock
    lag,        \* the age of "now"
    at,         \* "waiting" between two passes, else "pass"
    todo,       \* the sources run_due has still to look at
    wakeIn,     \* what is left of the wait
    health,     \* payload["source_<name>"]
    sinceRun,   \* observes: time since the "now" of the last run
    sincePrev,  \* observes: time since the "now" of the run before that
    phase       \* observes: time since the start, modulo the interval

observers == <<sinceRun, sincePrev, phase>>
vars == <<dueIn, lag, at, todo, wakeIn, health, observers>>

(* Where sinceRun and sincePrev stop.                                      *)
Long(s) == Interval[s] + MaxBlock + 1

TypeOK ==
    /\ dueIn \in [Source -> Int]
    /\ lag \in 0..MaxBlock
    /\ at \in {"waiting", "pass"}
    /\ todo \subseteq Source
    /\ wakeIn \in 0..MaxWait
    /\ health \in [Source -> {"none", "ok", "unknown"}]
    /\ \A s \in Source : /\ sinceRun[s] \in 0..Long(s)
                         /\ sincePrev[s] \in 0..Long(s)
                         /\ phase[s] \in 0..(Interval[s] - 1)
    /\ DOMAIN sinceRun = Source /\ DOMAIN sincePrev = Source
    /\ DOMAIN phase = Source

Init ==
    /\ dueIn = [s \in Source |-> 0]
    /\ lag = 0
    /\ at = "waiting"
    /\ todo = {}
    /\ wakeIn = 0
    /\ health = [s \in Source |-> "none"]
    /\ sinceRun = [s \in Source |-> Long(s)]
    /\ sincePrev = [s \in Source |-> Long(s)]
    /\ phase = [s \in Source |-> 0]

Older(age) == [s \in Source |-> IF age[s] < Long(s) THEN age[s] + 1 ELSE age[s]]

Elapse ==
    /\ \/ at = "waiting" /\ wakeIn > 0 /\ wakeIn' = wakeIn - 1 /\ lag' = lag
       \/ at = "pass" /\ lag < MaxBlock /\ lag' = lag + 1 /\ wakeIn' = wakeIn
    /\ dueIn' = [s \in Source |-> dueIn[s] - 1]
    /\ sinceRun' = Older(sinceRun)
    /\ sincePrev' = Older(sincePrev)
    /\ phase' = [s \in Source |-> (phase[s] + 1) % Interval[s]]
    /\ UNCHANGED <<at, todo, health>>

(* now = time.monotonic(); run_due(now) starts.                            *)
BeginPass ==
    /\ at = "waiting" /\ wakeIn = 0
    /\ at' = "pass"
    /\ lag' = 0
    /\ todo' = Source
    /\ UNCHANGED <<dueIn, wakeIn, health, observers>>

IsDue(s) == dueIn[s] + lag <= 0

First(s) == s \in todo /\ \A t \in todo : Rank[s] <= Rank[t]

SkipSource(s) ==
    /\ at = "pass" /\ First(s) /\ ~IsDue(s)
    /\ todo' = todo \ {s}
    /\ UNCHANGED <<dueIn, lag, at, wakeIn, health, observers>>

(* Mutants of NextRun: the missed runs are made up for one by one, the     *)
(* next run is counted from now, and a late source is due at once.         *)
MakeUpMissed(s) == dueIn[s] + Interval[s]
CountFromNow(s) == Interval[s] - lag
DueAtOnce(s) == IF dueIn[s] + Interval[s] <= -lag THEN -lag ELSE dueIn[s] + Interval[s]

(* next_run + interval, or now + interval when that has passed already.    *)
NextRun(s) == IF dueIn[s] + Interval[s] <= -lag THEN Interval[s] - lag
                                                ELSE dueIn[s] + Interval[s]

RunSource(s, end) ==
    /\ at = "pass" /\ First(s) /\ IsDue(s)
    /\ todo' = todo \ {s}
    /\ dueIn' = [dueIn EXCEPT ![s] = NextRun(s)]
    /\ health' = [health EXCEPT ![s] = end]
    /\ sincePrev' = [sincePrev EXCEPT ![s] = sinceRun[s]]
    /\ sinceRun' = [sinceRun EXCEPT ![s] = lag]
    /\ UNCHANGED <<lag, at, wakeIn, phase>>

(* Mutant of WaitSeconds: the sources are not asked.                       *)
FixedWait == 0..MaxWait

(* max(0, min(maximum, the first next_run - time)), and every shorter wait *)
(* the probe manager may ask for: 0.1 s while probes are active, or what   *)
(* is left until one is due.                                               *)
WaitSeconds == {n \in 0..MaxWait : n = 0 \/ \A s \in Source : n <= dueIn[s]}

EndPass ==
    /\ at = "pass" /\ todo = {}
    /\ at' = "waiting"
    /\ lag' = 0
    /\ wakeIn' \in WaitSeconds
    /\ UNCHANGED <<dueIn, todo, health, observers>>

Next == \/ Elapse \/ BeginPass \/ EndPass
        \/ \E s \in Source : \/ SkipSource(s)
                             \/ \E end \in {"ok", "unknown"} : RunSource(s, end)

Spec == Init /\ [][Next]_vars

-----------------------------------------------------------------------------
(* run_due leaves no source behind: once it has looked at a source, in     *)
(* this pass and until the next one, that source has been collected for    *)
(* "now" and its next run lies after "now", even if an earlier source      *)
(* raised, blocked, or missed several of its intervals.                    *)
PassServesAll ==
    at = "pass" => \A s \in Source \ todo : dueIn[s] + lag > 0 /\ health[s] # "none"

(* A stall is not made up for by a burst: any three runs of a source span  *)
(* more than its interval.  (Two may be closer: a late run is followed by  *)
(* one at its regular time.)                                               *)
NoBurst ==
    [][\A s \in todo : s \notin todo' /\ dueIn'[s] # dueIn[s]
            => sincePrev[s] - lag > Interval[s]]_vars

(* Lateness does not accumulate: a source whose interval exceeds the       *)
(* longest pass runs for ever at multiples of its interval since the start,*)
(* although each of its runs may be late.                                  *)
OnGrid ==
    \A s \in Source : Interval[s] > MaxBlock
        => (dueIn[s] + phase[s]) % Interval[s] = 0

(* The wait ends in time: between two passes no source is overdue by as    *)
(* much as the longest pass, during which it became due.                   *)
Punctual ==
    at = "waiting" => \A s \in Source : dueIn[s] >= 0 \/ dueIn[s] > -MaxBlock

(* The invariant behind PassServesAll and NoBurst: the next run lies after *)
(* the last one, and more than an interval after the one before it.        *)
SpacedOut ==
    \A s \in Source :
        /\ sinceRun[s] = Long(s) \/ dueIn[s] + sinceRun[s] > 0
        /\ sincePrev[s] = Long(s) \/ dueIn[s] + sincePrev[s] > Interval[s]

(* What makes PassServesAll and Punctual inductive: between two passes lag *)
(* is not in use, a wait ends before any source is due, and a source never *)
(* collected is due.                                                       *)
LoopInv ==
    /\ at = "waiting" => /\ lag = 0 /\ todo = {}
                         /\ wakeIn = 0 \/ \A s \in Source : wakeIn <= dueIn[s]
    /\ at = "pass" => wakeIn = 0
    /\ \A s \in Source : health[s] = "none" => dueIn[s] + lag <= 0

SchedulerInv == TypeOK /\ LoopInv /\ PassServesAll /\ Punctual /\ SpacedOut

(* What makes OnGrid inductive: in a pass no source is late for "now" by   *)
(* as much as the longest pass.                                            *)
InTime == at = "pass" => \A s \in Source : \/ dueIn[s] + lag >= 0
                                          \/ dueIn[s] + lag > -MaxBlock
=============================================================================
