----------------------- MODULE SourceScheduler_proofs -----------------------
(***************************************************************************)
(* Theorems about SourceScheduler, for every set of sources, every choice  *)
(* of intervals and every bound on the length of a pass.                   *)
(***************************************************************************)
EXTENDS SourceScheduler, TLAPS

(* A source just run is next due after "now", after its regular time, and  *)
(* later than an interval after the run before.                            *)
LEMMA NextRunAhead ==
    ASSUME TypeOK, NEW s \in Source
    PROVE  /\ NextRun(s) \in Int
           /\ NextRun(s) + lag > 0
           /\ NextRun(s) >= dueIn[s] + Interval[s]
  BY SourceAssumption, TimeAssumption DEF TypeOK, NextRun

LEMMA InitInv == Init => SchedulerInv
  BY SourceAssumption, TimeAssumption
     DEF Init, SchedulerInv, TypeOK, LoopInv, PassServesAll, Punctual,
         SpacedOut, Long

(* Time: the conditions compare dueIn with lag, wakeIn or an age, and both *)
(* sides move together.                                                    *)
LEMMA ElapseKeepsInv == SchedulerInv /\ Elapse => SchedulerInv'
<1> SUFFICES ASSUME SchedulerInv, Elapse PROVE SchedulerInv'
  OBVIOUS
<1> USE SourceAssumption, TimeAssumption
<1>1. ASSUME NEW s \in Source PROVE (phase[s] + 1) % Interval[s] \in 0..(Interval[s] - 1)
  BY DEF SchedulerInv, TypeOK
<1>2. TypeOK'
  BY <1>1 DEF SchedulerInv, TypeOK, Elapse, Older, Long
<1>3. LoopInv'
  BY DEF SchedulerInv, TypeOK, LoopInv, Elapse
<1>4. PassServesAll'
  BY DEF SchedulerInv, TypeOK, PassServesAll, Elapse
<1>5. Punctual'
  BY DEF SchedulerInv, TypeOK, LoopInv, Punctual, Elapse
<1>6. SpacedOut'
  BY DEF SchedulerInv, TypeOK, SpacedOut, Elapse, Older, Long
<1> QED BY <1>2, <1>3, <1>4, <1>5, <1>6 DEF SchedulerInv

LEMMA BeginPassKeepsInv == SchedulerInv /\ BeginPass => SchedulerInv'
  BY TimeAssumption
     DEF SchedulerInv, TypeOK, LoopInv, PassServesAll, Punctual, SpacedOut,
         BeginPass, observers, Long

LEMMA SkipKeepsInv ==
    ASSUME NEW s \in Source, SchedulerInv, SkipSource(s) PROVE SchedulerInv'
<1>1. dueIn[s] + lag > 0 /\ health[s] # "none"
  BY TimeAssumption DEF SchedulerInv, TypeOK, LoopInv, SkipSource, IsDue
<1> QED
  BY <1>1 DEF SchedulerInv, TypeOK, LoopInv, PassServesAll, Punctual, SpacedOut,
              SkipSource, observers, Long

(* The run moves the age of the last run to that of the run before: the    *)
(* last run lay before the due time, so the next one lies more than an     *)
(* interval after it.                                                      *)
LEMMA RunKeepsInv ==
    ASSUME NEW s \in Source, NEW end \in {"ok", "unknown"},
           SchedulerInv, RunSource(s, end)
    PROVE  SchedulerInv'
<1> USE SourceAssumption, TimeAssumption
<1>1. /\ NextRun(s) \in Int
      /\ NextRun(s) + lag > 0
      /\ NextRun(s) >= dueIn[s] + Interval[s]
  BY NextRunAhead DEF SchedulerInv
<1>2. TypeOK'
  <2>1. lag \in 0..Long(s) /\ sinceRun[s] \in 0..Long(s)
    BY DEF SchedulerInv, TypeOK, Long
  <2> QED BY <1>1, <2>1 DEF SchedulerInv, TypeOK, RunSource, Long
<1>3. LoopInv'
  BY <1>1 DEF SchedulerInv, TypeOK, LoopInv, RunSource
<1>4. PassServesAll'
  BY <1>1 DEF SchedulerInv, TypeOK, PassServesAll, RunSource
<1>5. Punctual'
  BY DEF RunSource, Punctual
<1>6. SpacedOut'
  <2> SUFFICES ASSUME NEW u \in Source
               PROVE  /\ sinceRun'[u] = Long(u) \/ dueIn'[u] + sinceRun'[u] > 0
                      /\ sincePrev'[u] = Long(u) \/ dueIn'[u] + sincePrev'[u] > Interval[u]
    BY DEF SpacedOut, Long
  <2>1. CASE u # s
    BY <2>1 DEF SchedulerInv, TypeOK, SpacedOut, RunSource
  <2>2. CASE u = s
    <3>1. dueIn'[s] = NextRun(s) /\ sinceRun'[s] = lag /\ sincePrev'[s] = sinceRun[s]
      BY DEF SchedulerInv, TypeOK, RunSource
    <3>2. sinceRun[s] = Long(s) \/ dueIn[s] + sinceRun[s] > 0
      BY DEF SchedulerInv, SpacedOut
    <3>3. /\ dueIn[s] \in Int /\ lag \in Int /\ sinceRun[s] \in Int
          /\ Interval[s] \in Int
      BY DEF SchedulerInv, TypeOK, Long
    <3> QED BY <1>1, <2>2, <3>1, <3>2, <3>3
  <2> QED BY <2>1, <2>2
<1> QED BY <1>2, <1>3, <1>4, <1>5, <1>6 DEF SchedulerInv

LEMMA EndPassKeepsInv == SchedulerInv /\ EndPass => SchedulerInv'
  BY TimeAssumption
     DEF SchedulerInv, TypeOK, LoopInv, PassServesAll, Punctual, SpacedOut,
         EndPass, WaitSeconds, observers, Long

LEMMA NextInv == SchedulerInv /\ [Next]_vars => SchedulerInv'
<1> SUFFICES ASSUME SchedulerInv, [Next]_vars PROVE SchedulerInv'
  OBVIOUS
<1>1. CASE Elapse
  BY <1>1, ElapseKeepsInv
<1>2. CASE BeginPass
  BY <1>2, BeginPassKeepsInv
<1>3. CASE EndPass
  BY <1>3, EndPassKeepsInv
<1>4. ASSUME NEW s \in Source, SkipSource(s) PROVE SchedulerInv'
  BY <1>4, SkipKeepsInv
<1>5. ASSUME NEW s \in Source, NEW end \in {"ok", "unknown"}, RunSource(s, end)
      PROVE  SchedulerInv'
  BY <1>5, RunKeepsInv
<1>6. CASE UNCHANGED vars
  BY <1>6 DEF vars, observers, SchedulerInv, TypeOK, LoopInv, PassServesAll,
              Punctual, SpacedOut, Long
<1> QED BY <1>1, <1>2, <1>3, <1>4, <1>5, <1>6 DEF Next

(* The conjunction of the scheduler's invariants holds of run_due and the  *)
(* loop that calls it, whatever the intervals.                             *)
THEOREM SchedulerCorrect == Spec => []SchedulerInv
  BY InitInv, NextInv, PTL DEF Spec

(* run_due collects every source that is due and leaves each of them with  *)
(* a next run after "now".                                                 *)
THEOREM EveryPassServesAll == Spec => []PassServesAll
<1>1. SchedulerInv => PassServesAll
  BY DEF SchedulerInv
<1> QED BY <1>1, SchedulerCorrect, PTL

(* wait_seconds never sleeps through the time at which a source is due.    *)
THEOREM NeverSleepsOver == Spec => []Punctual
<1>1. SchedulerInv => Punctual
  BY DEF SchedulerInv
<1> QED BY <1>1, SchedulerCorrect, PTL

(* Any three runs of a source span more than its interval, however long    *)
(* the passes block.                                                       *)
THEOREM StallsMakeNoBurst == Spec => NoBurst
<1>1. ASSUME SchedulerInv, [Next]_vars
      PROVE  \A s \in todo : s \notin todo' /\ dueIn'[s] # dueIn[s]
                => sincePrev[s] - lag > Interval[s]
  <2> SUFFICES ASSUME NEW s \in todo, s \notin todo', dueIn'[s] # dueIn[s]
               PROVE  sincePrev[s] - lag > Interval[s]
    OBVIOUS
  <2>1. PICK end \in {"ok", "unknown"} : RunSource(s, end)
    <3>1. s \in Source
      BY <1>1 DEF SchedulerInv, TypeOK
    <3>2. ~Elapse /\ ~BeginPass /\ ~EndPass /\ ~UNCHANGED vars
      BY <1>1, <3>1 DEF Elapse, BeginPass, EndPass, vars
    <3>3. \A u \in Source : ~SkipSource(u)
      BY DEF SkipSource
    <3>4. PICK u \in Source, end \in {"ok", "unknown"} : RunSource(u, end)
      BY <1>1, <3>2, <3>3 DEF Next
    <3>5. u = s
      BY <3>1, <3>4 DEF RunSource
    <3> QED BY <3>4, <3>5
  <2>2. s \in Source /\ dueIn[s] + lag <= 0
    BY <1>1, <2>1 DEF SchedulerInv, TypeOK, RunSource, IsDue
  <2>3. sincePrev[s] = Long(s) \/ dueIn[s] + sincePrev[s] > Interval[s]
    BY <1>1, <2>2 DEF SchedulerInv, SpacedOut
  <2>4. /\ dueIn[s] \in Int /\ lag \in 0..MaxBlock /\ sincePrev[s] \in Int
        /\ Interval[s] \in Int /\ MaxBlock \in Int
    BY <1>1, <2>2, SourceAssumption, TimeAssumption DEF SchedulerInv, TypeOK, Long
  <2> QED
    BY <2>2, <2>3, <2>4 DEF Long
<1>2. SchedulerInv /\ [Next]_vars =>
          \A s \in todo : s \notin todo' /\ dueIn'[s] # dueIn[s]
                => sincePrev[s] - lag > Interval[s]
  BY <1>1
<1> QED BY <1>2, SchedulerCorrect, PTL DEF Spec, NoBurst

-----------------------------------------------------------------------------
(* The grid.  What divides two numbers is stated by a witness, which the   *)
(* steps below move by one.                                                *)

LEMMA Multiple ==
    ASSUME NEW n \in Nat \ {0}, NEW a \in Int
    PROVE  a % n = 0 <=> \E k \in Int : a = n * k
<1>1. ASSUME NEW k \in Int, a = n * k PROVE a % n = 0
  BY <1>1
<1>2. ASSUME a % n = 0 PROVE \E k \in Int : a = n * k
  BY <1>2
<1> QED BY <1>1, <1>2

LEMMA NextMultiple ==
    ASSUME NEW n \in Nat \ {0}, NEW a \in Int, NEW b \in Int, a % n = 0,
           b \in {a, a + n, a - n}
    PROVE  b % n = 0
<1>1. PICK k \in Int : a = n * k
  BY Multiple
<1>2. n * (k + 1) = n * k + n /\ n * (k - 1) = n * k - n
  OBVIOUS
<1>3. k + 1 \in Int /\ k - 1 \in Int
  OBVIOUS
<1>4. \E j \in Int : b = n * j
  <2>1. b = n * k \/ b = n * (k + 1) \/ b = n * (k - 1)
    BY <1>1, <1>2
  <2> QED BY <1>3, <2>1
<1> QED BY <1>4, Multiple

(* The phase goes on by one, or falls back to zero at the interval.        *)
LEMMA NextPhase ==
    ASSUME NEW n \in Nat \ {0}, NEW i \in 0..(n - 1)
    PROVE  (i + 1) % n \in {i + 1, i + 1 - n}
  OBVIOUS

LEMMA StaysInTime == SchedulerInv /\ InTime /\ [Next]_vars => InTime'
<1> SUFFICES ASSUME SchedulerInv, InTime, [Next]_vars PROVE InTime'
  OBVIOUS
<1> USE SourceAssumption, TimeAssumption DEF InTime, SchedulerInv, TypeOK
<1>1. CASE Elapse
  BY <1>1 DEF Elapse
<1>2. CASE BeginPass
  BY <1>2 DEF BeginPass, Punctual
<1>3. CASE EndPass
  BY <1>3 DEF EndPass
<1>4. ASSUME NEW s \in Source, SkipSource(s) PROVE InTime'
  BY <1>4 DEF SkipSource
<1>5. ASSUME NEW s \in Source, NEW end \in {"ok", "unknown"}, RunSource(s, end)
      PROVE  InTime'
  BY <1>5, NextRunAhead DEF RunSource
<1>6. CASE UNCHANGED vars
  BY <1>6 DEF vars
<1> QED BY <1>1, <1>2, <1>3, <1>4, <1>5, <1>6 DEF Next

LEMMA StaysOnGrid == SchedulerInv /\ InTime /\ OnGrid /\ [Next]_vars => OnGrid'
<1> SUFFICES ASSUME SchedulerInv, InTime, OnGrid, [Next]_vars,
                    NEW s \in Source, Interval[s] > MaxBlock
             PROVE  (dueIn'[s] + phase'[s]) % Interval[s] = 0
  BY DEF OnGrid
<1> DEFINE n == Interval[s]
           sum == dueIn[s] + phase[s]
<1>1. /\ n \in Nat \ {0} /\ MaxBlock \in Nat /\ lag \in Int
      /\ dueIn[s] \in Int /\ phase[s] \in 0..(n - 1)
  BY SourceAssumption, TimeAssumption DEF SchedulerInv, TypeOK
<1>2. sum % n = 0 /\ sum \in Int
  BY <1>1 DEF OnGrid
<1>3. CASE Elapse
  <2>1. dueIn'[s] = dueIn[s] - 1 /\ phase'[s] = (phase[s] + 1) % n
    BY <1>3 DEF Elapse
  <2>2. phase'[s] \in {phase[s] + 1, phase[s] + 1 - n}
    BY <1>1, <2>1, NextPhase
  <2>3. dueIn'[s] + phase'[s] \in {sum, sum - n} /\ dueIn'[s] + phase'[s] \in Int
    BY <1>1, <2>1, <2>2
  <2> QED BY <1>1, <1>2, <2>3, NextMultiple
<1>4. ASSUME NEW u \in Source, NEW end \in {"ok", "unknown"}, RunSource(u, end)
      PROVE  (dueIn'[s] + phase'[s]) % n = 0
  <2>1. phase' = phase /\ dueIn' = [dueIn EXCEPT ![u] = NextRun(u)]
    BY <1>4 DEF RunSource
  <2>2. CASE u # s
    BY <1>2, <2>1, <2>2 DEF SchedulerInv, TypeOK
  <2>3. CASE u = s
    <3>1. dueIn[s] + lag >= 0 \/ dueIn[s] + lag > -MaxBlock
      BY <1>4 DEF RunSource, InTime
    <3>2. NextRun(s) = dueIn[s] + n
      BY <1>1, <3>1 DEF NextRun
    <3>3. dueIn'[s] + phase'[s] = sum + n /\ sum + n \in Int
      BY <1>1, <2>1, <2>3, <3>2 DEF SchedulerInv, TypeOK
    <3> QED BY <1>1, <1>2, <3>3, NextMultiple
  <2> QED BY <2>2, <2>3
<1>5. ASSUME UNCHANGED <<dueIn, phase>> PROVE (dueIn'[s] + phase'[s]) % n = 0
  BY <1>2, <1>5
<1> QED
  BY <1>3, <1>4, <1>5 DEF Next, BeginPass, EndPass, SkipSource, vars, observers

(* Lateness never adds up: a source whose interval exceeds the longest     *)
(* pass is due at multiples of its interval since the start, for ever.     *)
THEOREM NoDrift == Spec => []OnGrid
<1>1. Init => InTime /\ OnGrid
  <2>1. ASSUME NEW s \in Source PROVE (0 + 0) % Interval[s] = 0
    BY SourceAssumption
  <2> QED BY <2>1 DEF Init, InTime, OnGrid
<1>2. SchedulerInv /\ InTime /\ OnGrid /\ [Next]_vars => InTime' /\ OnGrid'
  BY StaysInTime, StaysOnGrid
<1> QED BY <1>1, <1>2, SchedulerCorrect, PTL DEF Spec
=============================================================================
