------------------------ MODULE ProbeManager_proofs ------------------------
(***************************************************************************)
(* Proofs about ProbeManager, about its timers in ProbeTiming and about    *)
(* the process it runs in, ProviderProcess, for every set of probes,       *)
(* intervals, outcomes, worker threads and time bounds that their          *)
(* assumptions allow.                                                      *)
(***************************************************************************)
EXTENDS ProbeTiming, ProviderProcess, FiniteSetTheorems, SequenceTheorems, TLAPS

(* The outcome that stands for an exception is one a record can take.      *)
LEMMA ErrorOutcomeType == ErrorOutcome \in ProbeOutcome
BY DEF ErrorOutcome, Failed, Outcome, ProbeOutcome, Status, SourceState,
       Confidence

LEMMA ReapedOutcomeType ==
    ASSUME NEW p \in Probe
    PROVE  ReapedOutcome(p) \in ProbeOutcome
BY ErrorOutcomeType DEF ReapedOutcome

(* A record stays a record, whatever the outcome and the time it is given. *)
LEMMA ApplyType ==
    ASSUME NEW rec \in Record, NEW o \in ProbeOutcome,
           NEW wall \in Epoch \cup {0}
    PROVE  Apply(rec, o, wall) \in Record
<1>1. CASE o.success
  BY <1>1 DEF Apply, Record, ProbeOutcome, UpdateValues, SourceState
<1>2. CASE ~o.success /\ rec.has_good_result
  BY <1>2 DEF Apply, Record, ProbeOutcome, Status, Confidence
<1>3. CASE ~o.success /\ ~rec.has_good_result
  BY <1>3 DEF Apply, Record, ProbeOutcome
<1>4. QED
  BY <1>1, <1>2, <1>3 DEF ProbeOutcome, Record

(* A fresh future is not in the sets its result may come from.             *)
LEMMA NewRecordType == NewRecord \in Record
BY DEF NewRecord, Record, Status, SourceState, Confidence

-----------------------------------------------------------------------------
(* Type correctness.                                                       *)

LEMMA InitType == Init => TypeOK
BY NewRecordType DEF Init, TypeOK, FutureState, MainState

LEMMA NextType == TypeOK /\ [Next]_vars => TypeOK'
<1> SUFFICES ASSUME TypeOK, [Next]_vars PROVE TypeOK'
  OBVIOUS
<1> USE DEF TypeOK, poolVars, FutureState, MainState
<1>1. CASE Elapse
  BY <1>1, LagAssumption DEF Elapse
<1>2. CASE ReadClock
  BY <1>2 DEF ReadClock
<1>3. ASSUME NEW wall \in Epoch, BeginTick(wall) PROVE TypeOK'
  BY <1>3 DEF BeginTick
<1>4. ASSUME NEW p \in Probe, SkipFuture(p) PROVE TypeOK'
  BY <1>4 DEF SkipFuture
<1>5. ASSUME NEW p \in Probe, ReapFuture(p) PROVE TypeOK'
  <2>1. Apply(record[p], ReapedOutcome(p), wallEpoch) \in Record
    BY ApplyType, ReapedOutcomeType
  <2>2. QED
    BY <1>5, <2>1 DEF ReapFuture
<1>6. ASSUME NEW p \in Probe, Submit(p) PROVE TypeOK'
  <2>1. Append(queue, p) \in Seq(Probe)
    BY AppendProperties
  <2>2. Interval[p] - lag \in Int
    BY ProbeAssumption
  <2>3. QED
    BY <1>6, <2>1, <2>2 DEF Submit
<1>7. CASE EndReap
  BY <1>7 DEF EndReap
<1>8. CASE EndTick
  BY <1>8 DEF EndTick
<1>9. CASE Close
  BY <1>9 DEF Close
<1>10. ASSUME NEW p \in Probe, CancelFuture(p) PROVE TypeOK'
  BY <1>10 DEF CancelFuture
<1>11. CASE Shutdown
  BY <1>11 DEF Shutdown
<1>12. CASE CloseDone
  BY <1>12 DEF CloseDone
<1>13. ASSUME NEW w \in Worker, WorkerTake(w) PROVE TypeOK'
  <2>1. Head(queue) \in Probe /\ Tail(queue) \in Seq(Probe)
    BY <1>13, HeadTailProperties DEF WorkerTake
  <2>2. QED
    BY <1>13, <2>1 DEF WorkerTake
<1>14. ASSUME NEW w \in Worker, WorkerFinish(w) PROVE TypeOK'
  <2>1. worker[w] \in Probe
    BY <1>14 DEF WorkerFinish
  <2>2. Outcomes[worker[w]] \subseteq ProbeOutcome
    BY <2>1, ProbeAssumption
  <2>3. QED
    BY <1>14, <2>1, <2>2 DEF WorkerFinish
<1>15. CASE UNCHANGED vars
  BY <1>15 DEF vars
<1>16. QED
  BY <1>1, <1>2, <1>3, <1>4, <1>5, <1>6, <1>7, <1>8, <1>9, <1>10, <1>11,
     <1>12, <1>13, <1>14, <1>15 DEF Next, Tick, Closing, Stopped

(* Every reachable state of the manager is well typed.                     *)
THEOREM TypeCorrect == Spec => []TypeOK
BY InitType, NextType, PTL DEF Spec

-----------------------------------------------------------------------------
(* The executor's queue.                                                   *)

Holds(s, x) == \E i \in 1..Len(s) : s[i] = x
Distinct(s) == \A i, j \in 1..Len(s) : s[i] = s[j] => i = j

(* Appending adds one element, and keeps the elements distinct if it is new.*)
LEMMA AppendHolds ==
    ASSUME NEW s \in Seq(Probe), NEW p \in Probe
    PROVE  /\ \A x : Holds(Append(s, p), x) <=> Holds(s, x) \/ x = p
           /\ Distinct(s) /\ ~Holds(s, p) => Distinct(Append(s, p))
<1> DEFINE t == Append(s, p)
<1>1. /\ Len(s) \in Nat /\ Len(t) = Len(s) + 1
      /\ \A i \in 1..Len(s) : t[i] = s[i]
      /\ t[Len(s) + 1] = p
  BY AppendProperties, LenProperties
<1> HIDE DEF t
<1>2. ASSUME NEW x PROVE Holds(t, x) <=> Holds(s, x) \/ x = p
  BY <1>1 DEF Holds
<1>3. ASSUME Distinct(s), ~Holds(s, p) PROVE Distinct(t)
  BY <1>1, <1>3 DEF Distinct, Holds
<1>4. QED
  BY <1>2, <1>3 DEF t

(* Taking the head removes exactly that element from a distinct queue.     *)
LEMMA TailHolds ==
    ASSUME NEW s \in Seq(Probe), s # <<>>, Distinct(s)
    PROVE  /\ Head(s) \in Probe /\ Tail(s) \in Seq(Probe)
           /\ Holds(s, Head(s))
           /\ \A x : Holds(Tail(s), x) <=> Holds(s, x) /\ x # Head(s)
           /\ Distinct(Tail(s))
<1> DEFINE t == Tail(s)
           h == Head(s)
<1>1. /\ h \in Probe /\ t \in Seq(Probe) /\ Len(t) = Len(s) - 1
      /\ \A i \in 1..Len(t) : t[i] = s[i + 1]
  BY HeadTailProperties
<1>2. Len(s) \in Nat /\ Len(s) >= 1 /\ h = s[1]
  BY EmptySeq, LenProperties
<1> HIDE DEF t, h
<1>3. Holds(s, h)
  BY <1>2 DEF Holds
<1>4. ASSUME NEW x PROVE Holds(t, x) <=> Holds(s, x) /\ x # h
  <2>1. ASSUME Holds(t, x) PROVE Holds(s, x) /\ x # h
    <3>1. PICK i \in 1..Len(t) : t[i] = x
      BY <2>1 DEF Holds
    <3>2. i + 1 \in 1..Len(s) /\ s[i + 1] = x /\ i + 1 # 1
      BY <1>1, <1>2, <3>1
    <3>3. QED
      BY <1>2, <3>2 DEF Holds, Distinct
  <2>2. ASSUME Holds(s, x), x # h PROVE Holds(t, x)
    <3>1. PICK i \in 1..Len(s) : s[i] = x
      BY <2>2 DEF Holds
    <3>2. i # 1
      BY <1>2, <2>2, <3>1
    <3>3. i - 1 \in 1..Len(t) /\ t[i - 1] = x
      BY <1>1, <1>2, <3>1, <3>2
    <3>4. QED
      BY <3>3 DEF Holds
  <2>3. QED
    BY <2>1, <2>2
<1>5. Distinct(t)
  BY <1>1, <1>2 DEF Distinct
<1>6. QED
  BY <1>1, <1>3, <1>4, <1>5 DEF t, h

-----------------------------------------------------------------------------
(* The pool: PoolInv is inductive.                                         *)

LEMMA InitPool == Init => PoolInv
<1> SUFFICES ASSUME Init PROVE PoolInv
  OBVIOUS
<1>1. TypeOK
  BY InitType
<1>2. Cardinality(active) = 0
  BY FS_EmptySet DEF Init
<1>3. PoolBound
  BY <1>2, WorkerAssumption DEF PoolBound
<1>4. \A p \in Probe : ~Queued(p) /\ ~Running(p)
  BY TokenAssumption DEF Init, Queued, Running
<1>5. ActiveHasFuture /\ NoOverlap
  BY <1>4, TokenAssumption DEF Init, ActiveHasFuture, NoOverlap
<1>6. CancelOnlyWhenClosing /\ MainThread /\ QuietWhenClosed
  BY DEF Init, CancelOnlyWhenClosing, MainThread, QuietWhenClosed
<1>7. QED
  BY <1>1, <1>3, <1>5, <1>6 DEF PoolInv

(* Steps that touch neither the futures nor the pool keep what is known    *)
(* about them.                                                             *)
LEMMA PoolUntouched ==
    ASSUME ActiveHasFuture, NoOverlap, PoolBound, UNCHANGED <<active, poolVars>>
    PROVE  ActiveHasFuture' /\ NoOverlap' /\ PoolBound'
BY DEF poolVars, ActiveHasFuture, NoOverlap, PoolBound, Queued, Running

(* A reaped future leaves the pool; its probe was neither queued nor       *)
(* running any more.                                                       *)
LEMMA ReapKeepsPool ==
    ASSUME PoolInv, TypeOK', NEW p \in Probe, ReapFuture(p)
    PROVE  PoolInv'
<1> USE DEF PoolInv, TypeOK, ReapFuture
<1>1. future[p] \notin {"pending", "running", "none", "cancelled"}
  BY DEF Done, CancelOnlyWhenClosing
<1>2. \A q \in Probe : /\ Queued(q)' <=> Queued(q)
                       /\ Running(q)' <=> Running(q)
  BY DEF Queued, Running
<1>3. ActiveHasFuture'
  BY <1>1, <1>2 DEF ActiveHasFuture, FutureState
<1>4. NoOverlap'
  BY <1>2 DEF NoOverlap
<1>5. PoolBound'
  <2>1. IsFiniteSet(active)
    BY ProbeAssumption, FS_Subset
  <2>2. Cardinality(active') <= Cardinality(active)
    BY <2>1, FS_Subset
  <2>3. Cardinality(active') \in Nat /\ Cardinality(active) \in Nat
    BY <2>1, FS_Subset, FS_CardinalityType
  <2>4. QED
    BY <2>2, <2>3, WorkerAssumption DEF PoolBound
<1>6. CancelOnlyWhenClosing' /\ MainThread' /\ QuietWhenClosed'
  BY DEF CancelOnlyWhenClosing, MainThread, QuietWhenClosed
<1>7. QED
  BY <1>3, <1>4, <1>5, <1>6

(* Only a probe without a future is submitted, and only below capacity.    *)
LEMMA SubmitKeepsPool ==
    ASSUME PoolInv, TypeOK', NEW p \in Probe, Submit(p)
    PROVE  PoolInv'
<1> USE DEF PoolInv, TypeOK, Submit
<1>1. p \notin active /\ future[p] = "none" /\ ~Queued(p) /\ ~Running(p)
  BY DEF Eligible, ActiveHasFuture
<1>2. /\ \A q : Holds(queue', q) <=> Holds(queue, q) \/ q = p
      /\ Distinct(queue')
  BY <1>1, AppendHolds DEF NoOverlap, Queued, Holds, Distinct
<1>3. \A q \in Probe : /\ Queued(q)' <=> Queued(q) \/ q = p
                       /\ Running(q)' <=> Running(q)
  BY <1>2 DEF Queued, Running, Holds
<1>4. ActiveHasFuture'
  BY <1>1, <1>3 DEF ActiveHasFuture
<1>5. NoOverlap'
  BY <1>1, <1>2, <1>3 DEF NoOverlap, Distinct
<1>6. PoolBound'
  <2>1. IsFiniteSet(active)
    BY ProbeAssumption, FS_Subset
  <2>2. Cardinality(active') = Cardinality(active) + 1
    BY <1>1, <2>1, FS_AddElement
  <2>3. Cardinality(active) \in Nat
    BY <2>1, FS_CardinalityType
  <2>4. QED
    BY <2>2, <2>3, WorkerAssumption DEF PoolBound, HasCapacity
<1>7. CancelOnlyWhenClosing' /\ MainThread' /\ QuietWhenClosed'
  BY DEF CancelOnlyWhenClosing, MainThread, QuietWhenClosed
<1>8. QED
  BY <1>4, <1>5, <1>6, <1>7

(* Cancelling a pending future leaves its item in the queue.               *)
LEMMA CancelKeepsPool ==
    ASSUME PoolInv, TypeOK', NEW p \in Probe, CancelFuture(p)
    PROVE  PoolInv'
<1> USE DEF PoolInv, TypeOK, CancelFuture
<1>1. \A q \in Probe : /\ Queued(q)' <=> Queued(q)
                       /\ Running(q)' <=> Running(q)
  BY DEF Queued, Running
<1>2. ActiveHasFuture'
  BY <1>1 DEF ActiveHasFuture, FutureState
<1>3. NoOverlap' /\ PoolBound'
  BY <1>1 DEF NoOverlap, PoolBound
<1>4. CancelOnlyWhenClosing' /\ MainThread' /\ QuietWhenClosed'
  BY DEF CancelOnlyWhenClosing, MainThread, QuietWhenClosed
<1>5. QED
  BY <1>2, <1>3, <1>4

(* By then every future was asked to cancel, so the items thrown away are  *)
(* those of cancelled futures.                                             *)
LEMMA ShutdownKeepsPool ==
    ASSUME PoolInv, TypeOK', Shutdown
    PROVE  PoolInv'
<1> USE DEF PoolInv, TypeOK, Shutdown
<1>1. \A q \in Probe : /\ future[q] # "pending" /\ ~Queued(q)'
                       /\ Running(q)' <=> Running(q)
  BY DEF Queued, Running, MainThread
<1>2. ActiveHasFuture'
  BY <1>1 DEF ActiveHasFuture
<1>3. NoOverlap' /\ PoolBound'
  BY <1>1 DEF NoOverlap, PoolBound
<1>4. CancelOnlyWhenClosing' /\ MainThread' /\ QuietWhenClosed'
  BY DEF CancelOnlyWhenClosing, MainThread, QuietWhenClosed
<1>5. QED
  BY <1>2, <1>3, <1>4

LEMMA CloseDoneKeepsPool ==
    ASSUME PoolInv, TypeOK', CloseDone
    PROVE  PoolInv'
<1> USE DEF PoolInv, TypeOK, CloseDone
<1>1. \A q \in Probe : ~Queued(q)' /\ ~Running(q)'
  BY TokenAssumption DEF Queued, Running, MainThread, Joined
<1>2. ActiveHasFuture'
  BY <1>1, TokenAssumption DEF ActiveHasFuture, Joined
<1>3. NoOverlap'
  BY <1>1 DEF NoOverlap, MainThread, Joined
<1>4. PoolBound'
  BY FS_EmptySet, WorkerAssumption DEF PoolBound
<1>5. CancelOnlyWhenClosing' /\ MainThread' /\ QuietWhenClosed'
  BY DEF CancelOnlyWhenClosing, MainThread, QuietWhenClosed, Joined
<1>6. QED
  BY <1>2, <1>3, <1>4, <1>5

(* A worker takes the head of the queue and runs it, or drops it when it   *)
(* was cancelled.                                                          *)
LEMMA TakeKeepsPool ==
    ASSUME PoolInv, TypeOK', NEW w \in Worker, WorkerTake(w)
    PROVE  PoolInv'
<1> DEFINE p == Head(queue)
<1>1. /\ p \in Probe /\ Holds(queue, p)
      /\ \A x : Holds(queue', x) <=> Holds(queue, x) /\ x # p
      /\ Distinct(queue')
  <2>1. queue \in Seq(Probe) /\ queue # <<>> /\ queue' = Tail(queue)
    BY DEF PoolInv, TypeOK, WorkerTake
  <2>2. Distinct(queue)
    BY DEF PoolInv, NoOverlap, Distinct
  <2>3. QED
    BY <2>1, <2>2, TailHolds
<1> USE DEF PoolInv, TypeOK, WorkerTake
<1>2. Queued(p) /\ ~Running(p) /\ future[p] \in {"pending", "cancelled"}
  BY <1>1 DEF Queued, Holds, NoOverlap, ActiveHasFuture
<1>3. \A q \in Probe : Queued(q)' <=> Queued(q) /\ q # p
  BY <1>1 DEF Queued, Holds
<1>4. CASE future[p] = "pending"
  <2>1. /\ future' = [future EXCEPT ![p] = "running"]
        /\ worker' = [worker EXCEPT ![w] = p]
    BY <1>4
  <2>2. \A q \in Probe : Running(q)' <=> Running(q) \/ q = p
    BY <1>1, <2>1, TokenAssumption DEF Running
  <2>3. ActiveHasFuture'
    BY <1>1, <1>2, <1>3, <2>1, <2>2 DEF ActiveHasFuture
  <2>4. \A u, v \in Worker : worker'[u] = worker'[v] /\ worker'[u] # Idle => u = v
    BY <1>1, <1>2, <2>1 DEF NoOverlap, Running
  <2>5. NoOverlap'
    BY <1>1, <1>3, <2>2, <2>4 DEF NoOverlap, Distinct
  <2>6. CancelOnlyWhenClosing' /\ MainThread' /\ QuietWhenClosed'
    BY <1>1, <2>1 DEF CancelOnlyWhenClosing, MainThread, QuietWhenClosed
  <2>7. QED
    BY <2>3, <2>5, <2>6 DEF PoolBound
<1>5. CASE future[p] # "pending"
  <2>1. UNCHANGED <<future, worker>>
    BY <1>5
  <2>2. \A q \in Probe : Running(q)' <=> Running(q)
    BY <2>1 DEF Running
  <2>3. ActiveHasFuture'
    BY <1>1, <1>2, <1>3, <1>5, <2>1, <2>2 DEF ActiveHasFuture
  <2>4. NoOverlap'
    BY <1>1, <1>3, <2>1, <2>2 DEF NoOverlap, Distinct
  <2>5. CancelOnlyWhenClosing' /\ MainThread' /\ QuietWhenClosed'
    BY <2>1 DEF CancelOnlyWhenClosing, MainThread, QuietWhenClosed
  <2>6. QED
    BY <2>3, <2>4, <2>5 DEF PoolBound
<1>6. QED
  BY <1>4, <1>5

LEMMA FinishKeepsPool ==
    ASSUME PoolInv, TypeOK', NEW w \in Worker, WorkerFinish(w)
    PROVE  PoolInv'
<1> DEFINE p == worker[w]
<1> USE DEF PoolInv, TypeOK, WorkerFinish
<1>1. p \in Probe /\ Running(p) /\ ~Queued(p) /\ future[p] = "running"
  BY DEF Running, NoOverlap, ActiveHasFuture
<1>2. \A q \in Probe : Running(q)' <=> Running(q) /\ q # p
  BY <1>1, TokenAssumption DEF Running, NoOverlap
<1>3. \A q \in Probe : Queued(q)' <=> Queued(q)
  BY DEF Queued
<1>4. result'[p] # NoResult /\ \A q \in Probe \ {p} : result'[q] = result[q]
  <2>1. NoResult \notin Outcomes[p] \cup {Raised}
    BY <1>1, ProbeAssumption, TokenAssumption
  <2>2. QED
    BY <1>1, <2>1
<1>5. ActiveHasFuture'
  BY <1>1, <1>2, <1>3, <1>4 DEF ActiveHasFuture
<1>6. NoOverlap'
  BY <1>1, <1>2, <1>3 DEF NoOverlap
<1>7. CancelOnlyWhenClosing' /\ MainThread' /\ QuietWhenClosed'
  BY <1>1 DEF CancelOnlyWhenClosing, MainThread, QuietWhenClosed
<1>8. QED
  BY <1>5, <1>6, <1>7 DEF PoolBound

LEMMA NextPool == PoolInv /\ [Next]_vars => PoolInv'
<1> SUFFICES ASSUME PoolInv, [Next]_vars PROVE PoolInv'
  OBVIOUS
<1>1. TypeOK'
  BY NextType DEF PoolInv
<1>2. ASSUME UNCHANGED <<active, poolVars>>,
             CancelOnlyWhenClosing', MainThread', QuietWhenClosed'
      PROVE  PoolInv'
  BY <1>1, <1>2, PoolUntouched DEF PoolInv
<1> USE DEF PoolInv, CancelOnlyWhenClosing, MainThread, QuietWhenClosed, poolVars
<1>3. CASE Elapse
  BY <1>2, <1>3 DEF Elapse
<1>4. CASE ReadClock
  BY <1>2, <1>4 DEF ReadClock
<1>5. ASSUME NEW wall \in Epoch, BeginTick(wall) PROVE PoolInv'
  BY <1>2, <1>5 DEF BeginTick
<1>6. ASSUME NEW p \in Probe, SkipFuture(p) PROVE PoolInv'
  BY <1>2, <1>6 DEF SkipFuture
<1>7. CASE EndReap
  BY <1>2, <1>7 DEF EndReap
<1>8. CASE EndTick
  BY <1>2, <1>8 DEF EndTick
<1>9. CASE Close
  BY <1>2, <1>9 DEF Close, ActiveHasFuture
<1>10. CASE UNCHANGED vars
  BY <1>2, <1>10 DEF vars
<1>11. QED
  BY <1>1, <1>3, <1>4, <1>5, <1>6, <1>7, <1>8, <1>9, <1>10, ReapKeepsPool,
     SubmitKeepsPool, CancelKeepsPool, ShutdownKeepsPool, CloseDoneKeepsPool,
     TakeKeepsPool, FinishKeepsPool
     DEF Next, Tick, Closing, Stopped

(* The inductive invariant of the pool holds in every reachable state.     *)
THEOREM PoolCorrect == Spec => []PoolInv
BY InitPool, NextPool, PTL DEF Spec

(* "never submits a probe while another invocation of the same probe is    *)
(* active", for every interleaving of tick, close and the workers.         *)
THEOREM ProbesNeverOverlap == Spec => []NoOverlap
BY PoolCorrect, PTL DEF PoolInv

(* The manager never has more runs in progress than worker threads.        *)
THEOREM PoolNeverOverfull == Spec => []PoolBound
BY PoolCorrect, PTL DEF PoolInv

(* When close() has returned no worker runs and nothing is queued.         *)
THEOREM CloseLeavesNothing == Spec => []QuietWhenClosed
BY PoolCorrect, PTL DEF PoolInv

(* The futures the main thread keeps are exactly the runs in progress.     *)
THEOREM FuturesMatchRuns == Spec => []ActiveHasFuture
BY PoolCorrect, PTL DEF PoolInv

-----------------------------------------------------------------------------
(* The executor never holds a backlog: queued and running probes are       *)
(* distinct members of active, and active is no larger than the pool.      *)

LEMMA QueueFits == PoolInv => NoBacklog
<1> SUFFICES ASSUME PoolInv PROVE NoBacklog
  OBVIOUS
<1> DEFINE Q == {p \in Probe : Queued(p)}
           R == {p \in Probe : Running(p)}
           B == {w \in Worker : worker[w] # Idle}
           I == {w \in Worker : worker[w] = Idle}
<1>1. /\ IsFiniteSet(Q) /\ IsFiniteSet(R) /\ IsFiniteSet(active)
      /\ IsFiniteSet(B) /\ IsFiniteSet(I)
  BY ProbeAssumption, WorkerAssumption, FS_Subset DEF PoolInv, TypeOK
<1>2. Cardinality(Q) = Len(queue)
  <2> DEFINE f == [i \in 1..Len(queue) |-> queue[i]]
  <2>1. Len(queue) \in Nat /\ \A i \in 1..Len(queue) : queue[i] \in Probe
    BY LenProperties, ElementOfSeq DEF PoolInv, TypeOK
  <2>2. f \in Bijection(1..Len(queue), Q)
    BY <2>1 DEF Bijection, Injection, Surjection, IsInjective, PoolInv,
                NoOverlap, Queued
  <2>3. IsFiniteSet(1..Len(queue)) /\ Cardinality(1..Len(queue)) = Len(queue)
    BY <2>1, FS_Interval
  <2>4. QED
    BY <2>2, <2>3, FS_Bijection DEF ExistsBijection
<1>3. Cardinality(R) = Cardinality(B)
  <2> DEFINE f == [w \in B |-> worker[w]]
  <2>1. f \in [B -> R]
    BY DEF PoolInv, TypeOK, Running
  <2>2. \A v, w \in B : f[v] = f[w] => v = w
    BY DEF PoolInv, NoOverlap
  <2>3. \A p \in R : \E w \in B : f[w] = p
    BY TokenAssumption DEF Running
  <2>4. f \in Bijection(B, R)
    BY <2>1, <2>2, <2>3 DEF Bijection, Injection, Surjection, IsInjective
  <2>5. QED
    BY <1>1, <2>4, FS_Bijection DEF ExistsBijection
<1>4. Q \cup R \subseteq active /\ Q \cap R = {}
  BY DEF PoolInv, ActiveHasFuture, NoOverlap
<1>5. Cardinality(Q) + Cardinality(R) <= Cardinality(active)
  <2>1. Cardinality(Q \cup R) = Cardinality(Q) + Cardinality(R)
    <3> HIDE DEF Q, R
    <3>1. Cardinality(Q \cap R) = 0
      BY <1>4, FS_EmptySet
    <3>2. Cardinality(Q) \in Nat /\ Cardinality(R) \in Nat
      BY <1>1, FS_CardinalityType
    <3>3. Cardinality(Q \cup R)
             = Cardinality(Q) + Cardinality(R) - Cardinality(Q \cap R)
      BY <1>1, FS_Union
    <3>4. QED
      BY <3>1, <3>2, <3>3
  <2>2. QED
    BY <1>1, <1>4, <2>1, FS_Subset
<1>6. Cardinality(I) + Cardinality(B) = MaxWorkers
  <2>1. B \cup I = Worker /\ B \cap I = {}
    OBVIOUS
  <2> HIDE DEF B, I
  <2>2. Cardinality(B \cap I) = 0
    BY <2>1, FS_EmptySet
  <2>3. Cardinality(B) \in Nat /\ Cardinality(I) \in Nat
    BY <1>1, FS_CardinalityType
  <2>4. Cardinality(B \cup I)
           = Cardinality(B) + Cardinality(I) - Cardinality(B \cap I)
    BY <1>1, FS_Union
  <2>5. Cardinality(Worker) = Cardinality(B \cup I)
    BY <2>1, Zenon
  <2>6. QED
    BY <2>2, <2>3, <2>4, <2>5 DEF MaxWorkers
<1>7. Cardinality(active) <= MaxWorkers
  BY DEF PoolInv, PoolBound
<1>8. /\ Cardinality(Q) \in Nat /\ Cardinality(R) \in Nat
      /\ Cardinality(B) \in Nat /\ Cardinality(I) \in Nat
      /\ Cardinality(active) \in Nat
  BY <1>1, FS_CardinalityType
<1>9. Len(queue) <= Cardinality(I)
  BY <1>2, <1>3, <1>5, <1>6, <1>7, <1>8, WorkerAssumption
<1>10. QED
  BY <1>9 DEF NoBacklog

(* There is an idle worker for every item in the executor's queue.         *)
THEOREM NoBacklogEver == Spec => []NoBacklog
BY PoolCorrect, QueueFits, PTL

-----------------------------------------------------------------------------
(* The records.                                                            *)

(* What ProbeManager assumes of the outcomes holds of all five probes; and *)
(* an outcome that is ok without a success comes from an HTTPError.        *)
THEOREM ProbesReportSuccess ==
    ASSUME NEW kind \in {"network_gateway", "network_internet", "network_dns",
                         "network_https", "network_public_ip"},
           NEW o \in OutcomesOf(kind)
    PROVE  /\ o.success => o.status \in {"ok", "degraded"}
           /\ o.source_state = "fresh" => o.success
           /\ o.status = "ok" => o.success \/ o.source_state = "http_error"
<1> USE DEF Outcome, Failed
<1>1. ASSUME o \in PingOutcomes
      PROVE  /\ o.success => o.status \in {"ok", "degraded"}
             /\ o.source_state = "fresh" => o.success
             /\ o.status = "ok" => o.success \/ o.source_state = "http_error"
  BY <1>1 DEF PingOutcomes, ProbePing, Exit, Loss, NoLoss
<1>2. ASSUME o \in GatewayOutcomes
      PROVE  /\ o.success => o.status \in {"ok", "degraded"}
             /\ o.source_state = "fresh" => o.success
             /\ o.status = "ok" => o.success \/ o.source_state = "http_error"
  <2>1. PICK t \in Route, e \in Exit, l \in Loss, r \in Reading :
               o = ProbeGateway(t, e, l, r)
    BY <1>2 DEF GatewayOutcomes
  <2>2. CASE t # "gateway"
    BY <2>1, <2>2 DEF ProbeGateway, Route
  <2>3. CASE t = "gateway"
    <3>1. o = [ProbePing(e, l, r) EXCEPT !.values = NoReading]
      BY <2>1, <2>3 DEF ProbeGateway
    <3>2. ProbePing(e, l, r) \in PingOutcomes
      BY DEF PingOutcomes
    <3>3. o.success = ProbePing(e, l, r).success
          /\ o.status = ProbePing(e, l, r).status
          /\ o.source_state = ProbePing(e, l, r).source_state
      BY <3>1 DEF ProbePing, Exit, Loss, NoLoss
    <3>4. QED
      BY <3>3 DEF ProbePing, Exit, Loss, NoLoss
  <2>4. QED
    BY <2>2, <2>3
<1>3. ASSUME o \in DnsOutcomes
      PROVE  /\ o.success => o.status \in {"ok", "degraded"}
             /\ o.source_state = "fresh" => o.success
             /\ o.status = "ok" => o.success \/ o.source_state = "http_error"
  BY <1>3 DEF DnsOutcomes, ProbeDns, Exit
<1>4. ASSUME o \in HttpsOutcomes
      PROVE  /\ o.success => o.status \in {"ok", "degraded"}
             /\ o.source_state = "fresh" => o.success
             /\ o.status = "ok" => o.success \/ o.source_state = "http_error"
  <2>1. CASE o = ProbeHttps("response", 200)
    <3>1. ParseHttpsStatus(200) = "ok"
      BY DEF ParseHttpsStatus
    <3>2. ProbeHttps("response", 200) = Outcome("ok", "fresh", "high", TRUE, NoReading)
      BY <3>1 DEF ProbeHttps
    <3>3. QED
      BY <2>1, <3>2
  <2>2. ASSUME NEW c \in Code, o = ProbeHttps("http_error", c)
        PROVE  ~o.success /\ o.source_state = "http_error"
    BY <2>2 DEF ProbeHttps
  <2>3. CASE o = ProbeHttps("timeout", 200)
    BY <2>3 DEF ProbeHttps
  <2>4. CASE o = ProbeHttps("connection_error", 200)
    BY <2>4 DEF ProbeHttps
  <2>5. \/ o = ProbeHttps("response", 200)
        \/ \E c \in Code : o = ProbeHttps("http_error", c)
        \/ o = ProbeHttps("timeout", 200)
        \/ o = ProbeHttps("connection_error", 200)
    BY <1>4 DEF HttpsOutcomes
  <2>6. QED
    BY <2>1, <2>2, <2>3, <2>4, <2>5
<1>5. ASSUME o \in PublicIpOutcomes
      PROVE  /\ o.success => o.status \in {"ok", "degraded"}
             /\ o.source_state = "fresh" => o.success
             /\ o.status = "ok" => o.success \/ o.source_state = "http_error"
  BY <1>5 DEF PublicIpOutcomes, ProbePublicIp, RequestEnd
<1>6. QED
  BY <1>1, <1>2, <1>3, <1>4, <1>5 DEF OutcomesOf

(* One run keeps a record coherent, given what is assumed of its outcome.  *)
LEMMA ApplyCoherent ==
    ASSUME NEW rec \in Record, NEW o \in ProbeOutcome, NEW wall \in Epoch,
           o.success => o.status \in {"ok", "degraded"},
           o.source_state = "fresh" => o.success,
           rec.has_good_result => rec.status \in {"ok", "degraded"},
           rec.has_good_result <=> rec.last_success_epoch # 0,
           rec.source_state = "fresh" => rec.has_good_result,
           ~rec.has_good_result => rec.values = NoReading
    PROVE  LET r == Apply(rec, o, wall)
           IN  /\ r.has_good_result => r.status \in {"ok", "degraded"}
               /\ r.has_good_result <=> r.last_success_epoch # 0
               /\ r.source_state = "fresh" => r.has_good_result
               /\ ~r.has_good_result => r.values = NoReading
<1>1. wall # 0
  BY EpochAssumption
<1>2. CASE o.success
  BY <1>1, <1>2 DEF Apply, Record, ProbeOutcome
<1>3. CASE ~o.success /\ rec.has_good_result
  BY <1>3 DEF Apply, Record, ProbeOutcome
<1>4. CASE ~o.success /\ ~rec.has_good_result
  BY <1>4 DEF Apply, Record, ProbeOutcome
<1>5. QED
  BY <1>2, <1>3, <1>4 DEF ProbeOutcome, Record

(* The outcome that is reaped satisfies those assumptions.                 *)
LEMMA ReapedOutcomeHonest ==
    ASSUME RecordInv, NEW p \in Probe
    PROVE  LET o == ReapedOutcome(p)
           IN  /\ o.success => o.status \in {"ok", "degraded"}
               /\ o.source_state = "fresh" => o.success
<1>1. CASE result[p] \in ProbeOutcome
  <2>1. result[p] \in Outcomes[p]
    BY <1>1, TokenAssumption DEF RecordInv
  <2>2. QED
    BY <1>1, <2>1, SuccessAssumption DEF ReapedOutcome
<1>2. CASE result[p] \notin ProbeOutcome
  BY <1>2 DEF ReapedOutcome, ErrorOutcome, Failed, Outcome
<1>3. QED
  BY <1>1, <1>2

LEMMA InitRecords == Init => RecordInv
BY DEF Init, RecordInv, RecordCoherent, NewRecord

LEMMA NextRecords == PoolInv /\ RecordInv /\ [Next]_vars => RecordInv'
<1> SUFFICES ASSUME PoolInv, RecordInv, [Next]_vars PROVE RecordInv'
  OBVIOUS
<1>1. TypeOK
  BY DEF PoolInv
<1>2. ASSUME NEW p \in Probe, ReapFuture(p) PROVE RecordInv'
  <2>1. wallEpoch \in Epoch
    BY <1>2 DEF PoolInv, MainThread, ReapFuture
  <2>2. record' = [record EXCEPT ![p] = Apply(record[p], ReapedOutcome(p), wallEpoch)]
    BY <1>2 DEF ReapFuture
  <2>3. record[p] \in Record /\ ReapedOutcome(p) \in ProbeOutcome
    BY <1>1, ReapedOutcomeType DEF TypeOK
  <2>4. LET r == Apply(record[p], ReapedOutcome(p), wallEpoch)
        IN  /\ r.has_good_result => r.status \in {"ok", "degraded"}
            /\ r.has_good_result <=> r.last_success_epoch # 0
            /\ r.source_state = "fresh" => r.has_good_result
            /\ ~r.has_good_result => r.values = NoReading
    BY <2>1, <2>3, ReapedOutcomeHonest, ApplyCoherent DEF RecordInv, RecordCoherent
  <2>5. RecordCoherent'
    BY <1>1, <2>2, <2>4 DEF RecordInv, RecordCoherent, TypeOK
  <2>6. \A q \in Probe : result'[q] \in Outcomes[q] \cup {Raised, NoResult}
    BY <1>1, <1>2 DEF ReapFuture, RecordInv, TypeOK
  <2>7. QED
    BY <2>5, <2>6 DEF RecordInv
<1>3. ASSUME NEW w \in Worker, WorkerFinish(w) PROVE RecordInv'
  BY <1>1, <1>3 DEF WorkerFinish, RecordInv, RecordCoherent, TypeOK
<1>4. CASE CloseDone
  BY <1>4 DEF CloseDone, RecordInv, RecordCoherent
<1>5. ASSUME UNCHANGED <<record, result>> PROVE RecordInv'
  BY <1>5 DEF RecordInv, RecordCoherent
<1>6. QED
  BY <1>2, <1>3, <1>4, <1>5
     DEF Next, Tick, Closing, Stopped, vars, poolVars, Elapse, ReadClock,
         BeginTick, SkipFuture, Submit, EndReap, EndTick, Close, CancelFuture,
         Shutdown, WorkerTake

LEMMA RecordInvCorrect == Spec => []RecordInv
<1>1. Init => PoolInv /\ RecordInv
  BY InitPool, InitRecords
<1>2. PoolInv /\ RecordInv /\ [Next]_vars => PoolInv' /\ RecordInv'
  BY NextPool, NextRecords
<1>3. QED
  BY <1>1, <1>2, PTL DEF Spec

(* Whether a record shows data, an age and "fresh" agrees with whether its *)
(* probe has ever succeeded.                                               *)
THEOREM RecordsCoherent == Spec => []RecordCoherent
<1>1. RecordInv => RecordCoherent
  BY DEF RecordInv
<1>2. QED
  BY <1>1, RecordInvCorrect, PTL

LEMMA NextOk ==
    ASSUME PoolInv, RecordInv, CarefulIsConfirmed, [Next]_vars
    PROVE  CarefulIsConfirmed'
<1> USE DEF Confirmed
<1>1. ASSUME NEW p \in Probe, ReapFuture(p) PROVE CarefulIsConfirmed'
  <2>1. /\ record' = [record EXCEPT ![p] = Apply(record[p], ReapedOutcome(p), wallEpoch)]
        /\ record \in [Probe -> Record]
    BY <1>1 DEF ReapFuture, PoolInv, TypeOK
  <2>2. ReapedOutcome(p) \in ProbeOutcome
    BY ReapedOutcomeType
  <2>3. p \in Careful /\ ReapedOutcome(p).status = "ok" => ReapedOutcome(p).success
    BY TokenAssumption DEF RecordInv, Careful, ReapedOutcome, ErrorOutcome, Failed, Outcome
  <2>4. p \in Careful => LET r == Apply(record[p], ReapedOutcome(p), wallEpoch)
                         IN  r.status = "ok" => r.source_state = "fresh"
    BY <2>1, <2>2, <2>3 DEF Apply, Record, ProbeOutcome
  <2> QED BY <2>1, <2>4 DEF CarefulIsConfirmed, Careful
<1>2. ASSUME UNCHANGED record PROVE CarefulIsConfirmed'
  BY <1>2 DEF CarefulIsConfirmed, Careful
<1> QED
  BY <1>1, <1>2
     DEF Next, Tick, Closing, Stopped, vars, poolVars, Elapse, ReadClock, CloseDone,
         BeginTick, SkipFuture, Submit, EndReap, EndTick, Close, CancelFuture,
         Shutdown, WorkerTake, WorkerFinish

(* The manager itself never makes a failure look ok: the record of a probe *)
(* that calls no failure ok shows ok only for a success, and only until a  *)
(* failure comes.                                                          *)
THEOREM OkNeedsSuccess == Spec => []CarefulIsConfirmed
<1>1. Init => CarefulIsConfirmed
  BY DEF Init, CarefulIsConfirmed, Careful, Confirmed, NewRecord
<1>2. PoolInv /\ RecordInv /\ CarefulIsConfirmed /\ [Next]_vars => CarefulIsConfirmed'
  BY NextOk
<1>3. QED
  BY <1>1, <1>2, PoolCorrect, RecordInvCorrect, PTL DEF Spec

-----------------------------------------------------------------------------
(* The manager implements ProbeRuns.                                       *)

LEMMA InitImplements == Init => Runs!RInit
BY DEF Init, Runs!RInit, NewRecord, Runs!NewRecord, PhaseBar, OutcomeBar, ModeBar

LEMMA SubmitImplements ==
    ASSUME PoolInv, NEW p \in Probe, Submit(p)
    PROVE  Runs!Start(p)
<1> USE DEF Submit, PoolInv, TypeOK
<1>1. future[p] = "none" /\ p \notin active
  BY DEF Eligible, ActiveHasFuture
<1>2. Runs!InProgress = active
  BY DEF Runs!InProgress, ActiveHasFuture, PhaseBar
<1>3. Cardinality(active \cup {p}) <= MaxWorkers
  <2>1. IsFiniteSet(active)
    BY ProbeAssumption, FS_Subset
  <2>2. Cardinality(active \cup {p}) = Cardinality(active) + 1
    BY <1>1, <2>1, FS_AddElement
  <2>3. QED
    BY <2>1, <2>2, FS_CardinalityType, WorkerAssumption DEF HasCapacity
<1>4. PhaseBar' = [PhaseBar EXCEPT ![p] = "pending"]
  BY DEF PhaseBar
<1>5. OutcomeBar' = OutcomeBar
  BY <1>1 DEF OutcomeBar, ReapedOutcome
<1>6. ModeBar = "open" /\ ModeBar' = ModeBar /\ PhaseBar[p] = "none"
  BY <1>1 DEF ModeBar, PhaseBar
<1>7. QED
  BY <1>2, <1>3, <1>4, <1>5, <1>6 DEF Runs!Start

LEMMA TakeImplements ==
    ASSUME PoolInv, NEW w \in Worker, WorkerTake(w)
    PROVE  Runs!Begin(Head(queue)) \/ UNCHANGED Runs!rvars
<1> DEFINE p == Head(queue)
<1>1. p \in Probe
  BY HeadTailProperties DEF PoolInv, TypeOK, WorkerTake
<1>2. pc # "closed"
  BY DEF PoolInv, MainThread, WorkerTake
<1>3. CASE future[p] = "pending"
  <2>1. future' = [future EXCEPT ![p] = "running"] /\ UNCHANGED <<result, record, pc>>
    BY <1>3 DEF WorkerTake
  <2>2. PhaseBar' = [PhaseBar EXCEPT ![p] = "running"]
    BY <1>1, <2>1 DEF PhaseBar, PoolInv, TypeOK
  <2>3. OutcomeBar' = OutcomeBar
    BY <1>1, <1>3, <2>1 DEF OutcomeBar, ReapedOutcome, PoolInv, TypeOK
  <2>4. ModeBar # "closed" /\ ModeBar' = ModeBar /\ PhaseBar[p] = "pending"
    BY <1>1, <1>2, <1>3, <2>1 DEF ModeBar, PhaseBar
  <2>5. Runs!Begin(p)
    BY <2>1, <2>2, <2>3, <2>4 DEF Runs!Begin
  <2>6. QED
    BY <2>5
<1>4. CASE future[p] # "pending"
  BY <1>4 DEF WorkerTake, Runs!rvars, PhaseBar, OutcomeBar, ModeBar, ReapedOutcome
<1>5. QED
  BY <1>3, <1>4

LEMMA FinishImplements ==
    ASSUME PoolInv, NEW w \in Worker, WorkerFinish(w)
    PROVE  Runs!Finish(worker[w])
<1>0. PICK p \in Probe : p = worker[w]
  BY DEF WorkerFinish, PoolInv, TypeOK
<1>1. p \in Probe /\ future[p] = "running" /\ pc # "closed"
  BY <1>0 DEF WorkerFinish, PoolInv, TypeOK, ActiveHasFuture, Running, QuietWhenClosed
<1>2. PICK res \in Outcomes[p] \cup {Raised} : result' = [result EXCEPT ![p] = res]
  BY <1>0 DEF WorkerFinish
<1>3. future' = [future EXCEPT ![p] = "finished"] /\ UNCHANGED <<record, pc>>
  BY <1>0 DEF WorkerFinish
<1>4. PhaseBar' = [PhaseBar EXCEPT ![p] = "finished"]
  BY <1>1, <1>3 DEF PhaseBar, PoolInv, TypeOK
<1>5. ReapedOutcome(p)' \in Outcomes[p] \cup {ErrorOutcome}
  <2>1. result'[p] = res
    BY <1>1, <1>2 DEF PoolInv, TypeOK
  <2>2. ReapedOutcome(p)' = IF res \in ProbeOutcome THEN res ELSE ErrorOutcome
    BY <2>1 DEF ReapedOutcome
  <2>3. res # Raised => res \in Outcomes[p]
    BY <1>2
  <2>4. res = Raised => ReapedOutcome(p)' = ErrorOutcome
    BY <2>2, TokenAssumption
  <2>5. QED
    BY <1>1, <2>2, <2>3, <2>4
<1>6. OutcomeBar' = [OutcomeBar EXCEPT ![p] = ReapedOutcome(p)']
  <2>1. \A q \in Probe \ {p} : result'[q] = result[q] /\ future'[q] = future[q]
    BY <1>1, <1>2, <1>3 DEF PoolInv, TypeOK
  <2>2. \A q \in Probe \ {p} : ReapedOutcome(q)' = ReapedOutcome(q)
    BY <2>1 DEF ReapedOutcome
  <2>3. future'[p] = "finished"
    BY <1>1, <1>3 DEF PoolInv, TypeOK
  <2>4. QED
    BY <2>1, <2>2, <2>3 DEF OutcomeBar
<1>7. ModeBar # "closed" /\ ModeBar' = ModeBar /\ PhaseBar[p] = "running"
  BY <1>1, <1>3 DEF ModeBar, PhaseBar
<1>8. Runs!ErrorOutcome = ErrorOutcome
  BY DEF Runs!ErrorOutcome, ErrorOutcome, Runs!Failed, Failed, Runs!Outcome, Outcome
<1>9. QED
  BY <1>0, <1>3, <1>4, <1>5, <1>6, <1>7, <1>8 DEF Runs!Finish

LEMMA ReapImplements ==
    ASSUME PoolInv, NEW p \in Probe, ReapFuture(p)
    PROVE  Runs!Publish(p)
<1> USE DEF ReapFuture, PoolInv, TypeOK
<1>1. future[p] = "finished" /\ wallEpoch \in Epoch
  BY DEF Done, CancelOnlyWhenClosing, MainThread
<1>2. PhaseBar' = [PhaseBar EXCEPT ![p] = "none"]
  BY DEF PhaseBar
<1>3. OutcomeBar' = [OutcomeBar EXCEPT ![p] = NoResult]
  BY DEF OutcomeBar, ReapedOutcome
<1>4. OutcomeBar[p] = ReapedOutcome(p) /\ PhaseBar[p] = "finished"
  BY <1>1 DEF OutcomeBar, PhaseBar
<1>5. record' = [record EXCEPT ![p] = Runs!Apply(record[p], OutcomeBar[p], wallEpoch)]
  BY <1>4 DEF Apply, Runs!Apply, UpdateValues, Runs!UpdateValues
<1>6. ModeBar = "open" /\ ModeBar' = ModeBar
  BY DEF ModeBar
<1>7. QED
  BY <1>1, <1>2, <1>3, <1>4, <1>5, <1>6
     DEF Runs!Publish

LEMMA CloseImplements ==
    ASSUME PoolInv, Close PROVE Runs!BeginClosing
BY DEF Close, Runs!BeginClosing, poolVars, PhaseBar, OutcomeBar, ModeBar, ReapedOutcome

LEMMA CloseDoneImplements ==
    ASSUME PoolInv, CloseDone PROVE Runs!EndClosing
<1>1. \A p \in Probe : future[p] # "running"
  BY TokenAssumption DEF CloseDone, Joined, PoolInv, ActiveHasFuture, Running
<1>2. PhaseBar' = [p \in Probe |-> "none"]
  BY DEF CloseDone, PhaseBar
<1>3. OutcomeBar' = [p \in Probe |-> NoResult]
  BY DEF CloseDone, OutcomeBar
<1>4. \A p \in Probe : PhaseBar[p] # "running"
  BY <1>1 DEF PhaseBar, PoolInv, TypeOK, FutureState
<1>5. ModeBar = "closing" /\ ModeBar' = "closed" /\ record' = record
  BY DEF CloseDone, ModeBar
<1>6. QED
  BY <1>2, <1>3, <1>4, <1>5 DEF Runs!EndClosing

(* A cancelled run is still a queued one for the specification.            *)
LEMMA CancelImplements ==
    ASSUME PoolInv, NEW p \in Probe, CancelFuture(p)
    PROVE  UNCHANGED Runs!rvars
<1> USE DEF CancelFuture, PoolInv, TypeOK
<1>1. PhaseBar' = PhaseBar
  BY DEF PhaseBar
<1>2. OutcomeBar' = OutcomeBar
  BY DEF OutcomeBar, ReapedOutcome
<1>3. ModeBar' = ModeBar /\ record' = record
  BY DEF ModeBar
<1>4. QED
  BY <1>1, <1>2, <1>3 DEF Runs!rvars

LEMMA NextImplements == PoolInv /\ [Next]_vars => [Runs!RNext]_Runs!rvars
<1> SUFFICES ASSUME PoolInv, [Next]_vars PROVE [Runs!RNext]_Runs!rvars
  OBVIOUS
<1>1. ASSUME UNCHANGED <<future, result, record, ModeBar>>
      PROVE  UNCHANGED Runs!rvars
  BY <1>1 DEF Runs!rvars, ReapedOutcome, PhaseBar, OutcomeBar
<1> USE DEF ModeBar, poolVars
<1>2. CASE Elapse
  BY <1>1, <1>2 DEF Elapse
<1>3. CASE ReadClock
  BY <1>1, <1>3 DEF ReadClock
<1>4. ASSUME NEW wall \in Epoch, BeginTick(wall) PROVE UNCHANGED Runs!rvars
  BY <1>1, <1>4 DEF BeginTick
<1>5. ASSUME NEW p \in Probe, SkipFuture(p) PROVE UNCHANGED Runs!rvars
  BY <1>1, <1>5 DEF SkipFuture
<1>6. CASE EndReap
  BY <1>1, <1>6 DEF EndReap
<1>7. CASE EndTick
  BY <1>1, <1>7 DEF EndTick
<1>8. CASE Shutdown
  BY <1>1, <1>8 DEF Shutdown
<1>9. CASE UNCHANGED vars
  BY <1>1, <1>9 DEF vars
<1>10. ASSUME NEW w \in Worker, WorkerTake(w) PROVE [Runs!RNext]_Runs!rvars
  <2>1. Head(queue) \in Probe
    BY <1>10, HeadTailProperties DEF PoolInv, TypeOK, WorkerTake
  <2>2. QED
    BY <1>10, <2>1, TakeImplements DEF Runs!RNext
<1>11. ASSUME NEW w \in Worker, WorkerFinish(w) PROVE Runs!RNext
  <2>1. worker[w] \in Probe
    BY <1>11 DEF PoolInv, TypeOK, WorkerFinish
  <2>2. QED
    BY <1>11, <2>1, FinishImplements DEF Runs!RNext
<1>12. ASSUME NEW p \in Probe, Submit(p) \/ ReapFuture(p) PROVE Runs!RNext
  BY <1>12, SubmitImplements, ReapImplements DEF Runs!RNext
<1>13. CASE Close \/ CloseDone
  BY <1>13, CloseImplements, CloseDoneImplements DEF Runs!RNext
<1>14. ASSUME NEW p \in Probe, CancelFuture(p) PROVE UNCHANGED Runs!rvars
  BY <1>14, CancelImplements
<1>15. QED
  BY <1>2, <1>3, <1>4, <1>5, <1>6, <1>7, <1>8, <1>9, <1>10, <1>11, <1>12,
     <1>13, <1>14 DEF Next, Tick, Closing, Stopped

(* Every behaviour of the manager and its threads is one of ProbeRuns.     *)
THEOREM ManagerImplementsRuns == Spec => ImplementsRuns
BY InitImplements, NextImplements, PoolCorrect, PTL
   DEF Spec, ImplementsRuns, Runs!RSpec

-----------------------------------------------------------------------------
(* Action properties.                                                      *)

(* Once close() has begun nothing is submitted and nothing is published.   *)
THEOREM ClosingStaysFinal == Spec => ClosingIsFinal
<1>1. [Next]_vars =>
        ((pc \in {"cancel", "join", "closed"}) =>
            /\ pc' \in {"cancel", "join", "closed"}
            /\ active' \subseteq active /\ record' = record)
  BY DEF Next, Tick, Closing, Stopped, vars, poolVars, Elapse, ReadClock,
         BeginTick, SkipFuture, ReapFuture, Submit, EndReap, EndTick, Close,
         CancelFuture, Shutdown, CloseDone, WorkerTake, WorkerFinish
<1>2. QED
  BY <1>1, PTL DEF Spec, ClosingIsFinal

(* Apart from the reaping of a future, no step changes a record, and only  *)
(* the end of close() takes a finished future away.                        *)
LEMMA OnlyReapPublishes ==
    ASSUME PoolInv, [Next]_vars, \A p \in Probe : ~ReapFuture(p)
    PROVE  /\ record' = record
           /\ \A p \in Probe : future[p] = "finished"
                 => future'[p] = "finished" \/ pc' = "closed"
<1> USE DEF PoolInv, TypeOK
<1>1. ASSUME NEW q \in Probe, Submit(q)
      PROVE  record' = record /\ \A p \in Probe : future[p] = "finished"
                                    => future'[p] = "finished"
  BY <1>1 DEF Submit, Eligible, ActiveHasFuture
<1>2. ASSUME NEW w \in Worker, WorkerTake(w)
      PROVE  record' = record /\ \A p \in Probe : future[p] = "finished"
                                    => future'[p] = "finished"
  BY <1>2, HeadTailProperties DEF WorkerTake
<1>3. ASSUME NEW w \in Worker, WorkerFinish(w)
      PROVE  record' = record /\ \A p \in Probe : future[p] = "finished"
                                    => future'[p] = "finished"
  BY <1>3 DEF WorkerFinish
<1>4. ASSUME NEW q \in Probe, CancelFuture(q)
      PROVE  record' = record /\ \A p \in Probe : future[p] = "finished"
                                    => future'[p] = "finished"
  BY <1>4 DEF CancelFuture
<1>5. CASE CloseDone
  BY <1>5 DEF CloseDone
<1>6. CASE UNCHANGED <<future, record>>
  BY <1>6
<1>7. QED
  BY <1>1, <1>2, <1>3, <1>4, <1>5, <1>6
     DEF Next, Tick, Closing, Stopped, vars, poolVars, Elapse, ReadClock,
         BeginTick, SkipFuture, EndReap, EndTick, Close, Shutdown

(* What one reaped future does to the futures and the records.             *)
LEMMA ReapPublishes ==
    ASSUME PoolInv, NEW p \in Probe, ReapFuture(p)
    PROVE  /\ future[p] = "finished" /\ future'[p] = "none"
           /\ record'[p] = Apply(record[p], ReapedOutcome(p), wallEpoch)
           /\ \A q \in Probe \ {p} : /\ record'[q] = record[q]
                                     /\ future'[q] = future[q]
BY DEF ReapFuture, Done, PoolInv, TypeOK, CancelOnlyWhenClosing

(* A finished run is published exactly once, in its own probe's record.    *)
THEOREM ResultsPublishedOnce == Spec => PublishedOnce
<1>1. ASSUME PoolInv, [Next]_vars, NEW p \in Probe
      PROVE  /\ record'[p] # record[p]
                    => future[p] = "finished" /\ future'[p] = "none"
             /\ future[p] = "finished" /\ future'[p] # "finished" /\ pc' # "closed"
                    => record'[p] = Apply(record[p], ReapedOutcome(p), wallEpoch)
  <2>1. CASE \E q \in Probe : ReapFuture(q)
    BY <1>1, <2>1, ReapPublishes
  <2>2. CASE \A q \in Probe : ~ReapFuture(q)
    BY <1>1, <2>2, OnlyReapPublishes
  <2>3. QED
    BY <2>1, <2>2
<1>2. PoolInv /\ [Next]_vars =>
        \A p \in Probe :
          /\ record'[p] # record[p] => future[p] = "finished" /\ future'[p] = "none"
          /\ future[p] = "finished" /\ future'[p] # "finished" /\ pc' # "closed"
                => record'[p] = Apply(record[p], ReapedOutcome(p), wallEpoch)
  BY <1>1
<1>3. QED
  BY <1>2, PoolCorrect, PTL DEF Spec, PublishedOnce

(* A failed or raised run never erases what the last success measured.     *)
LEMMA ApplyRetains ==
    ASSUME NEW rec \in Record, NEW o \in ProbeOutcome, NEW wall \in Epoch
    PROVE  LET r == Apply(rec, o, wall)
           IN  /\ rec.has_good_result => r.has_good_result
               /\ r.values # rec.values => r.source_state = "fresh"
               /\ r.last_success_epoch # rec.last_success_epoch
                     => r.source_state = "fresh"
<1>1. CASE o.success
  BY <1>1 DEF Apply, Record, ProbeOutcome
<1>2. CASE ~o.success /\ rec.has_good_result
  BY <1>2 DEF Apply, Record, ProbeOutcome
<1>3. CASE ~o.success /\ ~rec.has_good_result
  BY <1>3 DEF Apply, Record, ProbeOutcome
<1>4. QED
  BY <1>1, <1>2, <1>3 DEF ProbeOutcome, Record

(* The last good data of a probe is retained until a newer success.        *)
THEOREM LastGoodRetained == Spec => GoodDataRetained
<1>1. ASSUME PoolInv, [Next]_vars, NEW p \in Probe
      PROVE  /\ record[p].has_good_result => record'[p].has_good_result
             /\ record'[p].values # record[p].values
                   => record'[p].source_state = "fresh"
             /\ record'[p].last_success_epoch # record[p].last_success_epoch
                   => record'[p].source_state = "fresh"
  <2>1. CASE ReapFuture(p)
    <3>1. /\ record[p] \in Record /\ ReapedOutcome(p) \in ProbeOutcome
          /\ wallEpoch \in Epoch
      BY <1>1, <2>1, ReapedOutcomeType DEF PoolInv, TypeOK, MainThread, ReapFuture
    <3>2. QED
      BY <1>1, <2>1, <3>1, ReapPublishes, ApplyRetains
  <2>2. CASE \E q \in Probe \ {p} : ReapFuture(q)
    <3>1. record'[p] = record[p]
      BY <1>1, <2>2, ReapPublishes
    <3>2. QED
      BY <3>1
  <2>3. CASE \A q \in Probe : ~ReapFuture(q)
    <3>1. record' = record
      BY <1>1, <2>3, OnlyReapPublishes
    <3>2. QED
      BY <3>1
  <2>4. QED
    BY <2>1, <2>2, <2>3
<1>2. PoolInv /\ [Next]_vars =>
        \A p \in Probe :
          /\ record[p].has_good_result => record'[p].has_good_result
          /\ record'[p].values # record[p].values => record'[p].source_state = "fresh"
          /\ record'[p].last_success_epoch # record[p].last_success_epoch
                => record'[p].source_state = "fresh"
  BY <1>1
<1>3. QED
  BY <1>2, PoolCorrect, PTL DEF Spec, GoodDataRetained

-----------------------------------------------------------------------------
(* The timers of ProbeTiming.                                              *)

LEMMA TimedStepIsStep == [TNext]_tvars => [Next]_vars
  BY DEF TNext, tvars, Next, Tick, TElapse, TReadClock, TSubmit, TReapFuture,
         TWorkerFinish, Untimed

LEMMA TimedIsManager == TSpec => Spec
<1>1. TInit => Init
  BY DEF TInit
<1> QED BY <1>1, TimedStepIsStep, PTL DEF TSpec, Spec

LEMMA TimerInit == TInit => TimerInv
  BY ProbeAssumption, LagAssumption, TimingAssumption DEF TInit, Init, TimerInv

(* Time: what is left of the interval and what has gone move together.     *)
LEMMA ElapseKeepsTimers == TypeOK /\ TimerInv /\ TElapse => TimerInv'
<1> SUFFICES ASSUME TypeOK, TimerInv, TElapse PROVE TimerInv'
  OBVIOUS
<1> USE ProbeAssumption, LagAssumption, TimingAssumption
<1>1. /\ lag' \in 0..MaxLag /\ idleFor' \in 0..MaxGap
      /\ worker' = worker
  BY DEF TypeOK, TimerInv, TElapse, Elapse, poolVars
<1>2. /\ ranFor' \in [Worker -> Nat]
      /\ \A w \in Worker : IF worker[w] = Idle THEN ranFor'[w] = 0
                                               ELSE ranFor'[w] <= MaxRun[worker[w]]
  BY DEF TypeOK, TimerInv, TElapse
<1>3. /\ overdue' \in [Probe -> Nat] /\ sinceGood' \in [Probe -> Nat]
      /\ sinceStart' \in [Probe -> Nat]
  BY DEF TimerInv, TElapse, Capped
<1>4. ASSUME NEW p \in Probe
      PROVE  \/ sinceStart'[p] = Interval[p]
             \/ sinceStart'[p] + untilDue'[p] >= Interval[p] - MaxLag
  <2>1. /\ Interval[p] \in Nat /\ untilDue[p] \in Int /\ sinceStart[p] \in Nat
        /\ MaxLag \in Nat
    BY DEF TypeOK, TimerInv
  <2>2. /\ sinceStart'[p] = IF sinceStart[p] < Interval[p] THEN sinceStart[p] + 1
                                                           ELSE sinceStart[p]
        /\ untilDue'[p] = IF untilDue[p] > -MaxLag THEN untilDue[p] - 1 ELSE untilDue[p]
    BY DEF TElapse, Elapse, Capped
  <2>3. \/ sinceStart[p] = Interval[p]
        \/ sinceStart[p] + untilDue[p] >= Interval[p] - MaxLag
    BY DEF TimerInv
  <2> QED BY <2>1, <2>2, <2>3
<1> QED BY <1>1, <1>2, <1>3, <1>4 DEF TimerInv

LEMMA StepKeepsTimers == TypeOK /\ TimerInv /\ [TNext]_tvars => TimerInv'
<1> SUFFICES ASSUME TypeOK, TimerInv, [TNext]_tvars PROVE TimerInv'
  OBVIOUS
<1> USE ProbeAssumption, LagAssumption, TimingAssumption, TokenAssumption
        DEF TypeOK, TimerInv, timers
<1>1. CASE TElapse
  BY <1>1, ElapseKeepsTimers
<1>2. CASE TReadClock
  BY <1>2 DEF TReadClock, ReadClock, poolVars
<1>3. ASSUME NEW p \in Probe, TSubmit(p) PROVE TimerInv'
  <2>1. /\ lag \in 0..MaxLag /\ Interval[p] \in Nat
        /\ untilDue' = [untilDue EXCEPT ![p] = Interval[p] - lag]
        /\ sinceStart' = [sinceStart EXCEPT ![p] = 0]
        /\ overdue' = [overdue EXCEPT ![p] = 0]
        /\ UNCHANGED <<lag, worker, idleFor, ranFor, sinceGood>>
    BY <1>3 DEF TSubmit, Submit
  <2>2. 0 + (Interval[p] - lag) >= Interval[p] - MaxLag
    BY <2>1
  <2>3. \A q \in Probe : \/ sinceStart'[q] = Interval[q]
                        \/ sinceStart'[q] + untilDue'[q] >= Interval[q] - MaxLag
    BY <2>1, <2>2
  <2> QED BY <2>1, <2>3
<1>4. ASSUME NEW p \in Probe, TReapFuture(p) PROVE TimerInv'
  BY <1>4 DEF TReapFuture, ReapFuture
<1>5. ASSUME NEW w \in Worker, TWorkerFinish(w) PROVE TimerInv'
  <2>1. /\ worker' = [worker EXCEPT ![w] = Idle] /\ ranFor' = [ranFor EXCEPT ![w] = 0]
        /\ UNCHANGED <<lag, untilDue, idleFor, sinceStart, overdue, sinceGood>>
    BY <1>5 DEF TWorkerFinish, WorkerFinish
  <2>2. \A v \in Worker : IF worker'[v] = Idle THEN ranFor'[v] = 0
                                               ELSE ranFor'[v] <= MaxRun[worker'[v]]
    BY <2>1
  <2> QED BY <2>1, <2>2
<1>6. ASSUME UNCHANGED timers, Untimed PROVE TimerInv'
  <2>1. ASSUME NEW w \in Worker, WorkerTake(w) PROVE TimerInv'
    <3>1. PICK p \in Probe : p = Head(queue)
      BY <2>1, HeadTailProperties DEF WorkerTake
    <3>2. /\ worker' = worker \/ worker' = [worker EXCEPT ![w] = p]
          /\ worker[w] = Idle /\ UNCHANGED <<lag, untilDue>>
      BY <2>1, <3>1 DEF WorkerTake
    <3>3. ranFor[w] = 0 /\ MaxRun[p] \in Nat
      BY <3>2
    <3>4. \A v \in Worker : IF worker'[v] = Idle THEN ranFor[v] = 0
                                                 ELSE ranFor[v] <= MaxRun[worker'[v]]
      <4> SUFFICES ASSUME NEW v \in Worker
                   PROVE  IF worker'[v] = Idle THEN ranFor[v] = 0
                                              ELSE ranFor[v] <= MaxRun[worker'[v]]
        OBVIOUS
      <4>1. CASE worker'[v] = worker[v]
        BY <4>1
      <4>2. CASE v = w /\ worker'[v] = p
        BY <3>3, <4>2
      <4> QED BY <3>2, <4>1, <4>2
    <3>5. /\ idleFor' = idleFor /\ ranFor' = ranFor /\ sinceStart' = sinceStart
          /\ overdue' = overdue /\ sinceGood' = sinceGood
          /\ lag' = lag /\ untilDue' = untilDue
      BY <1>6, <3>2
    <3> QED BY <3>4, <3>5
  <2>2. CASE \/ \E wall \in Epoch : BeginTick(wall)
             \/ \E p \in Probe : SkipFuture(p)
             \/ EndReap \/ EndTick
    BY <1>6, <2>2 DEF BeginTick, SkipFuture, EndReap, EndTick, poolVars
  <2>3. CASE Closing \/ Stopped
    BY <1>6, <2>3 DEF Closing, Stopped, Close, CancelFuture, Shutdown, CloseDone,
                      vars, poolVars
  <2> QED BY <1>6, <2>1, <2>2, <2>3 DEF Untimed
<1>7. CASE UNCHANGED tvars
  BY <1>7 DEF tvars, vars
<1> QED BY <1>1, <1>2, <1>3, <1>4, <1>5, <1>6, <1>7 DEF TNext

LEMMA TimersCorrect == TSpec => []TimerInv
<1>1. TSpec => []TypeOK
  BY TimedIsManager, TypeCorrect, PTL
<1> QED BY <1>1, TimerInit, StepKeepsTimers, PTL DEF TSpec

(* Two runs of a probe are its interval apart, less what the collectors    *)
(* blocked the pass that submitted the first one.                          *)
THEOREM RunsAreSpaced == TSpec => SpacingWithLag
<1>1. ASSUME TypeOK, TimerInv, [TNext]_tvars, NEW p \in Probe, Starts(p)
      PROVE  sinceStart[p] >= Interval[p] - MaxLag
  <2>1. Submit(p)
    <3>1. [Next]_vars
      BY <1>1, TimedStepIsStep
    <3>2. \A q \in Probe : Submit(q) => q = p
      BY <1>1 DEF Starts, Submit
    <3>3. \E q \in Probe : Submit(q)
      BY <1>1, <3>1 DEF Starts, Next, Tick, Closing, Stopped, vars, poolVars, Elapse,
                ReadClock, BeginTick, SkipFuture, ReapFuture, EndReap, EndTick, Close,
                CancelFuture, Shutdown, CloseDone, WorkerTake, WorkerFinish
    <3> QED BY <3>2, <3>3
  <2>2. untilDue[p] + lag <= 0
    BY <2>1 DEF Submit, Eligible
  <2>3. /\ lag \in Nat /\ untilDue[p] \in Int /\ sinceStart[p] \in Nat
        /\ Interval[p] \in Nat /\ MaxLag \in Nat
    BY <1>1, ProbeAssumption, LagAssumption DEF TypeOK, TimerInv
  <2>4. \/ sinceStart[p] = Interval[p]
        \/ sinceStart[p] + untilDue[p] >= Interval[p] - MaxLag
    BY <1>1 DEF TimerInv
  <2> QED BY <2>2, <2>3, <2>4
<1>2. TypeOK /\ TimerInv /\ [TNext]_tvars =>
          [\A p \in Probe : Starts(p) => sinceStart[p] >= Interval[p] - MaxLag]_tvars
  BY <1>1
<1>3. TSpec => []TypeOK
  BY TimedIsManager, TypeCorrect, PTL
<1> QED BY <1>2, <1>3, TimersCorrect, PTL DEF TSpec, SpacingWithLag

-----------------------------------------------------------------------------
(* No probe starves.                                                       *)

Open == pc \notin {"cancel", "join", "closed"}

(* The ranges of the timers of a probe.                                    *)
LEMMA AgeTypes ==
    ASSUME TypeOK, TimerInv, NEW p \in Probe
    PROVE  /\ Interval[p] \in Nat /\ untilDue[p] \in Int
           /\ sinceGood[p] \in Nat /\ overdue[p] \in Nat
           /\ MaxRun[p] \in Nat /\ WaitLimit \in Nat
           /\ MaxGap \in Nat /\ MaxLag \in Nat
           /\ lag \in 0..MaxLag /\ idleFor \in 0..MaxGap
           /\ \A w \in Worker : ranFor[w] \in Nat
           /\ Slack(p) \in 0..(MaxGap + MaxLag)
<1>1. /\ lag \in 0..MaxLag /\ idleFor \in 0..MaxGap
      /\ MaxGap \in Nat /\ MaxLag \in Nat
  BY LagAssumption, TimingAssumption DEF TimerInv
<1>2. Slack(p) \in 0..(MaxGap + MaxLag)
  BY <1>1 DEF Slack
<1> QED BY <1>1, <1>2, ProbeAssumption, TimingAssumption DEF TypeOK, TimerInv

(* A queued item has an idle worker, so that no time passes before it runs.*)
LEMMA NoTimeWhilePending ==
    ASSUME PoolInv, NEW p \in Probe, future[p] = "pending", Open,
           queue = <<>> \/ \A w \in Worker : worker[w] # Idle
    PROVE  FALSE
<1>1. Len(queue) \in Nat /\ Len(queue) >= 1 /\ queue # <<>>
  <2>1. Queued(p) /\ queue \in Seq(Probe)
    BY DEF PoolInv, TypeOK, ActiveHasFuture
  <2> QED BY <2>1, EmptySeq, LenProperties DEF Queued
<1>2. {w \in Worker : worker[w] = Idle} = {}
  BY <1>1
<1>3. Cardinality({w \in Worker : worker[w] = Idle}) = 0
  BY <1>2, FS_EmptySet
<1>4. Len(queue) <= Cardinality({w \in Worker : worker[w] = Idle})
  BY QueueFits DEF NoBacklog
<1> QED BY <1>1, <1>3, <1>4

(* The steps of the main thread that touch no probe.                       *)
MainStep == \/ TReadClock
            \/ UNCHANGED timers /\ \/ \E wall \in Epoch : BeginTick(wall)
                                   \/ \E q \in Probe : SkipFuture(q)
                                   \/ EndReap \/ EndTick

(* The steps between passes allow a finished run to have waited longer.    *)
LEMMA MainKeepsSlack ==
    ASSUME PoolInv, TimerInv, TimerInv', MainStep,
           NEW p \in Probe, future[p] = "finished"
    PROVE  Slack(p) <= Slack(p)'
<1>0. TypeOK
  BY DEF PoolInv
<1>1. /\ lag \in 0..MaxLag /\ idleFor \in 0..MaxGap /\ MaxGap \in Nat /\ MaxLag \in Nat
      /\ idleFor' \in 0..MaxGap
  BY <1>0, AgeTypes DEF TimerInv
<1>2. p \in active
  BY DEF PoolInv, ActiveHasFuture
<1>3. CASE TReadClock
  <2>1. pc = "idle" /\ pc' = "collect" /\ lag' = 0
    BY <1>3 DEF TReadClock, ReadClock
  <2>2. Slack(p) = idleFor /\ Slack(p)' = MaxGap + lag'
    BY <2>1 DEF Slack
  <2> QED BY <1>1, <2>1, <2>2
<1>4. CASE \E wall \in Epoch : BeginTick(wall)
  <2>1. pc = "collect" /\ pc' = "reap" /\ p \in toCheck'
    BY <1>2, <1>4 DEF BeginTick
  <2>2. Slack(p) = MaxGap + lag /\ Slack(p)' = MaxGap + MaxLag
    BY <2>1 DEF Slack
  <2> QED BY <1>1, <2>2
<1>5. ASSUME NEW q \in Probe, SkipFuture(q) PROVE Slack(p) <= Slack(p)'
  <2>1. pc = "reap" /\ pc' = "reap" /\ q # p /\ toCheck' = toCheck \ {q}
    BY <1>5 DEF SkipFuture, Done
  <2>2. Slack(p)' = Slack(p)
    BY <2>1 DEF Slack
  <2>3. Slack(p) \in 0..(MaxGap + MaxLag)
    BY <1>0, AgeTypes
  <2> QED BY <1>1, <2>2, <2>3
<1>6. CASE EndReap /\ UNCHANGED timers
  <2>1. pc = "reap" /\ pc' = "submit" /\ p \notin toCheck
    BY <1>6 DEF EndReap
  <2>2. Slack(p) = 0 /\ Slack(p)' = 0
    BY <2>1 DEF Slack
  <2> QED BY <2>2
<1>7. CASE EndTick /\ UNCHANGED timers
  <2>1. pc = "submit" /\ pc' = "idle"
    BY <1>7 DEF EndTick
  <2>2. Slack(p) = 0 /\ Slack(p)' = idleFor'
    BY <2>1 DEF Slack
  <2> QED BY <1>1, <2>2
<1> QED BY <1>3, <1>4, <1>5, <1>6, <1>7 DEF MainStep

(* What the workers' accounts are kept in.                                 *)
LEMMA TurnTypes ==
    ASSUME TypeOK, TimerInv
    PROVE  /\ MaxGap \in Nat /\ MaxLag \in Nat /\ LongestRun \in Nat
           /\ WaitLimit \in Nat
           /\ Turn \in Nat /\ Lead \in Nat /\ Notice \in Nat
           /\ MaxWorkers \in 1..2 /\ Cardinality(Probe) \in Nat
           /\ lag \in 0..MaxLag /\ idleFor \in 0..MaxGap
           /\ \A p \in Probe :
                /\ MaxRun[p] \in Nat /\ MaxRun[p] <= LongestRun
                /\ Interval[p] \in Nat /\ untilDue[p] \in Int
                /\ sinceStart[p] \in Nat /\ overdue[p] \in Nat
                /\ Slack(p) \in 0..(MaxGap + MaxLag)
                /\ \A w \in Worker : ranFor[w] \in Nat
<1>1. /\ MaxGap \in Nat /\ MaxLag \in Nat /\ LongestRun \in Nat /\ WaitLimit \in Nat
      /\ MaxWorkers \in 1..2 /\ Cardinality(Probe) \in Nat
  BY LagAssumption, TimingAssumption, ProbeAssumption, WorkerAssumption, FS_CardinalityType
<1>2. Turn \in Nat /\ Lead \in Nat /\ Notice \in Nat
  BY <1>1 DEF Turn, Lead, Notice
<1>3. ASSUME NEW p \in Probe
      PROVE  /\ MaxRun[p] \in Nat /\ MaxRun[p] <= LongestRun
             /\ Interval[p] \in Nat /\ untilDue[p] \in Int
             /\ sinceStart[p] \in Nat /\ overdue[p] \in Nat
             /\ Slack(p) \in 0..(MaxGap + MaxLag)
             /\ \A w \in Worker : ranFor[w] \in Nat
  BY AgeTypes, TimingAssumption DEF TimerInv
<1>4. lag \in 0..MaxLag /\ idleFor \in 0..MaxGap
  BY DEF TimerInv
<1> HIDE DEF Turn, Lead, Notice, Slack
<1> QED BY <1>1, <1>2, <1>3, <1>4

(* A run is in progress for at most a turn.                                *)
LEMMA WithinTurn ==
    ASSUME PoolInv, TimerInv, Open, NEW q \in active, TurnFor(q)
    PROVE  sinceStart[q] <= Turn
<1>0. TypeOK /\ q \in Probe
  BY DEF PoolInv, TypeOK
<1>1. /\ MaxGap \in Nat /\ MaxLag \in Nat /\ LongestRun \in Nat
      /\ MaxRun[q] \in Nat /\ MaxRun[q] <= LongestRun /\ sinceStart[q] \in Nat
      /\ Slack(q) \in 0..(MaxGap + MaxLag)
      /\ \A w \in Worker : ranFor[w] \in Nat
  BY <1>0, TurnTypes
<1>2. future[q] \in {"pending", "running", "finished"}
  BY <1>0 DEF PoolInv, TypeOK, FutureState, ActiveHasFuture, CancelOnlyWhenClosing, Open
<1>3. CASE future[q] = "pending"
  BY <1>1, <1>3 DEF TurnFor, Turn
<1>4. CASE future[q] = "running"
  <2>1. PICK w \in Worker : worker[w] = q
    BY <1>0, <1>4 DEF PoolInv, ActiveHasFuture, Running
  <2>2. sinceStart[q] <= ranFor[w] /\ ranFor[w] <= MaxRun[q]
    BY <1>0, <2>1, TokenAssumption DEF TurnFor, TimerInv
  <2> QED BY <1>1, <2>2 DEF Turn
<1>5. CASE future[q] = "finished"
  <2>1. sinceStart[q] <= MaxRun[q] + Slack(q)
    BY <1>5 DEF TurnFor
  <2> QED BY <1>1, <2>1 DEF Turn
<1> QED BY <1>2, <1>3, <1>4, <1>5

(* No more than all the others can have had a turn.                        *)
LEMMA ServedBounds ==
    ASSUME NEW p \in Probe
    PROVE  /\ IsFiniteSet(Served(p))
           /\ Cardinality(Served(p)) \in Nat
           /\ Cardinality(Served(p)) <= Cardinality(Probe) - 1
<1>1. /\ IsFiniteSet(Probe \ {p})
      /\ Cardinality(Probe \ {p}) = Cardinality(Probe) - 1
  BY ProbeAssumption, FS_RemoveElement
<1>2. Served(p) \subseteq Probe \ {p}
  BY DEF Served
<1> QED BY <1>1, <1>2, FS_Subset, FS_CardinalityType

(* A product with the number of a set's elements.                          *)
LEMMA TimesMonotone ==
    ASSUME NEW t \in Nat, NEW m \in Nat, NEW n \in Nat, m <= n
    PROVE  /\ t * m \in Nat /\ t * n \in Nat /\ t * m <= t * n
           /\ t * (n + 1) = t * n + t
<1>1. t * (n - m) \in Nat
  OBVIOUS
<1>2. t * (n - m) = t * n - t * m
  OBVIOUS
<1>3. t * m \in Nat /\ t * n \in Nat
  OBVIOUS
<1> QED BY <1>1, <1>2, <1>3

(* A pool of one or two workers.                                           *)
LEMMA FullPool ==
    ASSUME TypeOK, PoolFull
    PROVE  \E a, b \in active : /\ active = {a, b}
                                /\ MaxWorkers = IF a = b THEN 1 ELSE 2
<1>1. /\ IsFiniteSet(active) /\ Cardinality(active) \in 1..2
  BY ProbeAssumption, WorkerAssumption, FS_Subset DEF TypeOK, PoolFull
<1>2. PICK a \in active : TRUE
  BY <1>1, FS_EmptySet
<1>3. /\ IsFiniteSet(active \ {a})
      /\ Cardinality(active \ {a}) = Cardinality(active) - 1
  BY <1>1, FS_RemoveElement
<1>4. CASE active \ {a} = {}
  <2>1. active = {a, a}
    BY <1>2, <1>4
  <2>2. Cardinality(active) = 1
    BY <1>1, <1>3, <1>4, FS_EmptySet
  <2> QED BY <1>2, <2>1, <2>2 DEF PoolFull
<1>5. CASE active \ {a} # {}
  <2>1. PICK b \in active \ {a} : TRUE
    BY <1>5
  <2>2. /\ IsFiniteSet((active \ {a}) \ {b})
        /\ Cardinality((active \ {a}) \ {b}) = Cardinality(active) - 2
    <3>1. /\ IsFiniteSet((active \ {a}) \ {b})
          /\ Cardinality((active \ {a}) \ {b}) = Cardinality(active \ {a}) - 1
      BY <1>3, <2>1, FS_RemoveElement
    <3> QED BY <1>1, <1>3, <3>1
  <2>3. Cardinality((active \ {a}) \ {b}) \in Nat
    BY <2>2, FS_CardinalityType
  <2>4. Cardinality(active) = 2 /\ (active \ {a}) \ {b} = {}
    BY <1>1, <2>2, <2>3, FS_EmptySet
  <2>5. active = {a, b}
    BY <1>2, <2>1, <2>4
  <2> QED BY <1>2, <2>1, <2>4, <2>5 DEF PoolFull
<1> QED BY <1>4, <1>5

(* Until a probe has waited for longer than it takes to be noticed there is*)
(* nothing to account for.                                                 *)
LEMMA NothingSpent ==
    ASSUME PoolInv, TimerInv, Open, \A q \in Probe : TurnFor(q),
           NEW p \in Probe, p \notin active, overdue[p] <= Notice
    PROVE  Spent(p)
<1>0. TypeOK /\ active \subseteq Probe
  BY DEF PoolInv, TypeOK
<1>1. /\ Turn \in Nat /\ Notice \in Nat /\ MaxWorkers \in 1..2
      /\ \A q \in Probe : sinceStart[q] \in Nat /\ overdue[q] \in Nat
  BY <1>0, TurnTypes
<1>2. MaxWorkers * (overdue[p] - Notice) \in Int /\ MaxWorkers * (overdue[p] - Notice) <= 0
  <2>1. MaxWorkers = 1 \/ MaxWorkers = 2
    BY <1>1
  <2> HIDE DEF MaxWorkers
  <2> QED BY <1>1, <2>1
<1>3. \A q \in active : q \in Served(p) /\ sinceStart[q] <= Turn
  <2>1. \A q \in active : sinceStart[q] <= Turn
    BY <1>0, WithinTurn
  <2> QED BY <1>0, <1>1, <2>1 DEF Served
<1>4. ASSUME NEW x \in Probe, NEW y \in Probe
      PROVE  Left(x) + (IF x = y THEN 0 ELSE Left(y)) <= Turn * Cardinality(Served(p))
  <2> DEFINE in == {x, y} \cap active
  <2>1. IsFiniteSet(Served(p)) /\ Cardinality(Served(p)) \in Nat /\ in \subseteq Served(p)
    BY <1>3, ServedBounds
  <2>2. Cardinality(in) \in Nat /\ Cardinality(in) <= Cardinality(Served(p))
    BY <2>1, FS_Subset, FS_CardinalityType
  <2>3. Turn * Cardinality(in) <= Turn * Cardinality(Served(p))
    BY <1>1, <2>1, <2>2, TimesMonotone
  <2>4. Left(x) \in 0..Turn /\ Left(y) \in 0..Turn
    BY <1>0, <1>1, <1>3 DEF Left
  <2>5. CASE in = {}
    <3>1. Left(x) = 0 /\ Left(y) = 0
      BY <2>5 DEF Left
    <3>2. Cardinality(in) = 0
      BY <2>5, FS_EmptySet
    <3>3. Turn * Cardinality(in) = 0
      BY <1>1, <3>2
    <3> HIDE DEF in
    <3> QED BY <1>1, <2>1, <2>3, <3>1, <3>3
  <2>6. CASE x # y /\ in = {x, y}
    <3>1. Cardinality(in) = 2
      <4>1. IsFiniteSet({y}) /\ Cardinality({y}) = 1
        BY FS_Singleton
      <4>2. x \notin {y} /\ in = {y} \cup {x}
        BY <2>6
      <4>3. Cardinality({y} \cup {x}) = Cardinality({y}) + 1
        BY <4>1, <4>2, FS_AddElement
      <4> QED BY <4>1, <4>2, <4>3
    <3>2. Turn * Cardinality(in) = Turn + Turn
      BY <1>1, <3>1
    <3> HIDE DEF in
    <3> QED BY <1>1, <2>1, <2>3, <2>4, <2>6, <3>2
  <2>7. CASE in # {} /\ (x = y \/ in # {x, y})
    <3>1. PICK z \in {x, y} : in = {z}
      BY <2>7
    <3>2. Cardinality(in) = 1
      BY <3>1, FS_Singleton
    <3>3. Turn * Cardinality(in) = Turn
      BY <1>1, <3>2
    <3>4. x = y \/ Left(x) = 0 \/ Left(y) = 0
      BY <3>1 DEF Left
    <3> HIDE DEF in
    <3> QED BY <1>1, <2>1, <2>3, <2>4, <3>3, <3>4
  <2> QED BY <2>5, <2>6, <2>7
<1>5. Cardinality(Served(p)) \in Nat /\ Turn * Cardinality(Served(p)) \in Nat
  BY <1>1, ServedBounds
<1> DEFINE a == MaxWorkers * (overdue[p] - Notice)
           b == Turn * Cardinality(Served(p))
<1>6. ASSUME NEW x \in Probe, NEW y \in Probe
      PROVE  a + Left(x) + (IF x = y THEN 0 ELSE Left(y)) <= b
  <2>1. Left(x) \in Int /\ Left(y) \in Int
    BY <1>0, <1>1 DEF Left
  <2>2. a \in Int /\ a <= 0 /\ b \in Nat
        /\ Left(x) + (IF x = y THEN 0 ELSE Left(y)) <= b
    BY <1>2, <1>4, <1>5
  <2> HIDE DEF a, b
  <2> QED BY <2>1, <2>2
<1> QED BY <1>6 DEF Spent

(* The accounts bound the wait when the workers are enough.                *)
LEMMA SpentBoundsWait ==
    ASSUME Roomy, PoolInv, TimerInv, Open, \A q \in Probe : TurnFor(q),
           NEW p \in Probe, Spent(p)
    PROVE  overdue[p] <= WaitLimit
<1>0. TypeOK /\ active \subseteq Probe
  BY DEF PoolInv, TypeOK
<1>1. /\ Turn \in Nat /\ Notice \in Nat /\ WaitLimit \in Nat
      /\ MaxWorkers \in 1..2 /\ Cardinality(Probe) \in Nat
      /\ overdue[p] \in Nat /\ sinceStart[p] \in Nat
  BY <1>0, TurnTypes
<1> DEFINE served == Cardinality(Served(p))
           others == Cardinality(Probe) - 1
<1>2. served \in Nat /\ others \in Nat /\ served <= others
  BY <1>1, ServedBounds
<1>3. Turn * served \in Nat /\ Turn * others \in Nat /\ Turn * served <= Turn * others
  BY <1>1, <1>2, TimesMonotone
<1>4. Left(p) \in Nat
  BY <1>0, <1>1, WithinTurn DEF Left
<1>5. MaxWorkers * (overdue[p] - Notice) + Left(p) <= Turn * served
  <2>1. MaxWorkers * (overdue[p] - Notice) + Left(p) + 0 <= Turn * served
    BY DEF Spent
  <2> QED BY <1>1, <1>4, <2>1
<1>6. Turn * others <= MaxWorkers * (WaitLimit - Notice)
  BY DEF Roomy
<1> HIDE DEF served, others
<1>7. MaxWorkers = 1 \/ MaxWorkers = 2
  BY <1>1
<1> QED BY <1>1, <1>3, <1>4, <1>5, <1>6, <1>7

(* The three facts above, of the next state as well as of this one.        *)
Accounts == PoolInv /\ TimerInv /\ Open /\ \A q \in Probe : TurnFor(q)

Accounted ==
    /\ \A q \in active : sinceStart[q] <= Turn
    /\ \A p \in Probe : p \notin active /\ overdue[p] <= Notice => Spent(p)
    /\ Roomy => \A p \in Probe : Spent(p) => overdue[p] <= WaitLimit

(* What the three lemmas above say of a state that is not closing.         *)
LEMMA AccountsBalance == Accounts => Accounted
<1> SUFFICES ASSUME Accounts PROVE Accounted
  OBVIOUS
<1>1. \A q \in active : q \in Probe
  BY DEF Accounts, PoolInv, TypeOK
<1>2. \A q \in active : sinceStart[q] <= Turn
  BY <1>1, WithinTurn DEF Accounts
<1>3. \A p \in Probe : p \notin active /\ overdue[p] <= Notice => Spent(p)
  BY NothingSpent DEF Accounts
<1>4. Roomy => \A p \in Probe : Spent(p) => overdue[p] <= WaitLimit
  BY SpentBoundsWait DEF Accounts
<1> QED BY <1>2, <1>3, <1>4 DEF Accounted

LEMMA AccountsBalanceNext == Accounts' => Accounted'
  BY AccountsBalance, PTL

(* A step that leaves a run and its timers alone may only lengthen what    *)
(* is allowed for its finished future.                                     *)
LEMMA TurnUntouched ==
    ASSUME TypeOK, TimerInv, TypeOK', TimerInv', NEW q \in Probe, TurnFor(q),
           sinceStart'[q] = sinceStart[q], future'[q] = future[q],
           ranFor' = ranFor, worker' = worker,
           future[q] = "finished" => Slack(q) <= Slack(q)'
    PROVE  TurnFor(q)'
<1> DEFINE before == Slack(q)
           after == Slack(q)'
<1>1. before \in Nat /\ after \in Nat /\ MaxRun[q] \in Nat /\ sinceStart[q] \in Nat
  <2>1. before \in 0..(MaxGap + MaxLag) /\ MaxGap \in Nat /\ MaxLag \in Nat
        /\ MaxRun[q] \in Nat /\ sinceStart[q] \in Nat
    BY TurnTypes
  <2>2. after \in 0..(MaxGap + MaxLag)
    <3>1. lag' \in 0..MaxLag /\ idleFor' \in 0..MaxGap
      BY DEF TimerInv
    <3> QED BY <2>1, <3>1 DEF Slack
  <2> QED BY <2>1, <2>2
<1>2. future[q] = "finished" => sinceStart[q] <= MaxRun[q] + before
  BY DEF TurnFor
<1>3. future[q] = "finished" => before <= after
  OBVIOUS
<1>4. future'[q] = "finished" => sinceStart'[q] <= MaxRun[q] + after
  <2> HIDE DEF before, after
  <2> QED BY <1>1, <1>2, <1>3
<1>5. /\ future'[q] = "pending" => sinceStart'[q] = 0
      /\ \A w \in Worker : worker'[w] = q => sinceStart'[q] <= ranFor'[w]
  BY DEF TurnFor
<1> QED BY <1>4, <1>5 DEF TurnFor

(* No time passes while a run is pending, and the clocks of the others go  *)
(* with it.                                                                *)
LEMMA ElapseKeepsTurn ==
    ASSUME PoolInv, TimerInv, NEW q \in Probe, TurnFor(q), Open, TElapse
    PROVE  TurnFor(q)'
<1>0. TypeOK
  BY DEF PoolInv
<1>1. /\ Interval[q] \in Nat /\ sinceStart[q] \in Nat /\ MaxRun[q] \in Nat
      /\ MaxGap \in Nat /\ MaxLag \in Nat /\ lag \in Nat /\ idleFor \in Nat
      /\ \A w \in Worker : ranFor[w] \in Nat
  BY <1>0, TurnTypes
<1>2. /\ UNCHANGED <<active, future, worker, pc, toCheck>>
      /\ pc = "idle" \/ (pc = "collect" /\ lag' = lag + 1)
      /\ pc = "idle" => idleFor' = idleFor + 1
      /\ sinceStart'[q] \in Nat /\ sinceStart'[q] <= sinceStart[q] + 1
      /\ \A w \in Worker : worker[w] = q => ranFor'[w] = ranFor[w] + 1
  BY <1>0, <1>1, TokenAssumption DEF TElapse, Elapse, poolVars, Open, Capped, TypeOK
<1>3. future'[q] # "pending"
  BY <1>2, NoTimeWhilePending DEF TElapse
<1>4. ASSUME NEW w \in Worker, worker'[w] = q PROVE sinceStart'[q] <= ranFor'[w]
  <2>1. ranFor'[w] = ranFor[w] + 1 /\ ranFor[w] \in Nat /\ sinceStart[q] <= ranFor[w]
    BY <1>1, <1>2, <1>4 DEF TurnFor
  <2> QED BY <1>1, <1>2, <2>1
<1>5. ASSUME future'[q] = "finished" PROVE sinceStart'[q] <= MaxRun[q] + Slack(q)'
  <2>1. Slack(q)' = Slack(q) + 1 /\ Slack(q) \in Nat
    BY <1>1, <1>2 DEF Slack
  <2>2. sinceStart[q] <= MaxRun[q] + Slack(q)
    BY <1>2, <1>5 DEF TurnFor
  <2> QED BY <1>1, <1>2, <2>1, <2>2
<1> QED BY <1>3, <1>4, <1>5 DEF TurnFor

(* A run begins with a turn of its own, whole.                             *)
LEMMA SubmitKeepsTurn ==
    ASSUME PoolInv, TimerInv, PoolInv', TimerInv', NEW q \in Probe, TurnFor(q),
           NEW r \in Probe, TSubmit(r)
    PROVE  TurnFor(q)'
<1>0. TypeOK /\ TypeOK'
  BY DEF PoolInv
<1>1. /\ UNCHANGED <<worker, pc, toCheck, lag, idleFor, ranFor>>
      /\ future' = [future EXCEPT ![r] = "pending"]
      /\ sinceStart' = [sinceStart EXCEPT ![r] = 0]
      /\ r \notin active
  BY DEF TSubmit, Submit, Eligible
<1>2. CASE q # r
  <2>1. Slack(q)' = Slack(q)
    BY <1>1 DEF Slack
  <2>2. Slack(q) <= Slack(q)'
    <3>1. Slack(q) \in 0..(MaxGap + MaxLag) /\ MaxGap \in Nat /\ MaxLag \in Nat
      BY <1>0, TurnTypes
    <3> QED BY <2>1, <3>1
  <2>3. sinceStart'[q] = sinceStart[q] /\ future'[q] = future[q]
    BY <1>0, <1>1, <1>2 DEF TypeOK, TimerInv
  <2> QED BY <1>0, <1>1, <2>2, <2>3, TurnUntouched
<1>3. CASE q = r
  <2>1. future'[q] = "pending" /\ sinceStart'[q] = 0
    BY <1>0, <1>1, <1>3 DEF TypeOK, TimerInv
  <2>2. \A w \in Worker : worker'[w] # q
    BY <1>0, <1>1, <1>3 DEF PoolInv, ActiveHasFuture, Running
  <2> QED BY <2>1, <2>2 DEF TurnFor
<1> QED BY <1>2, <1>3

(* A reaped probe has no turn; the others keep theirs.                     *)
LEMMA ReapKeepsTurn ==
    ASSUME PoolInv, TimerInv, PoolInv', TimerInv', NEW q \in Probe, TurnFor(q),
           NEW r \in Probe, TReapFuture(r)
    PROVE  TurnFor(q)'
<1>0. TypeOK /\ TypeOK'
  BY DEF PoolInv
<1>1. /\ UNCHANGED <<worker, pc, lag, idleFor, ranFor, sinceStart>>
      /\ toCheck' = toCheck \ {r}
      /\ future' = [future EXCEPT ![r] = "none"] /\ Done(r)
  BY DEF TReapFuture, ReapFuture
<1>2. CASE q # r
  <2>1. Slack(q)' = Slack(q)
    BY <1>1, <1>2 DEF Slack
  <2>2. Slack(q) <= Slack(q)'
    <3>1. Slack(q) \in 0..(MaxGap + MaxLag) /\ MaxGap \in Nat /\ MaxLag \in Nat
      BY <1>0, TurnTypes
    <3> QED BY <2>1, <3>1
  <2>3. sinceStart'[q] = sinceStart[q] /\ future'[q] = future[q]
    BY <1>0, <1>1, <1>2 DEF TypeOK, TimerInv
  <2> QED BY <1>0, <1>1, <2>2, <2>3, TurnUntouched
<1>3. CASE q = r
  <2>1. future'[q] = "none"
    BY <1>0, <1>1, <1>3 DEF TypeOK
  <2>2. \A w \in Worker : worker'[w] # q
    BY <1>1, <1>3 DEF PoolInv, ActiveHasFuture, Running, Done
  <2> QED BY <2>1, <2>2 DEF TurnFor
<1> QED BY <1>2, <1>3

(* A worker takes a run as soon as it is queued: no time has gone by.      *)
LEMMA TakeKeepsTurn ==
    ASSUME PoolInv, TimerInv, PoolInv', TimerInv', NEW q \in Probe, TurnFor(q),
           NEW w \in Worker, WorkerTake(w), UNCHANGED timers
    PROVE  TurnFor(q)'
<1>0. TypeOK /\ TypeOK'
  BY DEF PoolInv
<1>1. /\ UNCHANGED <<pc, toCheck, lag, idleFor, ranFor, sinceStart>>
      /\ worker[w] = Idle
      /\ \/ /\ future[Head(queue)] = "pending"
            /\ future' = [future EXCEPT ![Head(queue)] = "running"]
            /\ worker' = [worker EXCEPT ![w] = Head(queue)]
         \/ UNCHANGED <<future, worker>>
  BY DEF WorkerTake, timers
<1>2. PICK h \in Probe : h = Head(queue)
  BY <1>0, HeadTailProperties DEF WorkerTake, TypeOK
<1>3. /\ future'[q] \in {future[q], "running"}
      /\ \A v \in Worker : worker'[v] = q
            => worker[v] = q \/ (v = w /\ future[q] = "pending")
  BY <1>0, <1>1, <1>2 DEF TypeOK
<1>4. ranFor[w] = 0
  BY <1>1 DEF TimerInv
<1>5. Slack(q)' = Slack(q)
  BY <1>1 DEF Slack
<1>6. /\ future'[q] = "pending" => sinceStart'[q] = 0
      /\ future'[q] = "finished" => sinceStart'[q] <= MaxRun[q] + Slack(q)'
  BY <1>1, <1>3, <1>5 DEF TurnFor
<1>7. \A v \in Worker : worker'[v] = q => sinceStart'[q] <= ranFor'[v]
  BY <1>1, <1>3, <1>4 DEF TurnFor
<1> QED BY <1>6, <1>7 DEF TurnFor

(* A run ends within MaxRun, and then waits for the next pass.             *)
LEMMA FinishKeepsTurn ==
    ASSUME PoolInv, TimerInv, PoolInv', TimerInv', NEW q \in Probe, TurnFor(q),
           NEW w \in Worker, TWorkerFinish(w)
    PROVE  TurnFor(q)'
<1>0. TypeOK /\ TypeOK'
  BY DEF PoolInv
<1>1. /\ UNCHANGED <<pc, toCheck, lag, idleFor, sinceStart>>
      /\ worker[w] # Idle /\ worker' = [worker EXCEPT ![w] = Idle]
      /\ future' = [future EXCEPT ![worker[w]] = "finished"]
      /\ ranFor' = [ranFor EXCEPT ![w] = 0]
  BY DEF TWorkerFinish, WorkerFinish
<1>2. /\ future'[q] = IF q = worker[w] THEN "finished" ELSE future[q]
      /\ \A v \in Worker : worker'[v] = q => worker[v] = q /\ ranFor'[v] = ranFor[v]
  BY <1>0, <1>1, TokenAssumption DEF TypeOK, TimerInv
<1>3. Slack(q)' = Slack(q)
  BY <1>1 DEF Slack
<1>4. ASSUME q = worker[w] PROVE sinceStart[q] <= MaxRun[q] + Slack(q)
  <2>1. sinceStart[q] <= ranFor[w] /\ ranFor[w] <= MaxRun[q]
    BY <1>1, <1>4 DEF TurnFor, TimerInv
  <2>2. /\ sinceStart[q] \in Nat /\ ranFor[w] \in Nat /\ MaxRun[q] \in Nat
        /\ Slack(q) \in 0..(MaxGap + MaxLag) /\ MaxGap \in Nat /\ MaxLag \in Nat
    BY <1>0, TurnTypes
  <2> QED BY <2>1, <2>2
<1>5. future'[q] = "finished" => sinceStart'[q] <= MaxRun[q] + Slack(q)'
  BY <1>1, <1>2, <1>3, <1>4 DEF TurnFor
<1>6. /\ future'[q] = "pending" => sinceStart'[q] = 0
      /\ \A v \in Worker : worker'[v] = q => sinceStart'[q] <= ranFor'[v]
  BY <1>1, <1>2 DEF TurnFor
<1> QED BY <1>5, <1>6 DEF TurnFor

LEMMA MainKeepsTurn ==
    ASSUME PoolInv, TimerInv, PoolInv', TimerInv', NEW q \in Probe, TurnFor(q),
           MainStep
    PROVE  TurnFor(q)'
<1>1. UNCHANGED <<future, worker, ranFor, sinceStart>>
  BY DEF MainStep, TReadClock, ReadClock, timers, BeginTick, SkipFuture, EndReap,
         EndTick, poolVars
<1>2. TypeOK /\ TypeOK'
  BY DEF PoolInv
<1> QED BY <1>1, <1>2, MainKeepsSlack, TurnUntouched

LEMMA StepKeepsTurns ==
    ASSUME PoolInv, TimerInv, PoolInv', TimerInv', [TNext]_tvars, Open', Open,
           \A q \in Probe : TurnFor(q), NEW q \in Probe
    PROVE  TurnFor(q)'
<1>1. CASE TElapse
  BY <1>1, ElapseKeepsTurn
<1>2. CASE MainStep
  BY <1>2, MainKeepsTurn
<1>3. ASSUME NEW r \in Probe, TSubmit(r) PROVE TurnFor(q)'
  BY <1>3, SubmitKeepsTurn
<1>4. ASSUME NEW r \in Probe, TReapFuture(r) PROVE TurnFor(q)'
  BY <1>4, ReapKeepsTurn
<1>5. ASSUME NEW w \in Worker, TWorkerFinish(w) PROVE TurnFor(q)'
  BY <1>5, FinishKeepsTurn
<1>6. ASSUME UNCHANGED timers, NEW w \in Worker, WorkerTake(w) PROVE TurnFor(q)'
  BY <1>6, TakeKeepsTurn
<1>7. CASE Closing
  BY <1>7 DEF Closing, Close, CancelFuture, Shutdown, CloseDone, Open
<1>8. CASE UNCHANGED tvars \/ (Stopped /\ UNCHANGED timers)
  <2>1. UNCHANGED <<vars, timers>>
    BY <1>8 DEF tvars, Stopped
  <2>2. TurnFor(q)' <=> TurnFor(q)
    BY <2>1 DEF vars, timers, TurnFor, Slack
  <2> QED BY <2>2
<1> QED
  BY <1>1, <1>2, <1>3, <1>4, <1>5, <1>6, <1>7, <1>8 DEF TNext, Untimed, MainStep

(* The account of p changes with the turns and with its wait only.         *)
LEMMA SpentUntouched ==
    ASSUME NEW p \in Probe, active' = active, sinceStart' = sinceStart,
           overdue'[p] = overdue[p], Spent(p)
    PROVE  Spent(p)'
  BY DEF Spent, Left, Served

(* The pass that a waiting probe has missed began before it was due; in    *)
(* any other one it is eligible, and only a full pool keeps it waiting.    *)
LEMMA MainKeepsWait ==
    ASSUME PoolInv, TimerInv, PoolInv', TimerInv', NEW p \in Probe, WaitFor(p),
           MainStep
    PROVE  WaitFor(p)'
<1>0. TypeOK
  BY DEF PoolInv
<1>1. UNCHANGED <<active, untilDue, sinceStart, overdue>>
  BY DEF MainStep, TReadClock, ReadClock, timers, BeginTick, SkipFuture, EndReap,
         EndTick, poolVars
<1>2. /\ MaxGap \in Nat /\ MaxLag \in Nat /\ lag \in 0..MaxLag
      /\ idleFor \in 0..MaxGap /\ Lead \in Nat /\ MaxWorkers \in 1..2
      /\ untilDue[p] \in Int /\ overdue[p] \in Nat
  BY <1>0, TurnTypes
<1>3. PoolFull' <=> PoolFull
  BY <1>1 DEF PoolFull
<1>4. /\ overdue'[p] <= WaitLimit
      /\ p \in active' \/ untilDue'[p] > 0 => overdue'[p] = 0
  BY <1>1 DEF WaitFor
<1>5. ASSUME p \notin active, untilDue[p] <= 0
      PROVE  /\ untilDue'[p] > -MaxLag => overdue'[p] <= -untilDue'[p]
             /\ Spent(p)'
  <2>1. Spent(p) /\ (untilDue[p] > -MaxLag => overdue[p] <= -untilDue[p])
    BY <1>5 DEF WaitFor
  <2> QED BY <1>1, <2>1, SpentUntouched
<1>6. ASSUME p \notin active, untilDue[p] <= 0, pc' = "idle"
      PROVE  overdue'[p] <= Lead + idleFor' \/ PoolFull'
  <2>1. EndTick /\ idleFor' = idleFor
    BY <1>6 DEF MainStep, TReadClock, ReadClock, BeginTick, SkipFuture, EndReap,
                EndTick, timers
  <2>2. CASE p \in Eligible
    <3>1. ~HasCapacity /\ Cardinality(active) <= MaxWorkers
      BY <2>1, <2>2 DEF EndTick, PoolInv, PoolBound
    <3>2. Cardinality(active) \in Nat
      BY <1>0, ProbeAssumption, FS_Subset, FS_CardinalityType DEF TypeOK
    <3>3. Cardinality(active) = MaxWorkers
      <4> HIDE DEF MaxWorkers
      <4> QED BY <1>2, <3>1, <3>2 DEF HasCapacity
    <3> QED BY <1>3, <3>3 DEF PoolFull
  <2>3. CASE p \notin Eligible
    <3>1. untilDue[p] + lag > 0
      BY <1>2, <1>6, <2>3 DEF Eligible
    <3>2. overdue[p] <= -untilDue[p]
      BY <1>2, <1>6, <3>1 DEF WaitFor
    <3>3. overdue[p] <= Lead
      BY <1>2, <1>6, <3>1, <3>2 DEF Lead
    <3> QED BY <1>1, <1>2, <2>1, <3>3
  <2> QED BY <2>2, <2>3
<1>7. ASSUME p \notin active, untilDue[p] <= 0, pc' = "collect"
      PROVE  overdue'[p] <= Lead + MaxGap + lag' \/ PoolFull'
  <2>1. pc = "idle" /\ lag' = 0
    BY <1>7 DEF MainStep, TReadClock, ReadClock, BeginTick, SkipFuture, EndReap, EndTick
  <2>2. overdue[p] <= Lead + idleFor \/ PoolFull
    BY <1>7, <2>1 DEF WaitFor
  <2> QED BY <1>1, <1>2, <1>3, <2>1, <2>2
<1> QED BY <1>1, <1>4, <1>5, <1>6, <1>7 DEF WaitFor

(* A probe has its turn only once while another one waits.                 *)
LEMMA SubmitKeepsWait ==
    ASSUME Roomy, PoolInv, TimerInv, PoolInv', TimerInv', NEW p \in Probe,
           WaitFor(p), NEW q \in Probe, TSubmit(q)
    PROVE  WaitFor(p)'
<1>0. TypeOK
  BY DEF PoolInv
<1>1. /\ pc = "submit" /\ pc' = "submit" /\ lag' = lag /\ idleFor' = idleFor
      /\ active' = active \cup {q} /\ q \notin active /\ untilDue[q] + lag <= 0
      /\ untilDue' = [untilDue EXCEPT ![q] = Interval[q] - lag]
      /\ sinceStart' = [sinceStart EXCEPT ![q] = 0]
      /\ overdue' = [overdue EXCEPT ![q] = 0]
  BY DEF TSubmit, Submit, Eligible
<1>2. /\ MaxLag \in Nat /\ lag \in 0..MaxLag /\ WaitLimit \in Nat /\ Turn \in Nat
      /\ Notice \in Nat /\ MaxWorkers \in 1..2
      /\ \A r \in Probe : /\ Interval[r] \in Nat /\ untilDue[r] \in Int
                          /\ sinceStart[r] \in Nat /\ overdue[r] \in Nat
  BY <1>0, TurnTypes
<1>3. CASE p = q
  <2>1. p \in active' /\ overdue'[p] = 0
    BY <1>0, <1>1, <1>3 DEF TimerInv
  <2> QED BY <1>2, <2>1 DEF WaitFor
<1>4. CASE p # q
  <2>1. untilDue'[p] = untilDue[p] /\ overdue'[p] = overdue[p]
        /\ (p \in active' <=> p \in active)
    BY <1>0, <1>1, <1>4 DEF TypeOK, TimerInv
  <2>2. ASSUME p \notin active, untilDue[p] <= 0 PROVE Spent(p)'
    <3>1. Spent(p) /\ overdue[p] <= WaitLimit
      BY <2>2 DEF WaitFor
    <3>2. q \notin Served(p)
      <4>1. sinceStart[q] >= Interval[q] - MaxLag
        BY <1>1, <1>2 DEF TimerInv
      <4>2. Interval[q] > WaitLimit + Turn + MaxLag
        BY DEF Roomy
      <4> QED BY <1>2, <3>1, <4>1, <4>2 DEF Served
    <3>3. Served(p)' = Served(p) \cup {q}
      BY <1>0, <1>1, <1>2, <1>4, <2>1 DEF Served, TimerInv
    <3> DEFINE n == Cardinality(Served(p))
               m == Cardinality(Served(p)')
               before == MaxWorkers * (overdue[p] - Notice)
    <3>4. n \in Nat /\ m = n + 1
      BY <3>2, <3>3, ServedBounds, FS_AddElement
    <3>5. Turn * n \in Nat /\ Turn * m = Turn * n + Turn
      <4> HIDE DEF n, m
      <4> QED BY <1>2, <3>4, TimesMonotone
    <3>6. before \in Int
      BY <1>2
    <3>7. \A z \in Probe : /\ Left(z) \in Int
                           /\ Left(z)' = IF z = q THEN Turn ELSE Left(z)
                           /\ z = q => Left(z) = 0
      BY <1>0, <1>1, <1>2 DEF Left, TimerInv
    <3>8. ASSUME NEW x \in Probe, NEW y \in Probe
          PROVE  before + Left(x)' + (IF x = y THEN 0 ELSE Left(y)') <= Turn * m
      <4>1. /\ before + Left(x) + (IF x = y THEN 0 ELSE Left(y)) <= Turn * n
            /\ before + Left(y) + 0 <= Turn * n
            /\ before + Left(x) + 0 <= Turn * n
        BY <3>1 DEF Spent
      <4> HIDE DEF before, n, m
      <4> QED BY <1>2, <3>5, <3>6, <3>7, <4>1
    <3>9. MaxWorkers * (overdue'[p] - Notice) = before
      BY <2>1
    <3> QED BY <3>8, <3>9 DEF Spent
  <2> QED BY <1>1, <2>1, <2>2 DEF WaitFor
<1> QED BY <1>3, <1>4

(* A probe that is reaped has not yet waited for its next turn.            *)
LEMMA ReapKeepsWait ==
    ASSUME PoolInv, TimerInv, PoolInv', TimerInv', Open,
           \A r \in Probe : TurnFor(r), \A r \in Probe : TurnFor(r)',
           NEW p \in Probe, WaitFor(p), NEW q \in Probe, TReapFuture(q)
    PROVE  WaitFor(p)'
<1>0. TypeOK /\ active \subseteq Probe
  BY DEF PoolInv, TypeOK
<1>1. /\ pc = "reap" /\ pc' = "reap"
      /\ active' = active \ {q} /\ q \in active
      /\ UNCHANGED <<untilDue, sinceStart, overdue, lag, idleFor>>
  BY DEF TReapFuture, ReapFuture, PoolInv, MainThread
<1>2. /\ MaxLag \in Nat /\ WaitLimit \in Nat /\ Turn \in Nat
      /\ Notice \in Nat /\ MaxWorkers \in 1..2
      /\ \A r \in Probe : /\ untilDue[r] \in Int
                          /\ sinceStart[r] \in Nat /\ overdue[r] \in Nat
  BY <1>0, TurnTypes
<1>3. CASE p = q
  <2>1. overdue[p] = 0 /\ p \notin active' /\ Open'
    BY <1>1, <1>3 DEF WaitFor, Open
  <2>2. overdue'[p] <= Notice
    BY <1>1, <1>2, <2>1
  <2>3. Spent(p)'
    BY <2>1, <2>2, AccountsBalanceNext DEF Accounts, Accounted
  <2> QED BY <1>1, <1>2, <2>1, <2>3 DEF WaitFor
<1>4. CASE p # q
  <2>1. ASSUME p \notin active, untilDue[p] <= 0 PROVE Spent(p)'
    <3>1. Spent(p)
      BY <2>1 DEF WaitFor
    <3> DEFINE before == MaxWorkers * (overdue[p] - Notice)
               b == Turn * Cardinality(Served(p))
    <3>2. Served(p)' = Served(p)
      BY <1>1 DEF Served
    <3>3. before \in Int /\ b \in Int
      <4>1. Cardinality(Served(p)) \in Nat
        BY ServedBounds
      <4> QED BY <1>2, <4>1
    <3>4. \A z \in Probe : /\ Left(z) \in Nat
                           /\ Left(z)' = IF z = q THEN 0 ELSE Left(z)
      BY <1>0, <1>1, <1>2, WithinTurn DEF Left
    <3>5. ASSUME NEW x \in Probe, NEW y \in Probe
          PROVE  before + Left(x)' + (IF x = y THEN 0 ELSE Left(y)') <= b
      <4>1. before + Left(x) + (IF x = y THEN 0 ELSE Left(y)) <= b
        BY <3>1 DEF Spent
      <4> HIDE DEF before, b
      <4> QED BY <3>3, <3>4, <4>1
    <3> QED BY <1>1, <3>2, <3>5 DEF Spent
  <2> QED BY <1>1, <1>4, <2>1 DEF WaitFor
<1> QED BY <1>3, <1>4

(* With a full pool the turns in progress grow with the wait, and as long  *)
(* as the pool is not full there is nothing to account for.                *)
LEMMA ElapseKeepsWait ==
    ASSUME Roomy, PoolInv, TimerInv, PoolInv', TimerInv', Open, Open',
           \A r \in Probe : TurnFor(r), \A r \in Probe : TurnFor(r)',
           NEW p \in Probe, WaitFor(p), TElapse
    PROVE  WaitFor(p)'
<1>0. TypeOK /\ active \subseteq Probe
  BY DEF PoolInv, TypeOK
<1>1. /\ UNCHANGED <<active, pc>>
      /\ pc = "idle" \/ (pc = "collect" /\ lag < MaxLag /\ lag' = lag + 1)
      /\ pc = "idle" => idleFor < MaxGap /\ idleFor' = idleFor + 1
      /\ \A r \in Probe :
            /\ sinceStart'[r] = Capped(sinceStart[r], Interval[r])
            /\ overdue'[r] = IF r \notin active /\ untilDue[r] <= 0
                             THEN Capped(overdue[r], WaitLimit + 1) ELSE 0
            /\ untilDue'[r] = IF untilDue[r] > -MaxLag THEN untilDue[r] - 1
                                                       ELSE untilDue[r]
  BY DEF TElapse, Elapse, Open
<1>2. /\ MaxGap \in Nat /\ MaxLag \in Nat /\ lag \in Nat /\ idleFor \in Nat
      /\ Lead \in Nat /\ WaitLimit \in Nat /\ Turn \in Nat /\ Notice \in Nat
      /\ Notice = Lead + MaxGap + MaxLag /\ MaxWorkers \in 1..2
      /\ \A r \in Probe : /\ Interval[r] \in Nat /\ untilDue[r] \in Int
                          /\ sinceStart[r] \in Nat /\ overdue[r] \in Nat
  BY <1>0, TurnTypes DEF Notice
<1>3. Accounted /\ Accounted'
  BY AccountsBalance, AccountsBalanceNext DEF Accounts
<1>4. CASE p \in active \/ untilDue[p] > 0
  <2>1. overdue'[p] = 0
    BY <1>1, <1>2, <1>4
  <2>2. p \notin active' /\ untilDue'[p] <= 0 => Spent(p)'
    BY <1>2, <1>3, <2>1 DEF Accounted
  <2>3. untilDue'[p] <= 0 => 0 <= -untilDue'[p]
    <3>1. untilDue'[p] \in Int
      BY <1>1, <1>2
    <3> QED BY <3>1
  <2>4. 0 <= Lead + idleFor' \/ pc' # "idle"
    BY <1>1, <1>2
  <2>5. 0 <= Lead + MaxGap + lag' \/ pc' # "collect"
    BY <1>1, <1>2
  <2> QED BY <1>2, <2>1, <2>2, <2>3, <2>4, <2>5 DEF WaitFor
<1>5. CASE p \notin active /\ untilDue[p] <= 0
  <2>1. /\ overdue[p] <= WaitLimit /\ Spent(p)
        /\ untilDue[p] > -MaxLag => overdue[p] <= -untilDue[p]
        /\ pc = "idle" => overdue[p] <= Lead + idleFor \/ PoolFull
        /\ pc = "collect" => overdue[p] <= Lead + MaxGap + lag \/ PoolFull
    BY <1>5 DEF WaitFor
  <2>2. overdue'[p] = overdue[p] + 1
    BY <1>1, <1>2, <1>5, <2>1 DEF Capped
  <2>3. PoolFull' <=> PoolFull
    BY <1>1 DEF PoolFull
  <2>4. /\ untilDue'[p] > -MaxLag => overdue'[p] <= -untilDue'[p]
        /\ pc' = "idle" => overdue'[p] <= Lead + idleFor' \/ PoolFull'
        /\ pc' = "collect" => overdue'[p] <= Lead + MaxGap + lag' \/ PoolFull'
    BY <1>1, <1>2, <2>1, <2>2, <2>3
  <2>5. CASE ~PoolFull
    <3>1. overdue'[p] <= Notice
      BY <1>1, <1>2, <2>1, <2>2, <2>5
    <3>2. p \notin active'
      BY <1>1, <1>5
    <3>3. Spent(p)' /\ overdue'[p] <= WaitLimit
      BY <1>3, <3>1, <3>2 DEF Accounted
    <3> QED BY <1>1, <1>2, <1>5, <2>2, <2>4, <3>3 DEF WaitFor
  <2>6. CASE PoolFull
    <3>1. PICK a \in active, b \in active :
              /\ active = {a, b} /\ MaxWorkers = IF a = b THEN 1 ELSE 2
      BY <1>0, <2>6, FullPool
    <3> DEFINE n == Cardinality(Served(p))
               m == Cardinality(Served(p)')
               late == overdue[p] - Notice
    <3>2. \A z \in Probe : /\ Left(z) \in Nat
                           /\ Left(z)' = IF z \in active THEN Left(z) - 1 ELSE 0
                           /\ Left(z)' \in Nat
                           /\ z \notin active => Left(z) = 0
      <4> SUFFICES ASSUME NEW z \in Probe
                   PROVE  /\ Left(z) \in Nat
                          /\ Left(z)' = IF z \in active THEN Left(z) - 1 ELSE 0
                          /\ Left(z)' \in Nat
                          /\ z \notin active => Left(z) = 0
        OBVIOUS
      <4>1. CASE z \notin active
        BY <1>1, <4>1 DEF Left
      <4>2. CASE z \in active
        <5>1. sinceStart[z] <= Turn /\ sinceStart'[z] <= Turn
          BY <1>1, <1>3, <4>2 DEF Accounted
        <5>2. Interval[z] > WaitLimit + Turn + MaxLag
          BY DEF Roomy
        <5>3. sinceStart'[z] = sinceStart[z] + 1
          BY <1>1, <1>2, <5>1, <5>2 DEF Capped
        <5> QED BY <1>1, <1>2, <4>2, <5>1, <5>3 DEF Left
      <4> QED BY <4>1, <4>2
    <3>3. n \in Nat /\ m \in Nat /\ n <= m
      <4>1. Served(p) \subseteq Served(p)'
        <5>1. \A z \in Probe : sinceStart'[z] \in Nat /\ sinceStart'[z] <= sinceStart[z] + 1
          BY <1>1, <1>2 DEF Capped
        <5> QED BY <1>2, <2>2, <5>1 DEF Served
      <4>2. IsFiniteSet(Served(p)')
        <5>1. Served(p)' \subseteq Probe
          BY DEF Served
        <5> QED BY <5>1, ProbeAssumption, FS_Subset
      <4> QED BY <4>1, <4>2, ServedBounds, FS_Subset, FS_CardinalityType
    <3>4. Turn * n \in Nat /\ Turn * m \in Nat /\ Turn * n <= Turn * m
      <4> HIDE DEF n, m
      <4> QED BY <1>2, <3>3, TimesMonotone
    <3>5. /\ late \in Int /\ MaxWorkers * late \in Int
          /\ MaxWorkers * (late + 1) = MaxWorkers * late + MaxWorkers
      <4>1. MaxWorkers = 1 \/ MaxWorkers = 2
        BY <1>2
      <4> HIDE DEF MaxWorkers
      <4> QED BY <1>2, <4>1
    <3>6. MaxWorkers * late + Left(a) + (IF a = b THEN 0 ELSE Left(b)) <= Turn * n
      BY <1>0, <2>1 DEF Spent
    <3>7. overdue'[p] - Notice = late + 1
      BY <1>2, <2>2
    <3>8. ASSUME NEW x \in Probe, NEW y \in Probe
          PROVE  MaxWorkers * (overdue'[p] - Notice) + Left(x)'
                     + (IF x = y THEN 0 ELSE Left(y)') <= Turn * m
      <4> DEFINE la == Left(a)'
                 lb == IF a = b THEN 0 ELSE Left(b)'
                 lx == Left(x)'
                 ly == IF x = y THEN 0 ELSE Left(y)'
      <4>1. lx + ly <= la + lb
        BY <1>0, <3>1, <3>2
      <4>2. la + lb + MaxWorkers = Left(a) + (IF a = b THEN 0 ELSE Left(b))
        BY <1>0, <3>1, <3>2
      <4>3. la \in Nat /\ lb \in Nat /\ lx \in Nat /\ ly \in Nat
            /\ Left(a) \in Nat /\ Left(b) \in Nat
        BY <1>0, <3>2
      <4>4. MaxWorkers * (overdue'[p] - Notice) = MaxWorkers * late + MaxWorkers
        BY <3>5, <3>7
      <4> HIDE DEF la, lb, lx, ly, n, m, late, MaxWorkers
      <4>5. MaxWorkers * (overdue'[p] - Notice) + lx + ly <= Turn * m
        BY <1>2, <3>4, <3>5, <3>6, <4>1, <4>2, <4>3, <4>4
      <4> QED BY <4>5 DEF lx, ly
    <3>9. Spent(p)'
      BY <3>8 DEF Spent
    <3>10. overdue'[p] <= WaitLimit
      BY <1>3, <3>9 DEF Accounted
    <3> QED BY <1>1, <1>2, <1>5, <2>2, <2>4, <3>9, <3>10 DEF WaitFor
  <2> QED BY <2>5, <2>6
<1> QED BY <1>2, <1>4, <1>5

(* One case per action: who may change the account of a waiting probe.     *)
LEMMA StepKeepsWait ==
    ASSUME Roomy, PoolInv, TimerInv, PoolInv', TimerInv', WaitInv, [TNext]_tvars
    PROVE  WaitInv'
<1> SUFFICES ASSUME Open' PROVE \A p \in Probe : TurnFor(p)' /\ WaitFor(p)'
  BY DEF WaitInv, Open
<1>0. Open
  BY DEF TNext, tvars, vars, Untimed, Closing, Stopped, TElapse, Elapse, TReadClock,
         ReadClock, TSubmit, Submit, TReapFuture, ReapFuture, TWorkerFinish,
         WorkerFinish, BeginTick, SkipFuture, EndReap, EndTick, WorkerTake,
         Close, CancelFuture, Shutdown, CloseDone, Open
<1>1. \A q \in Probe : TurnFor(q) /\ WaitFor(q)
  BY <1>0 DEF WaitInv, Open
<1>2. \A q \in Probe : TurnFor(q)'
  BY <1>0, <1>1, StepKeepsTurns
<1> SUFFICES ASSUME NEW p \in Probe PROVE WaitFor(p)'
  BY <1>2
<1>3. CASE TElapse
  BY <1>0, <1>1, <1>2, <1>3, ElapseKeepsWait
<1>4. CASE MainStep
  BY <1>1, <1>4, MainKeepsWait
<1>5. ASSUME NEW q \in Probe, TSubmit(q) PROVE WaitFor(p)'
  BY <1>1, <1>5, SubmitKeepsWait
<1>6. ASSUME NEW q \in Probe, TReapFuture(q) PROVE WaitFor(p)'
  BY <1>0, <1>1, <1>2, <1>6, ReapKeepsWait
<1>7. CASE \/ \E w \in Worker : TWorkerFinish(w)
           \/ UNCHANGED timers /\ \E w \in Worker : WorkerTake(w)
           \/ UNCHANGED timers /\ Stopped
           \/ UNCHANGED tvars
  <2>1. UNCHANGED <<active, untilDue, pc, lag, idleFor, sinceStart, overdue>>
    BY <1>7 DEF TWorkerFinish, WorkerFinish, WorkerTake, Stopped, timers, tvars, vars
  <2>2. Spent(p) => Spent(p)'
    BY <2>1, SpentUntouched
  <2> QED BY <1>1, <2>1, <2>2 DEF WaitFor, PoolFull
<1>8. CASE Closing
  BY <1>8 DEF Closing, Close, CancelFuture, Shutdown, CloseDone, Open
<1> QED
  BY <1>3, <1>4, <1>5, <1>6, <1>7, <1>8 DEF TNext, Untimed, MainStep

(* At the start nobody has waited, and nobody is in progress.              *)
LEMMA WaitInit == ASSUME Roomy PROVE TInit => WaitInv
<1> SUFFICES ASSUME TInit, NEW p \in Probe PROVE TurnFor(p) /\ WaitFor(p)
  BY DEF WaitInv
<1>1. /\ active = {} /\ pc = "idle" /\ overdue[p] = 0 /\ idleFor = 0 /\ untilDue[p] = 0
      /\ future[p] = "none" /\ \A w \in Worker : worker[w] = Idle
  BY DEF TInit, Init
<1>2. TurnFor(p)
  BY <1>1, TokenAssumption DEF TurnFor
<1>3. PoolInv /\ TimerInv /\ Open
  BY <1>1, InitPool, TimerInit DEF TInit, Open
<1>4. \A q \in Probe : TurnFor(q)
  BY TokenAssumption DEF TInit, Init, TurnFor
<1>5. /\ WaitLimit \in Nat /\ Notice \in Nat /\ Lead \in Nat
  BY <1>3, TurnTypes DEF PoolInv
<1>6. Spent(p)
  BY <1>1, <1>3, <1>4, <1>5, NothingSpent
<1> QED BY <1>1, <1>2, <1>5, <1>6 DEF WaitFor

(* No probe starves behind the ones defined before it: where the workers   *)
(* are enough, one that is due is submitted within WaitLimit.              *)
THEOREM NoProbeStarves == ASSUME Roomy PROVE TSpec => []BoundedWait
<1>1. TSpec => []PoolInv
  BY TimedIsManager, PoolCorrect, PTL
<1>2. TInit => WaitInv
  BY WaitInit
<1>3. PoolInv /\ TimerInv /\ PoolInv' /\ TimerInv' /\ WaitInv /\ [TNext]_tvars => WaitInv'
  BY StepKeepsWait
<1>4. WaitInv => BoundedWait
  BY DEF WaitInv, WaitFor, BoundedWait
<1> QED BY <1>1, <1>2, <1>3, <1>4, TimersCorrect, PTL DEF TSpec

-----------------------------------------------------------------------------
(* How old a fresh record can be.                                          *)

TimedInv == PoolInv /\ RecordInv /\ TimerInv

(* A step that leaves a probe and its timers alone may only lengthen what  *)
(* its finished run is allowed to wait.                                    *)
LEMMA FreshUntouched ==
    ASSUME TypeOK, TimerInv, TypeOK', TimerInv', NEW p \in Probe, FreshFor(p),
           untilDue'[p] = untilDue[p], sinceGood'[p] = sinceGood[p],
           overdue'[p] = overdue[p], record'[p] = record[p],
           p \in active' <=> p \in active, future'[p] = future[p],
           ranFor' = ranFor, worker' = worker,
           future[p] = "finished" => Slack(p) <= Slack(p)'
    PROVE  FreshFor(p)'
<1>1. /\ Slack(p) \in Nat /\ Slack(p)' \in Nat /\ MaxRun[p] \in Nat
      /\ Interval[p] \in Nat /\ WaitLimit \in Nat /\ sinceGood[p] \in Nat
  <2>1. Slack(p) \in 0..(MaxGap + MaxLag) /\ MaxGap \in Nat /\ MaxLag \in Nat
    BY AgeTypes
  <2>2. Slack(p)' \in 0..(MaxGap + MaxLag)
    <3>1. lag' \in 0..MaxLag /\ idleFor' \in 0..MaxGap
      BY DEF TimerInv
    <3> QED BY <2>1, <3>1 DEF Slack
  <2> QED BY <2>1, <2>2, AgeTypes
<1> DEFINE before == Slack(p)
           after == Slack(p)'
<1>2. future[p] = "finished" => before <= after
  OBVIOUS
<1>3. before \in Nat /\ after \in Nat
  BY <1>1
<1>4. FreshUntil(p) => FreshUntil(p)'
  <2> HIDE DEF before, after
  <2>1. FreshUntil(p) <=>
          /\ p \notin active => IF untilDue[p] > 0
                                THEN sinceGood[p] + untilDue[p] <= Interval[p]
                                ELSE sinceGood[p] <= Interval[p] + overdue[p]
          /\ future[p] = "pending" => sinceGood[p] <= Interval[p] + WaitLimit
          /\ \A w \in Worker : worker[w] = p
                => sinceGood[p] <= Interval[p] + WaitLimit + ranFor[w]
          /\ future[p] = "finished"
                => sinceGood[p] <= Interval[p] + WaitLimit + MaxRun[p] + before
    BY DEF FreshUntil, before
  <2>2. FreshUntil(p)' <=>
          /\ p \notin active' => IF untilDue'[p] > 0
                                THEN sinceGood'[p] + untilDue'[p] <= Interval[p]
                                ELSE sinceGood'[p] <= Interval[p] + overdue'[p]
          /\ future'[p] = "pending" => sinceGood'[p] <= Interval[p] + WaitLimit
          /\ \A w \in Worker : worker'[w] = p
                => sinceGood'[p] <= Interval[p] + WaitLimit + ranFor'[w]
          /\ future'[p] = "finished"
                => sinceGood'[p] <= Interval[p] + WaitLimit + MaxRun[p] + after
    BY DEF FreshUntil, after
  <2>3. future[p] = "finished" /\ FreshUntil(p)
           => sinceGood[p] <= Interval[p] + WaitLimit + MaxRun[p] + after
    BY <1>1, <1>2, <1>3, <2>1
  <2> QED BY <2>1, <2>2, <2>3
<1> QED BY <1>4 DEF FreshFor

LEMMA ElapseKeepsFresh ==
    ASSUME TimedInv, BoundedWait, NEW p \in Probe, FreshFor(p), Open, TElapse
    PROVE  FreshFor(p)'
<1>0. TypeOK /\ TimerInv /\ PoolInv
  BY DEF TimedInv, PoolInv
<1>1. /\ Interval[p] \in Nat /\ untilDue[p] \in Int /\ sinceGood[p] \in Nat
      /\ overdue[p] \in Nat /\ MaxRun[p] \in Nat /\ WaitLimit \in Nat
      /\ MaxGap \in Nat /\ MaxLag \in Nat /\ lag \in Nat /\ idleFor \in Nat
      /\ \A w \in Worker : ranFor[w] \in Nat
  BY <1>0, AgeTypes
<1>2. /\ UNCHANGED <<active, future, worker, record, pc, toCheck>>
      /\ untilDue'[p] = IF untilDue[p] > -MaxLag THEN untilDue[p] - 1 ELSE untilDue[p]
      /\ pc = "idle" \/ (pc = "collect" /\ lag' = lag + 1)
      /\ pc = "idle" => idleFor' = idleFor + 1
  BY <1>0 DEF TElapse, Elapse, poolVars, Open, TypeOK
<1>3. /\ sinceGood'[p] = IF record[p].source_state = "fresh"
                         THEN Capped(sinceGood[p], FreshLimit(p) + 1) ELSE 0
      /\ overdue'[p] = IF p \notin active /\ untilDue[p] <= 0
                       THEN Capped(overdue[p], WaitLimit + 1) ELSE 0
      /\ \A w \in Worker : worker[w] = p => ranFor'[w] = ranFor[w] + 1
  BY TokenAssumption DEF TElapse
<1>4. overdue[p] <= WaitLimit
  BY DEF BoundedWait, Open
<1>5. untilDue'[p] <= Interval[p]
  BY <1>1, <1>2 DEF FreshFor
<1>6. ASSUME record'[p].source_state = "fresh" PROVE FreshUntil(p)'
  <2>1. record[p].source_state = "fresh" /\ FreshUntil(p)
    BY <1>2, <1>6 DEF FreshFor
  <2>2. sinceGood'[p] \in Nat /\ sinceGood'[p] <= sinceGood[p] + 1
    BY <1>1, <1>3, <2>1 DEF Capped
  <2>3. ASSUME p \notin active'
        PROVE  IF untilDue'[p] > 0 THEN sinceGood'[p] + untilDue'[p] <= Interval[p]
                                   ELSE sinceGood'[p] <= Interval[p] + overdue'[p]
    <3>1. p \notin active
      BY <1>2, <2>3
    <3>2. CASE untilDue[p] > 0
      <4>1. /\ untilDue'[p] = untilDue[p] - 1 /\ overdue'[p] = 0
            /\ sinceGood[p] + untilDue[p] <= Interval[p]
        BY <1>1, <1>2, <1>3, <2>1, <3>1, <3>2 DEF FreshUntil
      <4> QED BY <1>1, <2>2, <3>2, <4>1
    <3>3. CASE untilDue[p] <= 0
      <4>1. /\ untilDue'[p] <= 0 /\ overdue'[p] = overdue[p] + 1
            /\ untilDue'[p] \in Int
            /\ sinceGood[p] <= Interval[p] + overdue[p]
        BY <1>1, <1>2, <1>3, <1>4, <2>1, <3>1, <3>3 DEF FreshUntil, Capped
      <4> QED BY <1>1, <2>2, <4>1
    <3> QED BY <1>1, <3>2, <3>3
  <2>4. future'[p] # "pending"
    BY <1>0, <1>2, NoTimeWhilePending DEF TElapse
  <2>5. ASSUME NEW w \in Worker, worker'[w] = p
        PROVE  sinceGood'[p] <= Interval[p] + WaitLimit + ranFor'[w]
    <3>1. /\ ranFor'[w] = ranFor[w] + 1 /\ ranFor[w] \in Nat
          /\ sinceGood[p] <= Interval[p] + WaitLimit + ranFor[w]
      BY <1>1, <1>2, <1>3, <2>1, <2>5 DEF FreshUntil
    <3> QED BY <1>1, <2>2, <3>1
  <2>6. ASSUME future'[p] = "finished"
        PROVE  sinceGood'[p] <= Interval[p] + WaitLimit + MaxRun[p] + Slack(p)'
    <3>1. Slack(p)' = Slack(p) + 1 /\ Slack(p) \in Nat
      BY <1>1, <1>2 DEF Slack
    <3>2. sinceGood[p] <= Interval[p] + WaitLimit + MaxRun[p] + Slack(p)
      BY <1>2, <2>1, <2>6 DEF FreshUntil
    <3> QED BY <1>1, <2>2, <3>1, <3>2
  <2> QED BY <2>3, <2>4, <2>5, <2>6 DEF FreshUntil
<1> QED BY <1>5, <1>6 DEF FreshFor

(* A success makes a record young; a failure takes "fresh" away from it.   *)
LEMMA ReapKeepsFresh ==
    ASSUME TimedInv, TimedInv', NEW p \in Probe, FreshFor(p),
           NEW q \in Probe, TReapFuture(q)
    PROVE  FreshFor(p)'
<1>0. /\ TypeOK /\ TimerInv /\ PoolInv /\ RecordInv /\ TypeOK' /\ TimerInv'
  BY DEF TimedInv, PoolInv
<1>1. /\ Interval[p] \in Nat /\ untilDue[p] \in Int /\ sinceGood[p] \in Nat
      /\ overdue[p] \in Nat /\ MaxRun[p] \in Nat /\ WaitLimit \in Nat
  BY <1>0, AgeTypes
<1>2. /\ UNCHANGED <<untilDue, worker, pc, lag, idleFor, ranFor, overdue>>
      /\ active' = active \ {q} /\ toCheck' = toCheck \ {q} /\ pc = "reap"
      /\ future' = [future EXCEPT ![q] = "none"]
      /\ record' = [record EXCEPT ![q] = Apply(@, ReapedOutcome(q), wallEpoch)]
      /\ sinceGood' = [sinceGood EXCEPT ![q] = IF ReapedOutcome(q).success THEN 0 ELSE @]
  BY DEF TReapFuture, ReapFuture
<1>3. CASE p # q
  <2>1. /\ untilDue'[p] = untilDue[p] /\ overdue'[p] = overdue[p]
        /\ sinceGood'[p] = sinceGood[p] /\ record'[p] = record[p]
        /\ future'[p] = future[p] /\ ranFor' = ranFor /\ worker' = worker
        /\ p \in active' <=> p \in active
    BY <1>0, <1>2, <1>3 DEF TypeOK, TimerInv
  <2>2. Slack(p)' = Slack(p)
    BY <1>2, <1>3 DEF Slack
  <2>3. Slack(p) <= Slack(p)'
    <3>1. Slack(p) \in 0..(MaxGap + MaxLag) /\ MaxGap \in Nat /\ MaxLag \in Nat
      BY <1>0, AgeTypes
    <3> QED BY <2>2, <3>1
  <2> QED BY <1>0, <2>1, <2>3, FreshUntouched
<1>4. CASE p = q
  <2>1. untilDue'[p] = untilDue[p] /\ untilDue[p] <= Interval[p] /\ overdue'[p] = overdue[p]
    BY <1>2 DEF FreshFor
  <2>2. ASSUME record'[p].source_state = "fresh" PROVE sinceGood'[p] = 0
    <3>1. record'[p] = Apply(record[p], ReapedOutcome(p), wallEpoch)
      BY <1>0, <1>2, <1>4 DEF TypeOK
    <3>2. /\ record[p] \in Record /\ ReapedOutcome(p) \in ProbeOutcome
          /\ ReapedOutcome(p).source_state = "fresh" => ReapedOutcome(p).success
      BY <1>0, ReapedOutcomeType, ReapedOutcomeHonest DEF TypeOK
    <3>3. ReapedOutcome(p).success
      BY <2>2, <3>1, <3>2 DEF Apply, Record, ProbeOutcome
    <3> QED BY <1>0, <1>2, <1>4, <3>3 DEF TimerInv
  <2>3. future'[p] = "none"
    BY <1>0, <1>2, <1>4 DEF TypeOK
  <2>4. ASSUME record'[p].source_state = "fresh" PROVE FreshUntil(p)'
    <3>1. IF untilDue'[p] > 0 THEN sinceGood'[p] + untilDue'[p] <= Interval[p]
                              ELSE sinceGood'[p] <= Interval[p] + overdue'[p]
      BY <1>1, <2>1, <2>2, <2>4
    <3>2. \A w \in Worker : sinceGood'[p] <= Interval[p] + WaitLimit + ranFor'[w]
      BY <1>0, <1>1, <1>2, <2>2, <2>4 DEF TimerInv
    <3> QED BY <2>3, <3>1, <3>2 DEF FreshUntil
  <2> QED BY <2>1, <2>4 DEF FreshFor
<1> QED BY <1>3, <1>4

(* Only a probe that is due is submitted.                                  *)
LEMMA SubmitKeepsFresh ==
    ASSUME TimedInv, TimedInv', BoundedWait, NEW p \in Probe, FreshFor(p), Open,
           NEW q \in Probe, TSubmit(q)
    PROVE  FreshFor(p)'
<1>0. /\ TypeOK /\ TimerInv /\ PoolInv /\ TypeOK' /\ TimerInv'
  BY DEF TimedInv, PoolInv
<1>1. /\ Interval[p] \in Nat /\ untilDue[p] \in Int /\ sinceGood[p] \in Nat
      /\ overdue[p] \in Nat /\ MaxRun[p] \in Nat /\ WaitLimit \in Nat
      /\ lag \in Nat
  BY <1>0, AgeTypes DEF TypeOK
<1>2. /\ UNCHANGED <<worker, record, pc, toCheck, lag, idleFor, ranFor, sinceGood>>
      /\ active' = active \cup {q} /\ pc = "submit" /\ q \in Eligible
      /\ future' = [future EXCEPT ![q] = "pending"]
      /\ untilDue' = [untilDue EXCEPT ![q] = Interval[q] - lag]
      /\ overdue' = [overdue EXCEPT ![q] = 0]
  BY DEF TSubmit, Submit
<1>3. CASE p # q
  <2>1. /\ untilDue'[p] = untilDue[p] /\ overdue'[p] = overdue[p]
        /\ sinceGood'[p] = sinceGood[p] /\ record'[p] = record[p]
        /\ future'[p] = future[p] /\ ranFor' = ranFor /\ worker' = worker
        /\ p \in active' <=> p \in active
    BY <1>0, <1>2, <1>3 DEF TypeOK, TimerInv
  <2>2. Slack(p)' = Slack(p)
    BY <1>2 DEF Slack
  <2>3. Slack(p) <= Slack(p)'
    <3>1. Slack(p) \in 0..(MaxGap + MaxLag) /\ MaxGap \in Nat /\ MaxLag \in Nat
      BY <1>0, AgeTypes
    <3> QED BY <2>2, <3>1
  <2> QED BY <1>0, <2>1, <2>3, FreshUntouched
<1>4. CASE p = q
  <2>1. /\ p \notin active /\ untilDue[p] + lag <= 0
        /\ future'[p] = "pending" /\ p \in active'
        /\ untilDue'[p] = Interval[p] - lag
    BY <1>0, <1>2, <1>4 DEF Eligible, TypeOK
  <2>2. \A w \in Worker : worker'[w] # p
    BY <1>0, <1>2, <2>1 DEF PoolInv, ActiveHasFuture, Running
  <2>3. ASSUME record'[p].source_state = "fresh"
        PROVE  sinceGood'[p] <= Interval[p] + WaitLimit
    <3>1. overdue[p] <= WaitLimit
      BY DEF BoundedWait, Open
    <3>2. sinceGood[p] <= Interval[p] + overdue[p]
      BY <1>1, <1>2, <2>1, <2>3 DEF FreshFor, FreshUntil
    <3> QED BY <1>1, <1>2, <3>1, <3>2
  <2>4. untilDue'[p] <= Interval[p]
    BY <1>1, <2>1
  <2> QED BY <2>1, <2>2, <2>3, <2>4 DEF FreshFor, FreshUntil
<1> QED BY <1>3, <1>4

(* A worker begins the run of a pending probe with its clock at zero.      *)
LEMMA TakeKeepsFresh ==
    ASSUME TimedInv, TimedInv', NEW p \in Probe, FreshFor(p),
           NEW w \in Worker, WorkerTake(w), UNCHANGED timers
    PROVE  FreshFor(p)'
<1>0. /\ TypeOK /\ TimerInv /\ PoolInv /\ TypeOK' /\ TimerInv'
  BY DEF TimedInv, PoolInv
<1>1. /\ Interval[p] \in Nat /\ sinceGood[p] \in Nat
      /\ WaitLimit \in Nat /\ ranFor[w] = 0
  BY <1>0, AgeTypes DEF TimerInv, WorkerTake
<1>2. /\ UNCHANGED <<active, record, untilDue, pc, toCheck, lag, idleFor, ranFor,
                     sinceStart, overdue, sinceGood>>
      /\ \/ /\ future[Head(queue)] = "pending"
            /\ future' = [future EXCEPT ![Head(queue)] = "running"]
            /\ worker' = [worker EXCEPT ![w] = Head(queue)]
         \/ UNCHANGED <<future, worker>>
  BY DEF WorkerTake, timers
<1>3. Slack(p)' = Slack(p) /\ Slack(p) <= Slack(p)'
  <2>1. Slack(p) \in 0..(MaxGap + MaxLag) /\ MaxGap \in Nat /\ MaxLag \in Nat
    BY <1>0, AgeTypes
  <2>2. Slack(p)' = Slack(p)
    BY <1>2 DEF Slack
  <2> QED BY <2>1, <2>2
<1>4. CASE UNCHANGED <<future, worker>>
  BY <1>0, <1>2, <1>3, <1>4, FreshUntouched
<1>5. ASSUME future[Head(queue)] = "pending",
             future' = [future EXCEPT ![Head(queue)] = "running"],
             worker' = [worker EXCEPT ![w] = Head(queue)]
      PROVE  FreshFor(p)'
  <2>1. PICK h \in Probe : h = Head(queue)
    BY <1>0, HeadTailProperties DEF WorkerTake, TypeOK
  <2>2. /\ p # h => future'[p] = future[p]
        /\ p = h => future[p] = "pending" /\ future'[p] = "running"
        /\ \A v \in Worker : worker'[v] = p => worker[v] = p \/ (v = w /\ p = h)
    BY <1>0, <1>5, <2>1 DEF TypeOK
  <2>3. ASSUME record'[p].source_state = "fresh" PROVE FreshUntil(p)'
    <3>1. FreshUntil(p)
      BY <1>2, <2>3 DEF FreshFor
    <3>2. p \notin active' => IF untilDue'[p] > 0
                              THEN sinceGood'[p] + untilDue'[p] <= Interval[p]
                              ELSE sinceGood'[p] <= Interval[p] + overdue'[p]
      BY <1>2, <3>1 DEF FreshUntil
    <3>3. future'[p] = "pending" => sinceGood'[p] <= Interval[p] + WaitLimit
      BY <1>2, <2>2, <3>1 DEF FreshUntil
    <3>4. \A v \in Worker : worker'[v] = p
              => sinceGood'[p] <= Interval[p] + WaitLimit + ranFor'[v]
      BY <1>1, <1>2, <2>2, <3>1 DEF FreshUntil
    <3>5. future'[p] = "finished"
              => sinceGood'[p] <= Interval[p] + WaitLimit + MaxRun[p] + Slack(p)'
      BY <1>2, <1>3, <2>2, <3>1 DEF FreshUntil
    <3> QED BY <3>2, <3>3, <3>4, <3>5 DEF FreshUntil
  <2> QED BY <1>2, <2>3 DEF FreshFor
<1> QED BY <1>2, <1>4, <1>5

(* A run ends within its time-out.                                         *)
LEMMA FinishKeepsFresh ==
    ASSUME TimedInv, TimedInv', NEW p \in Probe, FreshFor(p),
           NEW w \in Worker, TWorkerFinish(w)
    PROVE  FreshFor(p)'
<1>0. /\ TypeOK /\ TimerInv /\ TypeOK' /\ TimerInv'
  BY DEF TimedInv, PoolInv
<1>1. /\ Interval[p] \in Nat /\ sinceGood[p] \in Nat /\ WaitLimit \in Nat
      /\ MaxRun[p] \in Nat /\ ranFor[w] \in Nat
      /\ Slack(p) \in 0..(MaxGap + MaxLag) /\ MaxGap \in Nat /\ MaxLag \in Nat
  BY <1>0, AgeTypes
<1>2. /\ UNCHANGED <<active, record, untilDue, pc, toCheck, lag, idleFor, overdue,
                     sinceGood>>
      /\ worker[w] # Idle /\ worker' = [worker EXCEPT ![w] = Idle]
      /\ future' = [future EXCEPT ![worker[w]] = "finished"]
      /\ ranFor' = [ranFor EXCEPT ![w] = 0]
  BY DEF TWorkerFinish, WorkerFinish
<1>3. /\ future'[p] = IF p = worker[w] THEN "finished" ELSE future[p]
      /\ \A v \in Worker : worker'[v] = p => worker[v] = p /\ ranFor'[v] = ranFor[v]
  BY <1>0, <1>2, TokenAssumption DEF TypeOK, TimerInv
<1>4. Slack(p)' = Slack(p)
  BY <1>2 DEF Slack
<1>5. ASSUME record'[p].source_state = "fresh" PROVE FreshUntil(p)'
  <2>1. FreshUntil(p)
    BY <1>2, <1>5 DEF FreshFor
  <2>2. future'[p] = "finished"
              => sinceGood'[p] <= Interval[p] + WaitLimit + MaxRun[p] + Slack(p)'
    <3>1. ASSUME p = worker[w]
          PROVE  sinceGood[p] <= Interval[p] + WaitLimit + MaxRun[p] + Slack(p)
      <4>1. sinceGood[p] <= Interval[p] + WaitLimit + ranFor[w]
        BY <2>1, <3>1 DEF FreshUntil
      <4>2. ranFor[w] <= MaxRun[p]
        BY <1>0, <1>2, <3>1 DEF TimerInv
      <4> QED BY <1>1, <4>1, <4>2
    <3>2. ASSUME future[p] = "finished"
          PROVE  sinceGood[p] <= Interval[p] + WaitLimit + MaxRun[p] + Slack(p)
      BY <2>1, <3>2 DEF FreshUntil
    <3> QED BY <1>2, <1>3, <1>4, <3>1, <3>2
  <2>3. p \notin active' => IF untilDue'[p] > 0
                            THEN sinceGood'[p] + untilDue'[p] <= Interval[p]
                            ELSE sinceGood'[p] <= Interval[p] + overdue'[p]
    BY <1>2, <2>1 DEF FreshUntil
  <2>4. future'[p] = "pending" => sinceGood'[p] <= Interval[p] + WaitLimit
    BY <1>2, <1>3, <2>1 DEF FreshUntil
  <2>5. \A v \in Worker : worker'[v] = p
            => sinceGood'[p] <= Interval[p] + WaitLimit + ranFor'[v]
    BY <1>2, <1>3, <2>1 DEF FreshUntil
  <2> QED BY <2>2, <2>3, <2>4, <2>5 DEF FreshUntil
<1> QED BY <1>2, <1>5 DEF FreshFor

(* The main thread's other steps touch nothing but its place.              *)
LEMMA MainKeepsFresh ==
    ASSUME TimedInv, TimedInv', NEW p \in Probe, FreshFor(p), MainStep
    PROVE  FreshFor(p)'
<1>1. /\ TypeOK /\ TimerInv /\ PoolInv /\ TypeOK' /\ TimerInv'
  BY DEF TimedInv, PoolInv
<1>2. UNCHANGED <<active, future, worker, record, untilDue, ranFor, overdue, sinceGood>>
  BY DEF MainStep, TReadClock, ReadClock, timers, BeginTick, SkipFuture, EndReap,
         EndTick, poolVars
<1> QED BY <1>1, <1>2, MainKeepsSlack, FreshUntouched

LEMMA StepKeepsFresh ==
    TimedInv /\ TimedInv' /\ BoundedWait /\ FreshInv /\ [TNext]_tvars => FreshInv'
<1> SUFFICES ASSUME TimedInv, TimedInv', BoundedWait, FreshInv, [TNext]_tvars,
                    Open', NEW p \in Probe
             PROVE  FreshFor(p)'
  BY DEF FreshInv, Open
<1>1. CASE TElapse
  BY <1>1, ElapseKeepsFresh DEF FreshInv, Open, TElapse, Elapse
<1>2. CASE MainStep
  <2>1. FreshFor(p)
    BY <1>2 DEF FreshInv, MainStep, TReadClock, ReadClock, BeginTick, SkipFuture,
                EndReap, EndTick
  <2> QED BY <1>2, <2>1, MainKeepsFresh
<1>3. ASSUME NEW q \in Probe, TSubmit(q) PROVE FreshFor(p)'
  BY <1>3, SubmitKeepsFresh DEF FreshInv, Open, TSubmit, Submit
<1>4. ASSUME NEW q \in Probe, TReapFuture(q) PROVE FreshFor(p)'
  BY <1>4, ReapKeepsFresh DEF FreshInv, TReapFuture, ReapFuture
<1>5. ASSUME NEW w \in Worker, TWorkerFinish(w) PROVE FreshFor(p)'
  <2>1. FreshFor(p)
    BY <1>5 DEF FreshInv, Open, TWorkerFinish, WorkerFinish
  <2> QED BY <1>5, <2>1, FinishKeepsFresh
<1>6. ASSUME UNCHANGED timers, NEW w \in Worker, WorkerTake(w) PROVE FreshFor(p)'
  <2>1. FreshFor(p)
    BY <1>6 DEF FreshInv, Open, WorkerTake
  <2> QED BY <1>6, <2>1, TakeKeepsFresh
<1>7. CASE Closing
  BY <1>7 DEF Closing, Close, CancelFuture, Shutdown, CloseDone, Open
<1>8. CASE UNCHANGED tvars \/ (Stopped /\ UNCHANGED timers)
  <2>1. UNCHANGED <<vars, timers>>
    BY <1>8 DEF tvars, Stopped
  <2>2. FreshFor(p)
    BY <2>1 DEF FreshInv, Open, vars
  <2>3. FreshFor(p)' <=> FreshFor(p)
    BY <2>1 DEF vars, timers, FreshFor, FreshUntil, Slack
  <2> QED BY <2>2, <2>3
<1> QED BY <1>1, <1>2, <1>3, <1>4, <1>5, <1>6, <1>7, <1>8
  DEF TNext, Untimed, MainStep

LEMMA FreshInit == TInit => FreshInv
BY ProbeAssumption DEF TInit, Init, FreshInv, FreshFor, NewRecord

LEMMA FreshEnough == TimedInv /\ BoundedWait /\ FreshInv => FreshIsRecent
<1> SUFFICES ASSUME TimedInv, BoundedWait, FreshInv, Open,
                    NEW p \in Probe, record[p].source_state = "fresh"
             PROVE  sinceGood[p] <= FreshLimit(p)
  BY DEF FreshIsRecent, Open
<1>0. TypeOK /\ TimerInv /\ PoolInv
  BY DEF TimedInv, PoolInv
<1>1. /\ Interval[p] \in Nat /\ untilDue[p] \in Int /\ sinceGood[p] \in Nat
      /\ overdue[p] \in Nat /\ MaxRun[p] \in Nat /\ WaitLimit \in Nat
      /\ MaxGap \in Nat /\ MaxLag \in Nat
      /\ \A w \in Worker : ranFor[w] \in Nat
      /\ Slack(p) \in 0..(MaxGap + MaxLag)
  BY <1>0, AgeTypes
<1>2. FreshUntil(p) /\ overdue[p] <= WaitLimit
  BY DEF FreshInv, FreshFor, BoundedWait, Open
<1> USE DEF FreshLimit
<1>3. CASE p \notin active
  <2>1. sinceGood[p] <= Interval[p] + WaitLimit
    BY <1>1, <1>2, <1>3 DEF FreshUntil
  <2> QED BY <1>1, <2>1
<1>4. CASE future[p] = "pending"
  <2>1. sinceGood[p] <= Interval[p] + WaitLimit
    BY <1>2, <1>4 DEF FreshUntil
  <2> QED BY <1>1, <2>1
<1>5. CASE future[p] = "running"
  <2>1. PICK w \in Worker : worker[w] = p
    BY <1>0, <1>5 DEF PoolInv, ActiveHasFuture, Running
  <2>2. sinceGood[p] <= Interval[p] + WaitLimit + ranFor[w]
    BY <1>2, <2>1 DEF FreshUntil
  <2>3. ranFor[w] <= MaxRun[p]
    BY <1>0, <2>1, TokenAssumption DEF TimerInv
  <2> QED BY <1>1, <2>2, <2>3
<1>6. CASE future[p] = "finished"
  <2>1. sinceGood[p] <= Interval[p] + WaitLimit + MaxRun[p] + Slack(p)
    BY <1>2, <1>6 DEF FreshUntil
  <2> QED BY <1>1, <2>1
<1>7. p \in active => future[p] \in {"pending", "running", "finished"}
  BY <1>0 DEF PoolInv, TypeOK, FutureState, ActiveHasFuture, CancelOnlyWhenClosing, Open
<1> QED BY <1>3, <1>4, <1>5, <1>6, <1>7

(* Freshness follows from the bound on the wait, whatever gives it.        *)
LEMMA FreshWhileNoneWaits == TSpec /\ []BoundedWait => []FreshIsRecent
<1>1. TSpec => []TimedInv
  <2>1. TSpec => [](PoolInv /\ RecordInv)
    BY TimedIsManager, PoolCorrect, RecordInvCorrect, PTL
  <2>2. PoolInv /\ RecordInv /\ TimerInv => TimedInv
    BY DEF TimedInv
  <2> QED BY <2>1, <2>2, TimersCorrect, PTL
<1> QED BY <1>1, FreshInit, StepKeepsFresh, FreshEnough, PTL DEF TSpec

(* Where the workers are enough, what a record calls "fresh" is never      *)
(* older than FreshLimit: a probe that fails, hangs or waits for a worker  *)
(* takes the "fresh" of its last success away.                             *)
THEOREM FreshnessBounded == ASSUME Roomy PROVE TSpec => []FreshIsRecent
BY NoProbeStarves, FreshWhileNoneWaits, PTL

-----------------------------------------------------------------------------
(* The process: run_provider, the manager and its threads implement        *)
(* Provider.                                                               *)

(* Whatever the loop does, the manager in it takes a step of its own or    *)
(* none.                                                                   *)
LEMMA ProcessStepIsStep == [PNext]_pvars => [Next]_vars
<1> USE DEF vars, Next, Tick, Closing
<1>1. CASE PTop
  BY <1>1 DEF PTop
<1>2. CASE PCollect
  BY <1>2 DEF PCollect
<1>3. CASE PTick
  BY <1>3 DEF PTick
<1>4. CASE PEndTick
  BY <1>4 DEF PEndTick
<1>5. CASE PAlone \/ PSignal
  BY <1>5 DEF PAlone, PSignal
<1>6. CASE PClose
  BY <1>6 DEF PClose
<1>7. CASE PClosing
  BY <1>7 DEF PClosing
<1>8. CASE PClosed
  BY <1>8 DEF PClosed
<1>9. CASE PWork
  BY <1>9 DEF PWork
<1>10. CASE PElapse
  BY <1>10 DEF PElapse
<1>11. CASE PEnded \/ UNCHANGED pvars
  BY <1>11 DEF PEnded, pvars
<1> QED BY <1>1, <1>2, <1>3, <1>4, <1>5, <1>6, <1>7, <1>8, <1>9, <1>10, <1>11
  DEF PNext, PMain

(* So all that is proved of the manager holds of the one in the process.   *)
LEMMA ProcessIsManager == PSpec => Spec
  BY ProcessStepIsStep, PTL DEF PSpec, PInit, Spec

(* Together is inductive: run_provider calls tick and close one at a time, *)
(* and each of them returns before the loop goes on.                       *)
LEMMA ProcessInit == PInit => Together
  BY DEF PInit, Init, Main!Init, Together, InStep, Main!Place

LEMMA StepTogether == Together /\ [PNext]_pvars => Together'
<1> SUFFICES ASSUME Together, [PNext]_pvars PROVE Together'
  OBVIOUS
<1> USE DEF Together, InStep, Main!Place, vars, loopVars, poolVars, Main!fileVars,
            Main!passVars
<1>1. CASE PTop
  BY <1>1 DEF PTop, Main!Top, ReadClock
<1>2. CASE PCollect
  <2>1. CASE once
    BY <1>1, <1>2, <2>1 DEF PCollect, Main!RunDue
  <2>2. CASE ~once
    BY <1>2, <2>2 DEF PCollect, Main!RunDue, BeginTick
  <2> QED BY <2>1, <2>2
<1>3. CASE PTick
  <2>1. UNCHANGED loopVars
    BY <1>3 DEF PTick
  <2>2. ~once /\ pc \in {"reap", "submit"} /\ pc' \in {"reap", "submit"}
    BY <1>3 DEF PTick, SkipFuture, ReapFuture, Submit, EndReap
  <2> QED BY <2>1, <2>2
<1>4. CASE PEndTick
  BY <1>4 DEF PEndTick, EndTick, Main!AfterTick
<1>5. CASE PAlone \/ PSignal
  <2>1. UNCHANGED vars /\ once' = once
    BY <1>5 DEF PAlone, PSignal, Main!Alone, Main!Write, Main!WriteFails, Main!LockEvent,
                Main!Sleep, Main!Wake, Main!Unlock, Main!Signal
  <2>2. CASE Main!Alone
    BY <2>1, <2>2 DEF Main!Alone, Main!Write, Main!WriteFails, Main!LockEvent,
                      Main!Sleep, Main!Wake, Main!Unlock
  <2>3. CASE Main!Signal
    BY <2>1, <2>3 DEF Main!Signal
  <2> QED BY <1>5, <2>2, <2>3 DEF PAlone, PSignal
<1>6. CASE PClose
  BY <1>6 DEF PClose, Main!Leave, Close
<1>7. CASE PClosing
  <2>1. UNCHANGED loopVars
    BY <1>7 DEF PClosing
  <2>2. ~once /\ pc \in {"cancel", "join"} /\ pc' \in {"cancel", "join"}
    BY <1>7 DEF PClosing, CancelFuture, Shutdown
  <2> QED BY <2>1, <2>2
<1>8. CASE PClosed
  BY <1>8 DEF PClosed, Main!Return, CloseDone
<1>9. CASE PWork
  <2>1. UNCHANGED loopVars /\ pc' = pc /\ active' = active
    BY <1>9 DEF PWork, WorkerTake, WorkerFinish
  <2>2. ~once
    BY <1>9 DEF PWork, WorkerTake, WorkerFinish
  <2> QED BY <2>1, <2>2
<1>10. CASE PElapse
  BY <1>10 DEF PElapse, Elapse
<1>11. CASE PEnded \/ UNCHANGED pvars
  BY <1>11 DEF PEnded, pvars
<1> QED BY <1>1, <1>2, <1>3, <1>4, <1>5, <1>6, <1>7, <1>8, <1>9, <1>10, <1>11
  DEF PNext, PMain

LEMMA StaysTogether == PSpec => []Together
  BY ProcessInit, StepTogether, PTL DEF PSpec

(* When run_provider has returned, by the flag, by an exception or with    *)
(* --once, no work item is queued and no thread runs a probe.              *)
THEOREM NoThreadAfterExit == PSpec => []ExitLeavesNoThread
<1>1. PoolInv /\ Together => ExitLeavesNoThread
  BY DEF PoolInv, QuietWhenClosed, Together, InStep, ExitLeavesNoThread
<1> QED BY <1>1, ProcessIsManager, PoolCorrect, StaysTogether, PTL

(* At the start the process is in an initial state of Provider.            *)
LEMMA PromiseInit == PInit => Promise!Init
  BY DEF PInit, Init, Main!Init, Promise!Init, Promise!Main!Init, PhaseBar,
         OutcomeBar, ModeBar, ModeOfProcess, ToReapBar, NewRecord, Promise!NewRecord

(* The variables of the manager that the promise is about.                 *)
LEMMA PromiseUntouched ==
    ASSUME UNCHANGED <<future, result, record, once>>, ModeBar' = ModeBar
    PROVE  UNCHANGED Promise!runVars
  BY DEF Promise!runVars, PhaseBar, OutcomeBar, ReapedOutcome, ModeOfProcess

(* The main thread's steps that leave the manager alone, or that the       *)
(* promise does not tell from such steps.                                  *)
LEMMA LoopKeepsPromise ==
    ASSUME Together, PTop \/ PAlone \/ PSignal PROVE Promise!Next
<1>1. UNCHANGED <<toCheck, future, result, record, once>> /\ ModeBar' = ModeBar
  BY DEF PTop, PAlone, PSignal, Main!Top, ReadClock, vars, poolVars, ModeBar, Main!Alone,
         Main!Write, Main!WriteFails, Main!LockEvent, Main!Sleep, Main!Wake,
         Main!Unlock, Main!Signal
<1>2. ToReapBar' = ToReapBar
  BY <1>1 DEF PTop, PAlone, PSignal, ReadClock, vars, ToReapBar
<1>3. UNCHANGED <<ToReapBar, Promise!runVars>>
  BY <1>1, <1>2, PromiseUntouched
<1>4. CASE PTop
  <2>1. Promise!Main!Top
    BY <1>4 DEF PTop, Main!Top, Promise!Main!Top, Main!passVars,
                Promise!Main!passVars
  <2> QED BY <1>3, <2>1 DEF Promise!Alone, Promise!MainStep, Promise!Next
<1>5. CASE PAlone \/ PSignal
  <2>1. Promise!Main!Alone \/ Promise!Main!Signal
    BY <1>5
       DEF PAlone, PSignal, Main!Alone, Main!Write, Main!Written, Main!WriteFails,
           Main!LockEvent, Main!Sleep, Main!Wake, Main!Unlock, Main!Signal,
           Main!passVars, Main!fileVars, Promise!Main!Alone, Promise!Main!Write,
           Promise!Main!Written, Promise!Main!WriteFails, Promise!Main!LockEvent,
           Promise!Main!Sleep, Promise!Main!Wake, Promise!Main!Unlock,
           Promise!Main!Signal, Promise!Main!passVars, Promise!Main!fileVars
  <2> QED
    BY <1>3, <2>1
       DEF Promise!Alone, Promise!Signal, Promise!MainStep, Promise!Next
<1> QED BY <1>4, <1>5

(* The futures that tick begins with are those of the runs in progress.    *)
LEMMA CollectKeepsPromise ==
    ASSUME PoolInv, Together, PCollect PROVE Promise!Next
<1>1. Promise!Main!RunDue
  BY DEF PCollect, Main!RunDue, Main!Due, Main!Health, Main!fileVars,
         Promise!Main!RunDue, Promise!Main!Due, Promise!Main!Health,
         Promise!Main!fileVars
<1>2. Promise!Runs!InProgress = active
  BY DEF Promise!Runs!InProgress, PoolInv, TypeOK, ActiveHasFuture, PhaseBar
<1>3. UNCHANGED <<future, result, record, once>> /\ ModeBar' = ModeBar
  BY DEF PCollect, Main!RunDue, BeginTick, vars, poolVars, ModeBar
<1>4. ToReapBar' = active
  BY DEF PCollect, BeginTick, vars, ToReapBar, Together
<1> QED
  BY <1>1, <1>2, <1>3, <1>4, PromiseUntouched
     DEF Promise!Collect, Promise!MainStep, Promise!Next

(* tick's steps, one future or probe at a time.                            *)
LEMMA TickKeepsPromise ==
    ASSUME PoolInv, Together, PTick \/ PEndTick
    PROVE  Promise!Next \/ UNCHANGED Promise!vars
<1>1. ~once /\ loop = "tick" /\ once' = once
  BY DEF PTick, PEndTick, SkipFuture, ReapFuture, Submit, EndReap, EndTick,
         Main!AfterTick, Together, InStep, loopVars
<1>2. ModeOfProcess = ModeBar /\ ModeOfProcess' = ModeBar'
  BY <1>1 DEF ModeOfProcess
<1>3. PTick => UNCHANGED Promise!loopVars
  BY DEF PTick, loopVars, Promise!loopVars
<1>4. ASSUME NEW p \in Probe, SkipFuture(p), PTick PROVE Promise!Next
  <2>1. p \in ToReapBar /\ PhaseBar[p] # "finished"
    BY <1>4 DEF SkipFuture, Done, ToReapBar, PhaseBar
  <2>2. ToReapBar' = ToReapBar \ {p} /\ UNCHANGED <<future, result, record, once>>
                                    /\ ModeBar' = ModeBar
    BY <1>1, <1>4 DEF SkipFuture, ToReapBar, ModeBar, poolVars
  <2> QED
    BY <1>3, <1>4, <2>1, <2>2, PromiseUntouched
       DEF Promise!Skip, Promise!MainStep, Promise!Next
<1>5. ASSUME NEW p \in Probe, ReapFuture(p), PTick PROVE Promise!Next
  <2>1. Runs!Publish(p)
    BY <1>5, ReapImplements
  <2>2. Promise!Runs!Publish(p)
    BY <1>2, <2>1 DEF Runs!Publish, Promise!Runs!Publish, Runs!Apply,
       Promise!Runs!Apply, Runs!UpdateValues, Promise!Runs!UpdateValues
  <2>3. p \in ToReapBar /\ ToReapBar' = ToReapBar \ {p}
    BY <1>5 DEF ReapFuture, ToReapBar
  <2> QED
    BY <1>3, <1>5, <2>2, <2>3 DEF Promise!Reap, Promise!MainStep, Promise!Next
<1>6. ASSUME NEW p \in Probe, Submit(p), PTick PROVE Promise!Next
  <2>1. Runs!Start(p)
    BY <1>6, SubmitImplements
  <2>2. Promise!Runs!Start(p)
    BY <1>2, <2>1 DEF Runs!Start, Promise!Runs!Start, Runs!InProgress,
       Promise!Runs!InProgress
  <2>3. ToReapBar = {} /\ ToReapBar' = {}
    BY <1>6 DEF Submit, ToReapBar
  <2> QED
    BY <1>1, <1>3, <1>6, <2>2, <2>3 DEF Promise!Submit, Promise!MainStep, Promise!Next
<1>7. CASE EndReap /\ PTick
  <2>1. UNCHANGED <<future, result, record, once, ModeBar, ToReapBar>>
    BY <1>1, <1>7 DEF EndReap, poolVars, ModeBar, ToReapBar
  <2> QED BY <1>3, <1>7, <2>1, PromiseUntouched DEF Promise!vars
<1>8. CASE PEndTick
  <2>1. Promise!Main!AfterTick
    BY <1>8 DEF PEndTick, Main!AfterTick, Main!CopyRecords, Main!fileVars,
       Promise!Main!AfterTick, Promise!Main!CopyRecords, Promise!Main!fileVars
  <2>2. /\ UNCHANGED <<future, result, record, once, ModeBar>>
        /\ ToReapBar = {} /\ ToReapBar' = {}
    BY <1>1, <1>8 DEF PEndTick, EndTick, poolVars, ModeBar, ToReapBar
  <2> QED
    BY <2>1, <2>2, PromiseUntouched DEF Promise!EndTick, Promise!MainStep, Promise!Next
<1> QED BY <1>4, <1>5, <1>6, <1>7, <1>8 DEF PTick

(* close: the futures it cancels are runs that have not begun.             *)
LEMMA CloseKeepsPromise ==
    ASSUME PoolInv, Together, PClose \/ PClosing \/ PClosed
    PROVE  Promise!Next \/ UNCHANGED Promise!vars
<1>1. ToReapBar = {} /\ ToReapBar' = {} /\ once' = once
  BY DEF PClose, PClosing, PClosed, Close, CancelFuture, Shutdown, CloseDone,
         Main!Leave, Main!Return, ToReapBar, Together, loopVars, vars
<1>2. CASE PClose
  <2>1. Promise!Main!Leave
    BY <1>2 DEF PClose, Main!Leave, Main!passVars, Main!fileVars,
       Promise!Main!Leave, Promise!Main!passVars, Promise!Main!fileVars
  <2>2. CASE once
    <3>1. UNCHANGED <<future, result, record, once, ModeBar>>
      BY <1>1, <1>2, <2>2 DEF PClose, vars, poolVars, ModeBar
    <3> QED
      BY <1>1, <2>1, <2>2, <3>1, PromiseUntouched
         DEF Promise!Close, Promise!MainStep, Promise!Next
  <2>3. CASE ~once
    <3>1. Runs!BeginClosing
      BY <1>2, <2>3, CloseImplements DEF PClose
    <3>2. Promise!Runs!BeginClosing
      BY <1>1, <2>3, <3>1 DEF Runs!BeginClosing, Promise!Runs!BeginClosing, ModeOfProcess
    <3> QED
      BY <1>1, <2>1, <2>3, <3>2 DEF Promise!Close, Promise!MainStep, Promise!Next
  <2> QED BY <2>2, <2>3
<1>3. ASSUME NEW p \in Probe, CancelFuture(p), PClosing
      PROVE  UNCHANGED Promise!vars
  <2>1. UNCHANGED Runs!rvars
    BY <1>3, CancelImplements
  <2> QED
    BY <1>1, <1>3, <2>1
       DEF PClosing, loopVars, Runs!rvars, ModeOfProcess, Promise!vars,
           Promise!runVars, Promise!loopVars
<1>4. CASE Shutdown /\ PClosing
  <2>1. UNCHANGED <<future, result, record, once, ModeBar>>
    BY <1>1, <1>4 DEF Shutdown, ModeBar
  <2> QED
    BY <1>1, <1>4, <2>1, PromiseUntouched
       DEF PClosing, loopVars, Promise!vars, Promise!loopVars
<1>5. CASE PClosed
  <2>1. Promise!Main!Return
    BY <1>5 DEF PClosed, Main!Return, Main!passVars, Main!fileVars,
       Promise!Main!Return, Promise!Main!passVars, Promise!Main!fileVars
  <2>2. ~once
    BY <1>5 DEF PClosed, Main!Return, Together
  <2>3. Runs!EndClosing
    BY <1>5, CloseDoneImplements DEF PClosed
  <2>4. Promise!Runs!EndClosing
    BY <1>1, <2>2, <2>3 DEF Runs!EndClosing, Promise!Runs!EndClosing, ModeOfProcess
  <2> QED
    BY <1>1, <2>1, <2>4 DEF Promise!Closed, Promise!MainStep, Promise!Next
<1> QED BY <1>2, <1>3, <1>4, <1>5 DEF PClosing

(* The worker threads, while the main thread is anywhere.                  *)
LEMMA WorkKeepsPromise ==
    ASSUME PoolInv, Together, PWork PROVE Promise!Next \/ UNCHANGED Promise!vars
<1>1. /\ ~once /\ UNCHANGED <<once, ToReapBar>>
      /\ UNCHANGED Promise!loopVars
  BY DEF PWork, WorkerTake, WorkerFinish, Together, loopVars, Promise!loopVars,
         ToReapBar
<1>2. ModeOfProcess = ModeBar /\ ModeOfProcess' = ModeBar'
  BY <1>1 DEF ModeOfProcess
<1>3. ASSUME NEW w \in Worker, WorkerTake(w)
      PROVE  Promise!Next \/ UNCHANGED Promise!vars
  <2>1. Head(queue) \in Probe
    BY <1>3, HeadTailProperties DEF PoolInv, TypeOK, WorkerTake
  <2>2. CASE Runs!Begin(Head(queue))
    <3>1. Promise!Runs!Begin(Head(queue))
      BY <1>2, <2>2 DEF Runs!Begin, Promise!Runs!Begin
    <3> QED BY <1>1, <2>1, <3>1 DEF Promise!Work, Promise!Next
  <2>3. CASE UNCHANGED Runs!rvars
    BY <1>1, <1>2, <2>3 DEF Runs!rvars, Promise!vars, Promise!runVars
  <2> QED BY <1>3, <2>2, <2>3, TakeImplements
<1>4. ASSUME NEW w \in Worker, WorkerFinish(w) PROVE Promise!Next
  <2>1. worker[w] \in Probe
    BY <1>4 DEF PoolInv, TypeOK, WorkerFinish
  <2>2. Runs!Finish(worker[w])
    BY <1>4, FinishImplements
  <2>3. Promise!Runs!Finish(worker[w])
    BY <1>2, <2>2 DEF Runs!Finish, Promise!Runs!Finish, Runs!ErrorOutcome,
       Promise!Runs!ErrorOutcome, Runs!Failed, Promise!Runs!Failed, Runs!Outcome,
       Promise!Runs!Outcome
  <2> QED BY <1>1, <2>1, <2>3 DEF Promise!Work, Promise!Next
<1> QED BY <1>3, <1>4 DEF PWork

(* Every step of the process is a step of Provider, or one it does not     *)
(* see.                                                                    *)
LEMMA StepKeepsPromise ==
    PoolInv /\ Together /\ [PNext]_pvars => [Promise!Next]_Promise!vars
<1> SUFFICES ASSUME PoolInv, Together, [PNext]_pvars
             PROVE  Promise!Next \/ UNCHANGED Promise!vars
  OBVIOUS
<1>1. ASSUME UNCHANGED <<future, result, record, pc, toCheck, loopVars>>
      PROVE  UNCHANGED Promise!vars
  BY <1>1, PromiseUntouched
     DEF ModeBar, ToReapBar, loopVars, Promise!vars, Promise!loopVars
<1>2. CASE PElapse \/ PEnded \/ UNCHANGED pvars
  BY <1>1, <1>2 DEF PElapse, Elapse, PEnded, pvars, vars, poolVars
<1> QED
  BY <1>2, LoopKeepsPromise, CollectKeepsPromise, TickKeepsPromise,
     CloseKeepsPromise, WorkKeepsPromise DEF PNext, PMain

(* The whole process, with its threads, is what Provider says it is.       *)
THEOREM ProcessImplementsProvider == PSpec => ImplementsProvider
BY PromiseInit, StepKeepsPromise, ProcessIsManager, PoolCorrect, StaysTogether, PTL
   DEF PSpec, ImplementsProvider, Promise!Spec

(* The theorems of Provider, about the process: Shown is the same instance *)
(* as Promise, of the module that holds them.                              *)
Shown == INSTANCE Provider_proofs WITH
    Allowed <- {S \in SUBSET Probe : Cardinality(S) <= MaxWorkers},
    phase <- PhaseBar, outcome <- OutcomeBar, mode <- ModeOfProcess,
    toReap <- ToReapBar

KeptPromises ==
    /\ Promise!FileShowsRecords /\ Promise!FirstDocumentComplete
    /\ Promise!ExitIsQuiet /\ Promise!StopEndsWriting

(* The two instances have the same initial states and the same steps.      *)
LEMMA ShownIsPromise ==
    /\ Promise!Init => Shown!Init
    /\ [Promise!Next]_Promise!vars => [Shown!Next]_Shown!vars
<1>1. Promise!Init => Shown!Init
  BY DEF Promise!Init, Shown!Init, Promise!Main!Init, Shown!Main!Init,
         Promise!NewRecord, Shown!NewRecord
<1>2. [Promise!Next]_Promise!vars => [Shown!Next]_Shown!vars
  BY DEF Promise!Next, Shown!Next, Promise!MainStep, Shown!MainStep,
         Promise!Alone, Shown!Alone, Promise!Collect, Shown!Collect,
         Promise!EndTick, Shown!EndTick, Promise!Close, Shown!Close,
         Promise!Closed, Shown!Closed, Promise!Skip, Shown!Skip, Promise!Reap,
         Shown!Reap, Promise!Submit, Shown!Submit, Promise!Signal,
         Shown!Signal, Promise!Work, Shown!Work, Promise!Ended, Shown!Ended,
         Promise!vars, Shown!vars, Promise!runVars, Shown!runVars,
         Promise!loopVars, Shown!loopVars, Promise!Runs!InProgress,
         Shown!Runs!InProgress, Promise!Runs!Start, Shown!Runs!Start,
         Promise!Runs!Begin, Shown!Runs!Begin, Promise!Runs!Finish,
         Shown!Runs!Finish, Promise!Runs!Publish, Shown!Runs!Publish,
         Promise!Runs!BeginClosing, Shown!Runs!BeginClosing,
         Promise!Runs!EndClosing, Shown!Runs!EndClosing, Promise!Runs!Apply,
         Shown!Runs!Apply, Promise!Runs!UpdateValues, Shown!Runs!UpdateValues,
         Promise!Runs!ErrorOutcome, Shown!Runs!ErrorOutcome,
         Promise!Runs!Failed, Shown!Runs!Failed, Promise!Runs!Outcome,
         Shown!Runs!Outcome, Promise!Main!Top, Shown!Main!Top,
         Promise!Main!RunDue, Shown!Main!RunDue, Promise!Main!Due,
         Shown!Main!Due, Promise!Main!Health, Shown!Main!Health,
         Promise!Main!AfterTick, Shown!Main!AfterTick,
         Promise!Main!CopyRecords, Shown!Main!CopyRecords, Promise!Main!Alone,
         Shown!Main!Alone, Promise!Main!Write, Shown!Main!Write,
         Promise!Main!Written, Shown!Main!Written, Promise!Main!WriteFails,
         Shown!Main!WriteFails, Promise!Main!LockEvent, Shown!Main!LockEvent,
         Promise!Main!Sleep, Shown!Main!Sleep, Promise!Main!Wake,
         Shown!Main!Wake, Promise!Main!Unlock, Shown!Main!Unlock,
         Promise!Main!Signal, Shown!Main!Signal, Promise!Main!Leave,
         Shown!Main!Leave, Promise!Main!Return, Shown!Main!Return,
         Promise!Main!passVars, Shown!Main!passVars, Promise!Main!fileVars,
         Shown!Main!fileVars
<1> QED BY <1>1, <1>2

(* With the executor's threads in their real places, the document shows    *)
(* the records its pass left and every source, no probe outlives the       *)
(* provider, and a stop ends the writing.                                  *)
THEOREM ProcessKeepsPromises == PSpec => []KeptPromises
<1>1. Shown!Spec => []Shown!ProviderInv
  BY Shown!ProviderCorrect, SourceAssumption, ReadingAssumption, EpochAssumption, PTL
<1>2. Shown!ProviderInv => KeptPromises
  BY DEF KeptPromises, Shown!ProviderInv, Promise!FileShowsRecords,
         Shown!FileShowsRecords, Promise!FirstDocumentComplete,
         Shown!FirstDocumentComplete, Promise!ExitIsQuiet, Shown!ExitIsQuiet,
         Promise!StopEndsWriting, Shown!StopEndsWriting, Promise!BetweenPasses,
         Shown!BetweenPasses
<1> QED
  BY <1>1, <1>2, ShownIsPromise, ProcessImplementsProvider, PTL
     DEF ImplementsProvider, Promise!Spec, Shown!Spec
=============================================================================
