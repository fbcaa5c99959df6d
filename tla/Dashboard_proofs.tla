------------------------- MODULE Dashboard_proofs --------------------------
(***************************************************************************)
(* LiveIsRecent and PacedIsLive of Dashboard, for every resolution of time,*)
(* every frame rate, every length of the passes and every number and size  *)
(* of the clock's steps; the second, where frames and passes are frequent  *)
(* enough (Brisk).                                                         *)
(***************************************************************************)
EXTENDS Dashboard, TLAPS

(* The seconds by which the clock may still be set back.                   *)
Ahead == jumps * Jump

(* A document's age on the wall clock is right, to the second, up to what  *)
(* the clock was set by; or it is so great that no later step of the clock *)
(* makes the document fresh.                                               *)
Dated(d, s, a) ==
    \/ d = Nil
    \/ /\ d \in [wall : Int, real : Int, set : Int, own : BOOLEAN]
       /\ d.wall >= FreshFor + 1 + a \/ d.real <= Second * (d.wall - d.set) + s

DatedInv ==
    /\ sub \in 0..(Second - 1) /\ jumps \in 0..MaxJumps
    /\ Dated(pending, sub, Ahead)
    /\ Dated(file, sub, Ahead)
    /\ Dated(lastValid, sub, Ahead)

LEMMA AheadBound ==
    ASSUME NEW n \in 0..MaxJumps
    PROVE  /\ n * Jump \in Nat /\ Reach \in Nat
           /\ n * Jump <= Reach
           /\ n > 0 => (n - 1) * Jump = n * Jump - Jump
<1>1. n * Jump \in Nat /\ Reach \in Nat
  BY DashboardAssumption DEF Reach
<1>2. (MaxJumps - n) * Jump \in Nat
  BY DashboardAssumption
<1>3. (MaxJumps - n) * Jump = Reach - n * Jump
  BY DashboardAssumption DEF Reach
<1>4. (n - 1) * Jump = n * Jump - Jump
  BY DashboardAssumption
<1> QED BY <1>1, <1>2, <1>3, <1>4

LEMMA InitInv == Init => DatedInv
<1> SUFFICES ASSUME Init PROVE DatedInv
  OBVIOUS
<1>1. sub \in 0..(Second - 1) /\ jumps = MaxJumps /\ MaxJumps \in 0..MaxJumps
  BY DashboardAssumption DEF Init
<1>2. Ahead \in Nat /\ Ahead = Reach
  BY <1>1, AheadBound DEF Ahead, Reach
<1>3. Second * (0 - 0) = 0
  BY DashboardAssumption
<1>4. ASSUME NEW d \in LeftBehind PROVE Dated(d, sub, Ahead)
  <2>1. Old \in Int /\ Old = FreshFor + 1 + Ahead
    BY <1>2 DEF Old, FreshFor
  <2>2. Forever \in Int
    BY <1>2, <2>1, DashboardAssumption DEF Forever
  <2> HIDE DEF Old, Forever
  <2>3. CASE d = [wall |-> 0, real |-> 0, set |-> 0, own |-> FALSE]
    BY <1>1, <1>3, <2>3, DashboardAssumption DEF Dated
  <2>4. CASE d = [wall |-> Old, real |-> Forever, set |-> 0, own |-> FALSE]
    BY <2>1, <2>2, <2>4 DEF Dated
  <2>5. CASE d = Nil
    BY <2>5 DEF Dated
  <2> QED
    BY <1>4, <2>3, <2>4, <2>5 DEF LeftBehind
<1> QED BY <1>1, <1>4 DEF Init, DatedInv, LeftBehind, Dated

(* A unit of time moves the age on the wall clock when its second is over. *)
LEMMA AgedIsDated ==
    ASSUME NEW d, sub \in 0..(Second - 1), jumps \in 0..MaxJumps,
           Dated(d, sub, Ahead)
    PROVE  Dated(Aged(d), (sub + 1) % Second, Ahead)
<1> SUFFICES ASSUME d # Nil PROVE Dated(Aged(d), (sub + 1) % Second, Ahead)
  BY DEF Dated, Aged
<1> DEFINE e == Aged(d)
<1>1. /\ Ahead \in Nat /\ Reach \in Nat /\ Ahead <= Reach
      /\ Old \in Int /\ Old >= FreshFor + 1 + Ahead
  BY AheadBound DEF Ahead, Old, FreshFor
<1>2. Forever \in Int
  BY <1>1, DashboardAssumption DEF Forever
<1>3. d \in [wall : Int, real : Int, set : Int, own : BOOLEAN]
  BY DEF Dated
<1>4. /\ e \in [wall : Int, real : Int, set : Int, own : BOOLEAN]
      /\ e.set = d.set /\ e.real <= d.real + 1
      /\ e.wall = IF sub = Second - 1 THEN Least(Old, d.wall + 1) ELSE d.wall
  <2>1. e = [d EXCEPT !.real = Least(Forever, @ + 1),
                      !.wall = IF sub = Second - 1 THEN Least(Old, @ + 1) ELSE @]
    BY DEF Aged
  <2>2. Least(Forever, d.real + 1) \in Int /\ Least(Forever, d.real + 1) <= d.real + 1
    BY <1>2, <1>3 DEF Least
  <2>3. Least(Old, d.wall + 1) \in Int
    BY <1>1, <1>3 DEF Least
  <2> HIDE DEF e
  <2> QED BY <1>3, <2>1, <2>2, <2>3
<1>5. /\ Second * (d.wall - d.set) \in Int
      /\ Second * (d.wall + 1 - d.set) = Second * (d.wall - d.set) + Second
  BY <1>3, DashboardAssumption
<1>6. CASE sub = Second - 1
  <2>1. (sub + 1) % Second = 0
    BY <1>6, DashboardAssumption
  <2>2. CASE e.wall = Old
    BY <1>1, <1>4, <2>2 DEF Dated
  <2>3. CASE e.wall = d.wall + 1
    BY <1>1, <1>3, <1>4, <1>5, <1>6, <2>1, <2>3, DashboardAssumption DEF Dated, FreshFor
  <2> QED BY <1>4, <1>6, <2>2, <2>3 DEF Least
<1>7. CASE sub # Second - 1
  <2>1. (sub + 1) % Second = sub + 1
    BY <1>7, DashboardAssumption
  <2> QED BY <1>1, <1>3, <1>4, <1>5, <1>7, <2>1, DashboardAssumption DEF Dated, FreshFor
<1> QED BY <1>6, <1>7

(* A step of the clock moves the age and the record of the steps alike.    *)
LEMMA ResetIsDated ==
    ASSUME NEW d, NEW k \in {Jump, -Jump}, sub \in 0..(Second - 1),
           jumps \in 1..MaxJumps, Dated(d, sub, Ahead)
    PROVE  Dated(Reset(d, k), sub, (jumps - 1) * Jump)
<1> SUFFICES ASSUME d # Nil PROVE Dated(Reset(d, k), sub, (jumps - 1) * Jump)
  BY DEF Dated, Reset
<1> DEFINE e == Reset(d, k)
<1>1. /\ Ahead \in Nat /\ Reach \in Nat /\ Ahead <= Reach
      /\ (jumps - 1) * Jump = Ahead - Jump
      /\ Old \in Int /\ Old >= FreshFor + 1 + Ahead
  BY AheadBound, DashboardAssumption DEF Ahead, Old, FreshFor
<1>2. d \in [wall : Int, real : Int, set : Int, own : BOOLEAN]
  BY DEF Dated
<1>3. k \in Int /\ k >= -Jump /\ Jump \in Nat
  BY DashboardAssumption
<1>4. /\ e \in [wall : Int, real : Int, set : Int, own : BOOLEAN]
      /\ e.set = d.set + k /\ e.real = d.real
      /\ e.wall = Least(Old, d.wall + k)
  <2>1. e = [d EXCEPT !.wall = Least(Old, @ + k), !.set = @ + k]
    BY DEF Reset
  <2>2. Least(Old, d.wall + k) \in Int /\ d.set + k \in Int
    BY <1>1, <1>2, <1>3 DEF Least
  <2> HIDE DEF e
  <2> QED BY <1>2, <2>1, <2>2
<1> HIDE DEF e
<1>5. CASE e.wall = Old
  <2>1. e.wall >= FreshFor + 1 + (jumps - 1) * Jump
    BY <1>1, <1>3, <1>5 DEF FreshFor
  <2>2. Dated(e, sub, (jumps - 1) * Jump)
    BY <1>4, <2>1 DEF Dated
  <2> QED BY <2>2 DEF e
<1>6. CASE e.wall = d.wall + k
  <2>1. e.wall - e.set = d.wall - d.set
    BY <1>2, <1>3, <1>4, <1>6
  <2>2. ASSUME d.wall >= FreshFor + 1 + Ahead
        PROVE  e.wall >= FreshFor + 1 + (jumps - 1) * Jump
    BY <1>1, <1>2, <1>3, <1>4, <1>6, <2>2 DEF FreshFor
  <2>3. ASSUME d.real <= Second * (d.wall - d.set) + sub
        PROVE  e.real <= Second * (e.wall - e.set) + sub
    BY <1>4, <2>1, <2>3
  <2>4. Dated(e, sub, (jumps - 1) * Jump)
    BY <1>4, <2>2, <2>3 DEF Dated
  <2> QED BY <2>4 DEF e
<1> QED BY <1>4, <1>5, <1>6 DEF Least

LEMMA StampIsDated ==
    ASSUME sub \in 0..(Second - 1), NEW a PROVE Dated(Stamped, sub, a)
<1>1. Second * (0 - 0) = 0
  BY DashboardAssumption
<1> QED BY <1>1, DashboardAssumption DEF Dated, Stamped

LEMMA NextKeepsInv == DatedInv /\ [Next]_vars => DatedInv'
<1> SUFFICES ASSUME DatedInv, [Next]_vars PROVE DatedInv'
  OBVIOUS
<1>1. CASE Tick
  <2>1. (sub + 1) % Second \in 0..(Second - 1)
    BY DashboardAssumption DEF DatedInv
  <2>2. Ahead' = Ahead
    BY <1>1 DEF Tick, Ahead
  <2> QED BY <1>1, <2>1, <2>2, AgedIsDated DEF Tick, DatedInv
<1>2. ASSUME NEW k \in {Jump, -Jump}, SetClock(k) PROVE DatedInv'
  <2>1. /\ jumps \in 1..MaxJumps /\ jumps' = jumps - 1 /\ jumps' \in 0..MaxJumps
        /\ sub' = sub
    BY <1>2, DashboardAssumption DEF SetClock, DatedInv
  <2>2. Ahead' = (jumps - 1) * Jump
    BY <2>1 DEF Ahead
  <2> QED BY <1>2, <2>1, <2>2, ResetIsDated DEF SetClock, DatedInv
<1>3. CASE StartPass
  BY <1>3 DEF StartPass, DatedInv, documents, clock, Ahead
<1>4. CASE Collect
  <2>1. pending' = pending \/ pending' = Stamped
    BY <1>4 DEF Collect
  <2>2. UNCHANGED <<file, lastValid, sub, jumps, Ahead>>
    BY <1>4 DEF Collect, clock, Ahead
  <2> QED BY <2>1, <2>2, StampIsDated DEF DatedInv
<1>5. CASE FinishPass
  BY <1>5 DEF FinishPass, DatedInv, clock, Ahead, Dated
<1>6. CASE Hang
  BY <1>6 DEF Hang, DatedInv, clock, Ahead, Dated
<1>7. CASE Draw
  BY <1>7 DEF Draw, DatedInv, clock, Ahead
<1>8. CASE UNCHANGED vars
  BY <1>8 DEF vars, documents, clock, DatedInv, Ahead
<1> QED BY <1>1, <1>2, <1>3, <1>4, <1>5, <1>6, <1>7, <1>8 DEF Next

(* Values drawn as LIVE were stamped less than four seconds before, but    *)
(* for what the clock was set back by.                                     *)
THEOREM DrawnAsLiveIsRecent == Spec => LiveIsRecent
<1>1. DatedInv /\ [Next]_vars
        => [Draw /\ live' => lastValid'.real < (FreshFor + 1 - lastValid'.set) * Second]_vars
  <2> SUFFICES ASSUME DatedInv, [Next]_vars, Draw, live'
               PROVE lastValid'.real < (FreshFor + 1 - lastValid'.set) * Second
    OBVIOUS
  <2> DEFINE d == lastValid'
  <2>1. /\ Dated(d, sub, Ahead) /\ d # Nil /\ d.wall <= FreshFor
        /\ sub \in 0..(Second - 1) /\ Ahead \in Nat
    BY AheadBound DEF Draw, CacheFresh, DatedInv, Ahead
  <2> HIDE DEF d
  <2>2. /\ d.wall \in Int /\ d.real \in Int /\ d.set \in Int
        /\ d.real <= Second * (d.wall - d.set) + sub
    BY <2>1 DEF Dated, FreshFor
  <2>3. PICK n \in Nat : FreshFor - d.wall = n
    BY <2>1, <2>2 DEF FreshFor
  <2>4. /\ (FreshFor + 1 - d.set) * Second
             = Second * (d.wall - d.set) + Second * n + Second
        /\ Second * n \in Nat
    BY <2>2, <2>3, DashboardAssumption DEF FreshFor
  <2>5. d.real < (FreshFor + 1 - d.set) * Second
    BY <2>1, <2>2, <2>4, DashboardAssumption
  <2> QED BY <2>5 DEF d
<1> QED BY <1>1, InitInv, NextKeepsInv, PTL DEF Spec, LiveIsRecent

-----------------------------------------------------------------------------
(* A provider on pace.                                                     *)

(* The wall clock has not begun more seconds since the stamp than there    *)
(* were, one more than are over, and what it was set by.                   *)
OnTheClock(d, s) ==
    d = Nil \/ (d.real < Forever
                  => Second * (d.wall - d.set) + s <= d.real + Second - 1)

ClockInv == /\ OnTheClock(pending, sub)
            /\ OnTheClock(file, sub)
            /\ OnTheClock(lastValid, sub)

LEMMA AgedOnTheClock ==
    ASSUME NEW d, sub \in 0..(Second - 1), jumps \in 0..MaxJumps,
           Dated(d, sub, Ahead), OnTheClock(d, sub)
    PROVE  OnTheClock(Aged(d), (sub + 1) % Second)
<1> SUFFICES ASSUME d # Nil, Aged(d).real < Forever
             PROVE  Second * (Aged(d).wall - Aged(d).set) + ((sub + 1) % Second)
                        <= Aged(d).real + Second - 1
  BY DEF OnTheClock, Aged
<1> DEFINE e == Aged(d)
<1>1. Old \in Int /\ Forever \in Int
  BY AheadBound, DashboardAssumption DEF Ahead, Old, Forever, FreshFor
<1>2. d \in [wall : Int, real : Int, set : Int, own : BOOLEAN]
  BY DEF Dated
<1>3. /\ e.set = d.set /\ e.real = Least(Forever, d.real + 1)
      /\ e.wall = IF sub = Second - 1 THEN Least(Old, d.wall + 1) ELSE d.wall
  BY <1>2 DEF Aged
<1> HIDE DEF e
<1>4. e.real = d.real + 1 /\ d.real < Forever
  <2>1. e.real < Forever
    BY DEF e
  <2> QED BY <1>1, <1>2, <1>3, <2>1 DEF Least
<1>5. Second * (d.wall - d.set) + sub <= d.real + Second - 1
  BY <1>4 DEF OnTheClock
<1>6. /\ Second * (d.wall - d.set) \in Int
      /\ Second * (d.wall + 1 - d.set) = Second * (d.wall - d.set) + Second
  BY <1>2, DashboardAssumption
<1>7. CASE sub = Second - 1
  <2>1. (sub + 1) % Second = 0
    BY <1>7, DashboardAssumption
  <2>2. PICK n \in Nat : e.wall = d.wall + 1 - n
    <3>1. e.wall \in Int /\ e.wall <= d.wall + 1
      BY <1>1, <1>2, <1>3, <1>7 DEF Least
    <3>2. d.wall + 1 - e.wall \in Nat /\ e.wall = d.wall + 1 - (d.wall + 1 - e.wall)
      BY <1>2, <3>1
    <3> QED BY <3>2
  <2>3. /\ Second * (e.wall - e.set) = Second * (d.wall + 1 - d.set) - Second * n
        /\ Second * n \in Nat
    BY <1>2, <1>3, <2>2, DashboardAssumption
  <2>4. Second * (e.wall - e.set) + 0 <= e.real + Second - 1
    BY <1>2, <1>4, <1>5, <1>6, <1>7, <2>3, DashboardAssumption
  <2> QED BY <2>1, <2>4 DEF e
<1>8. CASE sub # Second - 1
  <2>1. (sub + 1) % Second = sub + 1
    BY <1>8, DashboardAssumption
  <2>2. Second * (e.wall - e.set) + (sub + 1) <= e.real + Second - 1
    BY <1>2, <1>3, <1>4, <1>5, <1>6, <1>8, DashboardAssumption
  <2> QED BY <2>1, <2>2 DEF e
<1> QED BY <1>7, <1>8

LEMMA ResetOnTheClock ==
    ASSUME NEW d, NEW k \in {Jump, -Jump}, sub \in 0..(Second - 1),
           jumps \in 0..MaxJumps, Dated(d, sub, Ahead), OnTheClock(d, sub)
    PROVE  OnTheClock(Reset(d, k), sub)
<1> SUFFICES ASSUME d # Nil, Reset(d, k).real < Forever
             PROVE  Second * (Reset(d, k).wall - Reset(d, k).set) + sub
                        <= Reset(d, k).real + Second - 1
  BY DEF OnTheClock, Reset
<1> DEFINE e == Reset(d, k)
<1>1. Old \in Int /\ k \in Int
  BY AheadBound, DashboardAssumption DEF Ahead, Old, FreshFor
<1>2. d \in [wall : Int, real : Int, set : Int, own : BOOLEAN]
  BY DEF Dated
<1>3. e.set = d.set + k /\ e.real = d.real /\ e.wall = Least(Old, d.wall + k)
  BY <1>2 DEF Reset
<1> HIDE DEF e
<1>4. Second * (d.wall - d.set) + sub <= d.real + Second - 1
  BY <1>3 DEF OnTheClock, e
<1>5. PICK n \in Nat : e.wall = d.wall + k - n
  <2>1. e.wall \in Int /\ e.wall <= d.wall + k
    BY <1>1, <1>2, <1>3 DEF Least
  <2>2. d.wall + k - e.wall \in Nat /\ e.wall = d.wall + k - (d.wall + k - e.wall)
    BY <1>1, <1>2, <2>1
  <2> QED BY <2>2
<1>6. e.wall - e.set = d.wall - d.set - n
  BY <1>1, <1>2, <1>3, <1>5
<1>7. /\ Second * (e.wall - e.set) = Second * (d.wall - d.set) - Second * n
      /\ Second * n \in Nat /\ Second * (d.wall - d.set) \in Int
  BY <1>2, <1>6, DashboardAssumption
<1>8. Second * (e.wall - e.set) + sub <= e.real + Second - 1
  BY <1>2, <1>3, <1>4, <1>7, DashboardAssumption
<1> QED BY <1>8 DEF e

LEMMA StampOnTheClock ==
    ASSUME sub \in 0..(Second - 1) PROVE OnTheClock(Stamped, sub)
<1>1. Second * (0 - 0) = 0
  BY DashboardAssumption
<1> QED BY <1>1, DashboardAssumption DEF OnTheClock, Stamped

LEMMA InitClock == Init => ClockInv
<1> SUFFICES ASSUME Init, NEW d \in LeftBehind PROVE OnTheClock(d, sub)
  BY DEF Init, ClockInv, LeftBehind
<1>1. Second * (0 - 0) = 0 /\ Forever \in Int
  BY AheadBound, DashboardAssumption DEF Forever, Old, FreshFor, Reach
<1> QED BY <1>1, DashboardAssumption DEF LeftBehind, OnTheClock, Init

LEMMA NextKeepsClock ==
    DatedInv /\ ClockInv /\ [Next]_vars => ClockInv'
<1> SUFFICES ASSUME DatedInv, ClockInv, [Next]_vars PROVE ClockInv'
  OBVIOUS
<1>1. CASE Tick
  BY <1>1, AgedOnTheClock DEF Tick, DatedInv, ClockInv
<1>2. ASSUME NEW k \in {Jump, -Jump}, SetClock(k) PROVE ClockInv'
  BY <1>2, ResetOnTheClock DEF SetClock, DatedInv, ClockInv
<1>3. CASE Collect
  <2>1. pending' = pending \/ pending' = Stamped
    BY <1>3 DEF Collect
  <2> QED BY <1>3, <2>1, StampOnTheClock DEF Collect, clock, DatedInv, ClockInv
<1>4. CASE StartPass \/ FinishPass \/ Hang \/ Draw \/ UNCHANGED vars
  BY <1>4 DEF StartPass, FinishPass, Hang, Draw, vars, documents, clock, ClockInv,
              OnTheClock
<1> QED BY <1>1, <1>2, <1>3, <1>4 DEF Next

-----------------------------------------------------------------------------
(* The ranges of the model.  What the clock was set by, so far, is what a  *)
(* document can have been moved by.                                        *)
Typed(d, r) ==
    d # Nil => /\ d \in Document
               /\ d.wall >= -r /\ d.set >= -r /\ d.set <= r

TypeInv ==
    /\ {alive, live, paced} \subseteq BOOLEAN
    /\ at \in {"waiting", "collecting", "writing"}
    /\ lag \in 0..MaxBlock /\ wakeIn \in 0..MaxWait /\ dueIn \in Int
    /\ readCounter \in 0..(RereadEvery - 1) /\ frameIn \in 0..Frame
    /\ sub \in 0..(Second - 1) /\ jumps \in 0..MaxJumps
    /\ \A d \in {pending, file, lastValid} : Typed(d, Reach - Ahead)

LEMMA Ranges ==
    ASSUME jumps \in 0..MaxJumps
    PROVE  /\ Ahead \in Nat /\ Reach \in Nat /\ Ahead <= Reach
           /\ Old \in Nat /\ Old = FreshFor + 1 + Reach /\ Forever \in Nat
           /\ jumps > 0 => (jumps - 1) * Jump = Ahead - Jump
<1>1. Ahead \in Nat /\ Reach \in Nat /\ Ahead <= Reach
  BY AheadBound DEF Ahead
<1>2. Old \in Nat /\ Old = FreshFor + 1 + Reach
  BY <1>1 DEF Old, FreshFor
<1>3. Old + Reach \in Nat
  BY <1>1, <1>2
<1>4. Forever \in Nat
  BY <1>3, DashboardAssumption DEF Forever
<1> QED BY <1>1, <1>2, <1>4, AheadBound DEF Ahead

LEMMA InitTypes == Init => TypeInv
<1> SUFFICES ASSUME Init PROVE TypeInv
  OBVIOUS
<1>1. jumps = MaxJumps /\ MaxJumps \in 0..MaxJumps
  BY DashboardAssumption DEF Init
<1>2. /\ Ahead = Reach /\ Reach \in Nat /\ Old \in Nat /\ Forever \in Nat
  BY <1>1, Ranges DEF Ahead, Reach
<1> HIDE DEF Reach, Old, Forever
<1>3. ASSUME NEW d \in LeftBehind PROVE Typed(d, Reach - Ahead)
  <2>1. Reach - Ahead \in Nat /\ 0 \in (-Reach)..Old /\ 0 \in (-Reach)..Reach
    BY <1>2
  <2>2. CASE d = [wall |-> 0, real |-> 0, set |-> 0, own |-> FALSE]
    BY <1>2, <2>1, <2>2 DEF Typed, Document
  <2>3. CASE d = [wall |-> Old, real |-> Forever, set |-> 0, own |-> FALSE]
    BY <1>2, <2>1, <2>3 DEF Typed, Document
  <2> QED BY <1>3, <2>2, <2>3 DEF LeftBehind, Typed
<1>4. \A d \in {pending, file, lastValid} : Typed(d, Reach - Ahead)
  BY <1>3 DEF Init, LeftBehind
<1>5. sub \in 0..(Second - 1)
  BY DEF Init
<1>6. /\ lag \in 0..MaxBlock /\ wakeIn \in 0..MaxWait /\ dueIn \in Int
      /\ readCounter \in 0..(RereadEvery - 1) /\ frameIn \in 0..Frame
  BY DashboardAssumption DEF Init, RereadEvery
<1>7. {alive, live, paced} \subseteq BOOLEAN /\ at \in {"waiting", "collecting", "writing"}
  BY DEF Init
<1> QED BY <1>1, <1>4, <1>5, <1>6, <1>7 DEF TypeInv

LEMMA AgedIsTyped ==
    ASSUME NEW d, NEW r \in 0..Reach, jumps \in 0..MaxJumps, Typed(d, r)
    PROVE  Typed(Aged(d), r)
<1> SUFFICES ASSUME d # Nil PROVE Typed(Aged(d), r)
  BY DEF Typed, Aged
<1>1. Reach \in Nat /\ Old \in Nat /\ Forever \in Nat
  BY Ranges
<1> HIDE DEF Reach, Old, Forever
<1>2. d \in Document /\ d.wall >= -r
  BY DEF Typed
<1>3. /\ Least(Forever, d.real + 1) \in 0..Forever
      /\ d.wall \in (-Reach)..Old /\ d.set \in (-Reach)..Reach
      /\ Least(Old, d.wall + 1) \in (-Reach)..Old /\ Least(Old, d.wall + 1) >= -r
  BY <1>1, <1>2 DEF Least, Document
<1>4. /\ Aged(d) \in Document /\ Aged(d).set = d.set
      /\ Aged(d).wall \in {d.wall, Least(Old, d.wall + 1)}
  <2> HIDE DEF Least
  <2> QED BY <1>2, <1>3 DEF Aged, Document
<1> QED BY <1>2, <1>3, <1>4 DEF Typed

LEMMA ResetIsTyped ==
    ASSUME NEW d, NEW r \in Nat, NEW k \in {Jump, -Jump}, r + Jump <= Reach,
           jumps \in 0..MaxJumps, Typed(d, r)
    PROVE  Typed(Reset(d, k), r + Jump)
<1> SUFFICES ASSUME d # Nil PROVE Typed(Reset(d, k), r + Jump)
  BY DEF Typed, Reset
<1>1. /\ Reach \in Nat /\ Old \in Nat /\ Forever \in Nat /\ Jump \in Nat
      /\ k \in Int /\ k >= -Jump /\ k <= Jump
  BY Ranges, DashboardAssumption
<1> HIDE DEF Reach, Old, Forever
<1>2. d \in Document /\ d.wall >= -r /\ d.set >= -r /\ d.set <= r
  BY DEF Typed
<1>3. /\ d.wall \in Int /\ d.set \in Int
      /\ Least(Old, d.wall + k) \in (-Reach)..Old
      /\ Least(Old, d.wall + k) >= -(r + Jump)
      /\ d.set + k \in (-Reach)..Reach
      /\ d.set + k >= -(r + Jump) /\ d.set + k <= r + Jump
  BY <1>1, <1>2 DEF Least, Document
<1>4. /\ Reset(d, k) \in Document /\ Reset(d, k).set = d.set + k
      /\ Reset(d, k).wall = Least(Old, d.wall + k)
  <2> HIDE DEF Least
  <2> QED BY <1>2, <1>3 DEF Reset, Document
<1> QED BY <1>3, <1>4 DEF Typed

LEMMA NextTypes == TypeInv /\ [Next]_vars => TypeInv'
<1> SUFFICES ASSUME TypeInv, [Next]_vars PROVE TypeInv'
  OBVIOUS
<1> USE DashboardAssumption
<1>1. /\ Ahead \in Nat /\ Reach \in Nat /\ Ahead <= Reach /\ Reach - Ahead \in 0..Reach
      /\ Old \in Nat /\ Forever \in Nat
      /\ jumps > 0 => (jumps - 1) * Jump = Ahead - Jump
  BY Ranges DEF TypeInv
<1> HIDE DEF Reach, Ahead, Old, Forever
<1>2. CASE Tick
  <2>1. \A d \in {pending, file, lastValid} : Typed(Aged(d), Reach - Ahead)
    BY <1>1, AgedIsTyped DEF TypeInv
  <2>2. Ahead' = Ahead
    BY <1>2 DEF Tick, Ahead
  <2>3. \A d \in {pending', file', lastValid'} : Typed(d, Reach - Ahead')
    BY <1>2, <2>1, <2>2 DEF Tick
  <2>4. /\ lag' \in 0..MaxBlock /\ wakeIn' \in 0..MaxWait /\ dueIn' \in Int
    BY <1>2 DEF Tick, Elapse, TypeInv
  <2>5. frameIn' \in 0..Frame /\ sub' \in 0..(Second - 1)
    BY <1>2 DEF Tick, TypeInv
  <2>6. /\ {alive, live, paced}' \subseteq BOOLEAN /\ UNCHANGED <<at, readCounter, jumps>>
    <3>1. UNCHANGED <<alive, live, at, readCounter, jumps>> /\ paced' \in BOOLEAN
      BY <1>2 DEF Tick, Elapse
    <3> QED BY <3>1 DEF TypeInv
  <2> QED BY <2>3, <2>4, <2>5, <2>6 DEF TypeInv
<1>3. ASSUME NEW k \in {Jump, -Jump}, SetClock(k) PROVE TypeInv'
  <2>1. jumps > 0 /\ jumps' = jumps - 1 /\ jumps' \in 0..MaxJumps
    BY <1>3 DEF SetClock, TypeInv
  <2>2. Ahead' = Ahead - Jump /\ Ahead - Jump \in Nat
    <3>1. Ahead' = (jumps - 1) * Jump /\ (jumps - 1) \in Nat
      BY <2>1 DEF Ahead, TypeInv
    <3>2. (jumps - 1) * Jump \in Nat
      BY <3>1
    <3> QED BY <1>1, <2>1, <3>1, <3>2
  <2>3. /\ Reach - Ahead' = (Reach - Ahead) + Jump
        /\ (Reach - Ahead) + Jump <= Reach /\ Reach - Ahead \in Nat
    BY <1>1, <2>2
  <2>4. \A d \in {pending, file, lastValid} : Typed(Reset(d, k), Reach - Ahead')
    BY <2>3, ResetIsTyped DEF TypeInv
  <2>5. \A d \in {pending', file', lastValid'} : Typed(d, Reach - Ahead')
    BY <1>3, <2>4 DEF SetClock
  <2> QED BY <1>3, <2>1, <2>5 DEF SetClock, TypeInv, provider, frames
<1>4. CASE StartPass \/ Collect \/ FinishPass \/ Hang \/ Draw \/ UNCHANGED vars
  <2>1. Typed(Stamped, Reach - Ahead) /\ Typed(Nil, Reach - Ahead)
    BY <1>1 DEF Typed, Stamped, Document
  <2>2. /\ {pending', file', lastValid'} \subseteq {pending, file, lastValid, Stamped, Nil}
        /\ sub' = sub /\ jumps' = jumps
    BY <1>4 DEF StartPass, Collect, FinishPass, Hang, Draw, vars, documents, clock
  <2>3. Ahead' = Ahead
    BY <2>2 DEF Ahead
  <2>4. \A d \in {pending', file', lastValid'} : Typed(d, Reach - Ahead')
    <3> HIDE DEF Typed
    <3> QED BY <2>1, <2>2, <2>3 DEF TypeInv
  <2>5. /\ lag' \in 0..MaxBlock /\ wakeIn' \in 0..MaxWait /\ dueIn' \in Int
        /\ readCounter' \in 0..(RereadEvery - 1) /\ frameIn' \in 0..Frame
    BY <1>4 DEF StartPass, Collect, FinishPass, Hang, Draw, vars, provider, frames,
                TypeInv, RereadEvery
  <2>6. {alive', live', paced'} \subseteq BOOLEAN
        /\ at' \in {"waiting", "collecting", "writing"}
    BY <1>4 DEF StartPass, Collect, FinishPass, Hang, Draw, vars, provider, frames,
                clock, TypeInv, CacheFresh
  <2> QED BY <2>2, <2>4, <2>5, <2>6 DEF TypeInv
<1> QED BY <1>2, <1>3, <1>4 DEF Next

LEMMA TypesHold == Spec => []TypeInv
BY InitTypes, NextTypes, PTL DEF Spec

(* Every state of the provider's clock, the documents and the frames is    *)
(* well typed: ages that are clamped and times that are set stay in range. *)
THEOREM TypeCorrect == Spec => []TypeOK
<1>1. TypeInv => TypeOK
  BY DEF TypeInv, TypeOK, Typed
<1> QED BY <1>1, TypesHold, PTL

-----------------------------------------------------------------------------
(* How old the file and the document on the screen are, as long as the     *)
(* provider is on pace.                                                    *)

Own(d) == d # Nil /\ d.own

(* The frames for which lastValid was not read again.                      *)
FramesKept == IF readCounter = 0 THEN RereadEvery - 1 ELSE readCounter - 1

OldestFile == Second + 2 * GoodPass

(* A pass in progress when the source falls due ends within GoodPass, and  *)
(* the next begins at once; the file is replaced when that one ends.       *)
OnPace ==
    /\ lag <= GoodPass
    /\ at = "waiting" => /\ lag = 0 /\ dueIn >= -GoodPass
                         /\ wakeIn = 0 \/ wakeIn <= dueIn
    /\ at = "collecting" => dueIn + lag >= -GoodPass
    /\ at = "writing" => dueIn + lag > 0
    /\ pending # Nil => at = "writing" /\ pending.own /\ pending.real + dueIn <= Second
    /\ Own(file) => IF pending = Nil THEN file.real + dueIn <= Second
                                     ELSE file.real <= Second + GoodPass + lag
    /\ Own(lastValid) =>
          /\ Own(file)
          /\ lastValid.real + frameIn <= OldestFile + (FramesKept + 1) * Frame

PaceInv == alive /\ paced => OnPace

LEMMA RealAge ==
    ASSUME TypeInv, NEW d \in {pending, file, lastValid}, d # Nil
    PROVE  d.real \in Nat
<1>1. Forever \in Nat
  BY Ranges DEF TypeInv
<1> QED BY <1>1 DEF TypeInv, Typed, Document

(* Time makes a document older by a unit at most, and leaves it its own.   *)
LEMMA AgedAge ==
    ASSUME TypeInv, NEW d \in {pending, file, lastValid}
    PROVE  /\ Aged(d) = Nil <=> d = Nil
           /\ Own(Aged(d)) <=> Own(d)
           /\ d # Nil => /\ Aged(d).real <= d.real + 1 /\ Aged(d).real \in Int
                         /\ Aged(d).own = d.own
<1>1. Typed(Aged(d), Reach - Ahead) /\ Typed(d, Reach - Ahead) /\ Forever \in Nat
  <2>1. Reach - Ahead \in 0..Reach /\ Forever \in Nat
    BY Ranges DEF TypeInv
  <2> QED BY <2>1, AgedIsTyped DEF TypeInv
<1>2. CASE d = Nil
  BY <1>2 DEF Aged, Own
<1>3. CASE d # Nil
  <2>1. d \in [wall : (-Reach)..Old, real : 0..Forever, set : (-Reach)..Reach,
               own : BOOLEAN]
    BY <1>1, <1>3 DEF Typed, Document
  <2>2. /\ Aged(d).own = d.own /\ Aged(d).real = Least(Forever, d.real + 1)
        /\ DOMAIN Aged(d) = DOMAIN d
    BY <1>3, <2>1 DEF Aged
  <2>3. Aged(d) \in Document
    <3>1. Least(Forever, d.real + 1) \in 0..Forever
      BY <1>1, <2>1 DEF Least
    <3>2. d.wall \in (-Reach)..Old /\ Least(Old, d.wall + 1) \in (-Reach)..Old
      <4>1. Reach \in Nat /\ Old \in Nat
        BY Ranges DEF TypeInv
      <4> HIDE DEF Reach, Old
      <4> QED BY <2>1, <4>1 DEF Least
    <3> HIDE DEF Least, Reach, Old, Forever
    <3> QED BY <1>3, <2>1, <3>1, <3>2 DEF Aged, Document
  <2>4. Aged(d) # Nil
    BY <2>3, DashboardAssumption
  <2>5. Aged(d).real \in Int /\ Aged(d).real <= d.real + 1
    BY <1>1, <2>1, <2>2 DEF Least
  <2> QED BY <1>3, <2>2, <2>4, <2>5 DEF Own
<1> QED BY <1>2, <1>3

(* Setting the clock does not touch the real age.                          *)
LEMMA ResetAge ==
    ASSUME TypeInv, NEW d \in {pending, file, lastValid}, NEW k \in {Jump, -Jump},
           jumps > 0
    PROVE  /\ Reset(d, k) = Nil <=> d = Nil
           /\ Own(Reset(d, k)) <=> Own(d)
           /\ d # Nil => Reset(d, k).real = d.real /\ Reset(d, k).own = d.own
<1>1. CASE d = Nil
  BY <1>1 DEF Reset, Own
<1>2. CASE d # Nil
  <2>1. /\ d \in Document
        /\ Reach - Ahead \in Nat /\ (Reach - Ahead) + Jump <= Reach
        /\ Typed(d, Reach - Ahead)
    <3>1. /\ Ahead \in Nat /\ Reach \in Nat /\ Ahead <= Reach
          /\ (jumps - 1) * Jump = Ahead - Jump
      BY Ranges DEF TypeInv
    <3>2. jumps - 1 \in Nat /\ (jumps - 1) * Jump \in Nat
      BY DashboardAssumption DEF TypeInv
    <3>3. Typed(d, Reach - Ahead)
      BY DEF TypeInv
    <3> HIDE DEF Reach, Ahead
    <3> QED BY <1>2, <3>1, <3>2, <3>3, DashboardAssumption DEF Typed
  <2>2. Reset(d, k).real = d.real /\ Reset(d, k).own = d.own
    BY <1>2, <2>1 DEF Reset, Document
  <2>3. Reset(d, k) \in Document \cup {Nil} /\ Reset(d, k) # Nil
    <3>1. /\ Reach \in Nat /\ Old \in Nat /\ d.wall \in Int /\ d.set \in Int
          /\ d.wall >= -(Reach - Ahead)
          /\ d.set >= -(Reach - Ahead) /\ d.set <= Reach - Ahead
          /\ k \in Int /\ k >= -Jump /\ k <= Jump /\ Ahead \in Nat
      BY <1>2, <2>1, Ranges, DashboardAssumption DEF Typed, Document, TypeInv
    <3>2. /\ Least(Old, d.wall + k) \in (-Reach)..Old
          /\ d.set + k \in (-Reach)..Reach
      <4> HIDE DEF Reach, Ahead, Old
      <4> QED BY <2>1, <3>1, DashboardAssumption DEF Least
    <3>3. Reset(d, k) \in Document
      <4> HIDE DEF Least, Reach, Old, Forever
      <4> QED BY <1>2, <2>1, <3>2 DEF Reset, Document
    <3> QED BY <3>3, DashboardAssumption
  <2> QED BY <1>2, <2>2, <2>3 DEF Own
<1> QED BY <1>1, <1>2

LEMMA TickKeepsPace ==
    ASSUME TypeInv, OnPace, Tick, alive, paced'
    PROVE  OnPace'
<1>1. /\ GoodPass \in Nat /\ Second \in Nat /\ lag \in Nat /\ dueIn \in Int
      /\ wakeIn \in Nat /\ frameIn \in Nat
      /\ at \in {"waiting", "collecting", "writing"}
  BY DashboardAssumption DEF TypeInv
<1>2. /\ at' = at /\ readCounter' = readCounter /\ lag' <= GoodPass
      /\ frameIn' = frameIn - 1 /\ dueIn' = dueIn - 1
      /\ at = "waiting" => wakeIn > 0 /\ wakeIn' = wakeIn - 1 /\ lag' = lag
      /\ at # "waiting" => wakeIn' = wakeIn /\ lag' = lag + 1
  BY <1>1 DEF Tick, Elapse
<1>3. /\ pending' = Aged(pending) /\ file' = Aged(file) /\ lastValid' = Aged(lastValid)
  BY DEF Tick
<1>4. at' = "waiting" => /\ lag' = 0 /\ dueIn' >= -GoodPass
                         /\ wakeIn' = 0 \/ wakeIn' <= dueIn'
  BY <1>1, <1>2 DEF OnPace
<1>5. /\ at' = "collecting" => dueIn' + lag' >= -GoodPass
      /\ at' = "writing" => dueIn' + lag' > 0
  BY <1>1, <1>2 DEF OnPace
<1>6. pending' # Nil => at' = "writing" /\ pending'.own /\ pending'.real + dueIn' <= Second
  <2> SUFFICES ASSUME pending' # Nil
               PROVE  at' = "writing" /\ pending'.own /\ pending'.real + dueIn' <= Second
    OBVIOUS
  <2>1. /\ pending # Nil /\ pending'.real \in Int /\ pending'.real <= pending.real + 1
        /\ pending'.own = pending.own /\ pending.real \in Nat
    BY <1>3, AgedAge, RealAge
  <2> QED BY <1>1, <1>2, <2>1 DEF OnPace
<1>7. Own(file') => IF pending' = Nil THEN file'.real + dueIn' <= Second
                                      ELSE file'.real <= Second + GoodPass + lag'
  <2> SUFFICES ASSUME Own(file')
               PROVE  IF pending' = Nil THEN file'.real + dueIn' <= Second
                                        ELSE file'.real <= Second + GoodPass + lag'
    OBVIOUS
  <2>1. /\ Own(file) /\ file # Nil /\ file'.real \in Int /\ file'.real <= file.real + 1
        /\ file.real \in Nat
    BY <1>3, AgedAge, RealAge DEF Own
  <2>2. pending' = Nil <=> pending = Nil
    BY <1>3, AgedAge
  <2> QED BY <1>1, <1>2, <2>1, <2>2 DEF OnPace
<1>8. Own(lastValid') =>
          /\ Own(file')
          /\ lastValid'.real + frameIn' <= OldestFile + (FramesKept + 1) * Frame
  <2> SUFFICES ASSUME Own(lastValid')
               PROVE  /\ Own(file')
                      /\ lastValid'.real + frameIn' <= OldestFile + (FramesKept + 1) * Frame
    OBVIOUS
  <2> DEFINE limit == OldestFile + (FramesKept + 1) * Frame
  <2>1. /\ Own(lastValid) /\ lastValid # Nil
        /\ lastValid'.real \in Int /\ lastValid'.real <= lastValid.real + 1
        /\ lastValid.real \in Nat
    BY <1>3, AgedAge, RealAge DEF Own
  <2>2. Own(file) /\ lastValid.real + frameIn <= limit
    BY <2>1 DEF OnPace
  <2>3. Own(file')
    BY <1>3, <2>2, AgedAge
  <2>4. limit \in Int
    BY DashboardAssumption DEF OldestFile, FramesKept, TypeInv, RereadEvery
  <2> HIDE DEF limit
  <2>5. lastValid'.real + frameIn' <= limit
    BY <1>1, <1>2, <2>1, <2>2, <2>4
  <2> QED BY <2>3, <2>5 DEF limit
<1>9. FramesKept' = FramesKept
  BY <1>2 DEF FramesKept
<1> QED BY <1>2, <1>4, <1>5, <1>6, <1>7, <1>8, <1>9 DEF OnPace, Own

LEMMA CollectKeepsPace ==
    ASSUME TypeInv, OnPace, Collect PROVE OnPace'
<1>1. /\ GoodPass \in Nat /\ Second \in Nat \ {0} /\ lag \in Nat /\ dueIn \in Int
  BY DashboardAssumption DEF TypeInv
<1>2. /\ at = "collecting" /\ at' = "writing" /\ pending = Nil
      /\ UNCHANGED <<lag, wakeIn, file, lastValid, readCounter, frameIn>>
      /\ dueIn + lag >= -GoodPass
  BY DEF Collect, OnPace, frames
<1>3. FramesKept' = FramesKept
  BY <1>2 DEF FramesKept
<1>4. Own(file) => file.real \in Nat /\ file.real + dueIn <= Second
  BY <1>2, RealAge DEF OnPace, Own
<1>5. CASE dueIn + lag > 0
  <2>1. dueIn' = dueIn /\ pending' = Nil
    BY <1>2, <1>5 DEF Collect
  <2> QED BY <1>2, <1>3, <1>5, <2>1 DEF OnPace, Own
<1>6. CASE ~(dueIn + lag > 0)
  <2>1. /\ dueIn' = IF dueIn + Second <= -lag THEN Second - lag ELSE dueIn + Second
        /\ pending' = Stamped
    BY <1>6 DEF Collect
  <2>2. /\ dueIn' + lag > 0 /\ dueIn' <= Second
    BY <1>1, <1>6, <2>1
  <2>3. pending' # Nil /\ pending'.own /\ pending'.real = 0
    <3>1. Stamped \in Document
      <4>1. Reach \in Nat /\ Old \in Nat /\ Forever \in Nat
        BY Ranges DEF TypeInv
      <4> HIDE DEF Reach, Old, Forever
      <4> QED BY <4>1 DEF Stamped, Document
    <3> QED BY <2>1, <3>1, DashboardAssumption DEF Stamped
  <2>4. Own(file) => file.real <= Second + GoodPass + lag
    BY <1>1, <1>2, <1>4
  <2>5. 0 + dueIn' <= Second
    BY <1>1, <2>1, <2>2
  <2> QED BY <1>2, <1>3, <2>2, <2>3, <2>4, <2>5 DEF OnPace, Own
<1> QED BY <1>5, <1>6

LEMMA FinishKeepsPace ==
    ASSUME TypeInv, OnPace, FinishPass PROVE OnPace'
<1>1. /\ GoodPass \in Nat /\ Second \in Nat \ {0} /\ lag \in Nat /\ dueIn \in Int
  BY DashboardAssumption DEF TypeInv
<1>2. /\ at = "writing" /\ at' = "waiting" /\ lag' = 0 /\ pending' = Nil
      /\ file' = IF pending = Nil THEN file ELSE pending
      /\ wakeIn' = 0 \/ wakeIn' <= dueIn
      /\ UNCHANGED <<dueIn, lastValid, readCounter, frameIn>>
  BY DEF FinishPass, frames
<1>3. FramesKept' = FramesKept
  BY <1>2 DEF FramesKept
<1>4. dueIn' >= -GoodPass
  BY <1>1, <1>2 DEF OnPace
<1>5. Own(file') => file'.real + dueIn <= Second
  BY <1>2 DEF OnPace
<1>6. Own(file) => Own(file')
  BY <1>2 DEF OnPace, Own
<1> QED BY <1>1, <1>2, <1>3, <1>4, <1>5, <1>6 DEF OnPace, Own

(* A document that is read is not older than the oldest file on pace; one  *)
(* that is kept is a frame older than it was drawn last.                   *)
LEMMA DrawKeepsPace ==
    ASSUME TypeInv, OnPace, Draw
    PROVE  /\ OnPace'
           /\ Own(lastValid') => lastValid'.real <= OldestFile + 4 * Frame
<1>1. /\ GoodPass \in Nat /\ Second \in Nat /\ Frame \in Nat /\ lag \in Nat /\ dueIn \in Int
      /\ readCounter \in 0..4 /\ at \in {"waiting", "collecting", "writing"}
      /\ OldestFile = Second + 2 * GoodPass
  BY DashboardAssumption DEF TypeInv, RereadEvery, OldestFile
<1>2. /\ frameIn = 0 /\ frameIn' = Frame
      /\ readCounter' = (readCounter + 1) % 5
      /\ lastValid' = IF Rereads /\ file # Nil THEN file ELSE lastValid
      /\ UNCHANGED <<at, lag, wakeIn, dueIn, pending, file>>
  BY DEF Draw, RereadEvery, provider
<1>3. /\ readCounter = 4 => readCounter' = 0
      /\ readCounter # 4 => readCounter' = readCounter + 1
  BY <1>1, <1>2
<1>4. FramesKept \in 0..4 /\ FramesKept' \in 0..4
  BY <1>1, <1>3 DEF FramesKept, RereadEvery
<1>5. Own(file) => file.real \in Nat /\ file.real <= OldestFile
  <2> SUFFICES ASSUME Own(file) PROVE file.real \in Nat /\ file.real <= OldestFile
    OBVIOUS
  <2>1. file.real \in Nat
    BY RealAge DEF Own
  <2>2. CASE pending # Nil
    BY <1>1, <2>1, <2>2 DEF OnPace
  <2>3. CASE pending = Nil
    BY <1>1, <2>1, <2>3 DEF OnPace
  <2> QED BY <2>1, <2>2, <2>3
<1> DEFINE kept == (FramesKept + 1) * Frame
           keeps == FramesKept' * Frame
<1>6. /\ keeps \in Nat /\ keeps <= 4 * Frame
      /\ (FramesKept' + 1) * Frame = keeps + Frame
      /\ FramesKept' = FramesKept + 1 => kept = keeps
  <2>1. keeps \in {0, Frame, 2 * Frame, 3 * Frame, 4 * Frame}
    <3>1. \A n \in 0..4 : n \in {0, 1, 2, 3, 4}
      OBVIOUS
    <3>2. \A n \in {0, 1, 2, 3, 4} :
             n * Frame \in {0, Frame, 2 * Frame, 3 * Frame, 4 * Frame}
      BY <1>1
    <3> QED BY <1>4, <3>1, <3>2
  <2>2. keeps \in Nat /\ keeps <= 4 * Frame
    <3> HIDE DEF keeps
    <3> QED BY <1>1, <2>1
  <2>3. (FramesKept' + 1) * Frame = keeps + Frame
    BY <1>1, <1>4
  <2> QED BY <2>2, <2>3
<1>7. Own(lastValid') => /\ Own(file) /\ lastValid'.real \in Nat
                         /\ lastValid'.real <= OldestFile + keeps
  <2> SUFFICES ASSUME Own(lastValid')
               PROVE  /\ Own(file) /\ lastValid'.real \in Nat
                      /\ lastValid'.real <= OldestFile + keeps
    OBVIOUS
  <2>1. CASE lastValid' = file
    <3> HIDE DEF keeps
    <3> QED BY <1>1, <1>5, <1>6, <2>1
  <2>2. CASE lastValid' # file
    <3>1. lastValid' = lastValid /\ Own(lastValid) /\ Own(file) /\ ~Rereads
      BY <1>2, <2>2 DEF OnPace, Own
    <3>2. readCounter # 0
      BY <3>1 DEF Rereads, RereadEvery
    <3>3. FramesKept' = FramesKept + 1
      BY <1>1, <1>3, <3>2 DEF FramesKept, RereadEvery
    <3>4. lastValid.real + 0 <= OldestFile + kept /\ lastValid.real \in Nat
      BY <1>2, <3>1, RealAge DEF OnPace, Own
    <3> HIDE DEF keeps, kept
    <3> QED BY <1>1, <1>6, <3>1, <3>3, <3>4
  <2> QED BY <2>1, <2>2
<1> HIDE DEF keeps, kept
<1>8. Own(lastValid') => /\ lastValid'.real <= OldestFile + 4 * Frame
                         /\ lastValid'.real + frameIn' <= OldestFile + (FramesKept' + 1) * Frame
  BY <1>1, <1>2, <1>6, <1>7
<1> QED BY <1>2, <1>7, <1>8 DEF OnPace, Own, OldestFile

LEMMA NextKeepsPace == TypeInv /\ PaceInv /\ [Next]_vars => PaceInv'
<1> SUFFICES ASSUME TypeInv, PaceInv, [Next]_vars, alive', paced' PROVE OnPace'
  BY DEF PaceInv
<1>1. CASE Tick
  <2>1. alive /\ paced
    BY <1>1 DEF Tick, TypeInv
  <2> QED BY <1>1, <2>1, TickKeepsPace DEF PaceInv
<1>2. ASSUME NEW k \in {Jump, -Jump}, SetClock(k) PROVE OnPace'
  <2>1. /\ alive /\ paced /\ OnPace /\ jumps > 0
        /\ UNCHANGED <<at, lag, wakeIn, dueIn, readCounter, frameIn>>
        /\ pending' = Reset(pending, k) /\ file' = Reset(file, k)
        /\ lastValid' = Reset(lastValid, k)
    BY <1>2 DEF SetClock, PaceInv, provider, frames
  <2>2. /\ pending' = Nil <=> pending = Nil
        /\ Own(file') <=> Own(file)
        /\ Own(lastValid') <=> Own(lastValid)
        /\ pending' # Nil => pending'.real = pending.real /\ pending'.own = pending.own
        /\ Own(file') => file'.real = file.real
        /\ Own(lastValid') => lastValid'.real = lastValid.real
    BY <2>1, ResetAge DEF Own
  <2>3. FramesKept' = FramesKept
    BY <2>1 DEF FramesKept
  <2> QED BY <2>1, <2>2, <2>3 DEF OnPace, Own
<1>3. CASE StartPass
  <2>1. /\ OnPace /\ at = "waiting" /\ at' = "collecting"
        /\ UNCHANGED <<lag, wakeIn, dueIn, pending, file, lastValid, readCounter, frameIn>>
    BY <1>3 DEF StartPass, PaceInv, documents, frames, clock
  <2>2. FramesKept' = FramesKept
    BY <2>1 DEF FramesKept
  <2>3. dueIn + lag >= -GoodPass
    BY <2>1, DashboardAssumption DEF OnPace, TypeInv
  <2> QED BY <2>1, <2>2, <2>3 DEF OnPace, Own
<1>4. CASE Collect
  BY <1>4, CollectKeepsPace DEF PaceInv, Collect, clock
<1>5. CASE FinishPass
  BY <1>5, FinishKeepsPace DEF PaceInv, FinishPass, clock
<1>6. CASE Hang
  BY <1>6 DEF Hang
<1>7. CASE Draw
  BY <1>7, DrawKeepsPace DEF PaceInv, Draw, provider, clock
<1>8. CASE UNCHANGED vars
  BY <1>8 DEF vars, provider, documents, frames, clock, PaceInv, OnPace, Own, FramesKept
<1> QED BY <1>1, <1>2, <1>3, <1>4, <1>5, <1>6, <1>7, <1>8 DEF Next

LEMMA InitPace == Init => PaceInv
<1> SUFFICES ASSUME Init PROVE OnPace
  BY DEF PaceInv
<1>1. ~Own(file) /\ ~Own(lastValid)
  BY DEF Init, LeftBehind, Own
<1> QED BY <1>1, DashboardAssumption DEF Init, OnPace

(* A document that is less than three seconds and a second old, by a clock *)
(* that was not set forward, is fresh.                                     *)
LEMMA YoungIsFresh ==
    ASSUME TypeInv, NEW d \in [wall : Int, real : Nat, set : Int, own : BOOLEAN],
           d # Nil, OnTheClock(d, sub), d.real <= FreshFor * Second, d.set <= 0
    PROVE  CacheFresh(d)
<1>1. Second \in Nat \ {0} /\ sub \in Nat
  BY DashboardAssumption DEF TypeInv
<1>2. d.real < Forever
  <2>1. Forever = (FreshFor + 1) * Second + (Reach + Reach) * Second /\ Reach \in Nat
    <3>1. Reach \in Nat /\ Forever = (FreshFor + 1 + Reach + Reach) * Second
      BY Ranges DEF TypeInv, Forever, Old
    <3> HIDE DEF Reach
    <3> QED BY <1>1, <3>1 DEF FreshFor
  <2>2. (Reach + Reach) * Second \in Nat
    BY <1>1, <2>1
  <2>3. (FreshFor + 1) * Second = 4 * Second /\ FreshFor * Second = 3 * Second
    BY DEF FreshFor
  <2> HIDE DEF Forever, Reach
  <2> QED BY <1>1, <2>1, <2>2, <2>3
<1>3. Second * (d.wall - d.set) + sub <= d.real + Second - 1
  BY <1>2 DEF OnTheClock
<1>4. ASSUME d.wall - d.set >= 4 PROVE FALSE
  <2>1. PICK n \in Nat : d.wall - d.set = 4 + n
    <3>1. d.wall - d.set - 4 \in Nat /\ d.wall - d.set = 4 + (d.wall - d.set - 4)
      BY <1>4
    <3> QED BY <3>1
  <2>2. Second * (d.wall - d.set) = 4 * Second + Second * n /\ Second * n \in Nat
    BY <1>1, <2>1
  <2> QED BY <1>1, <1>3, <2>2 DEF FreshFor
<1> QED BY <1>4 DEF CacheFresh, FreshFor

(* A provider on pace is never drawn as STALE, as long as the clock is not *)
(* set forward: the second that a document is the newest, the two passes   *)
(* that may lie before the next one is written, and the four frames for    *)
(* which it is not read, are less than the three seconds and the second    *)
(* that the clock has begun.                                               *)
THEOREM ProviderOnPaceIsLive == ASSUME Brisk PROVE Spec => PacedIsLive
<1> DEFINE Inv == TypeInv /\ DatedInv /\ ClockInv /\ PaceInv
<1>1. Inv /\ Inv' /\ [Next]_vars
        => [Draw /\ alive /\ paced /\ lastValid' # Nil /\ ~live'
             => ~lastValid'.own \/ lastValid'.set > 0]_vars
  <2> SUFFICES ASSUME Inv, Inv', Draw, alive, paced, lastValid' # Nil, lastValid'.own,
                      ~(lastValid'.set > 0)
               PROVE  live'
    OBVIOUS
  <2>1. lastValid'.real <= OldestFile + 4 * Frame
    BY DrawKeepsPace DEF PaceInv, Own
  <2>2. OldestFile + 4 * Frame <= FreshFor * Second
    BY DashboardAssumption DEF Brisk, OldestFile, FreshFor
  <2>3. /\ lastValid' \in [wall : Int, real : Nat, set : Int, own : BOOLEAN]
        /\ lastValid' \in {file, lastValid}
    <3>1. lastValid' \in {file, lastValid}
      BY DEF Draw
    <3>2. Reach \in Nat /\ Old \in Nat /\ Forever \in Nat
      BY Ranges DEF TypeInv
    <3>3. lastValid' \in Document
      BY <3>1 DEF TypeInv, Typed
    <3> HIDE DEF Reach, Old, Forever
    <3> QED BY <3>1, <3>2, <3>3 DEF Document
  <2>4. OnTheClock(lastValid', sub)
    BY <2>3 DEF ClockInv
  <2>5. lastValid'.real <= FreshFor * Second /\ lastValid'.set <= 0
    <3>1. lastValid'.real \in Nat /\ lastValid'.set \in Int
      BY <2>3
    <3> QED BY <2>1, <2>2, <3>1, DashboardAssumption DEF OldestFile, FreshFor
  <2>6. CacheFresh(lastValid')
    BY <2>3, <2>4, <2>5, YoungIsFresh
  <2> QED BY <2>6 DEF Draw
<1>2. Init => Inv
  BY InitTypes, InitInv, InitClock, InitPace
<1>3. Inv /\ [Next]_vars => Inv'
  BY NextTypes, NextKeepsInv, NextKeepsClock, NextKeepsPace
<1> HIDE DEF Inv
<1> QED BY <1>1, <1>2, <1>3, PTL DEF Spec, PacedIsLive
=============================================================================
