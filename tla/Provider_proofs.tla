-------------------------- MODULE Provider_proofs ---------------------------
(***************************************************************************)
(* Theorems about Provider, for any probes and sources and any number of   *)
(* signals.                                                                *)
(***************************************************************************)
EXTENDS Provider, TLAPS

LEMMA InitInv == Init => ProviderInv
  BY ProviderAssumption
     DEF Init, Main!Init, ProviderInv, FileShowsRecords, FirstDocumentComplete,
         ExitIsQuiet, StopEndsWriting, Main!Place

LEMMA TopKeepsInv ==
    ASSUME ProviderInv, Main!Top, UNCHANGED <<toReap, runVars>> PROVE ProviderInv'
  BY DEF ProviderInv, Main!Top, Main!passVars, FileShowsRecords,
         FirstDocumentComplete, ExitIsQuiet, StopEndsWriting, Main!Place,
         BetweenPasses, runVars

(* The first pass finds every source without a collection, and so all due. *)
LEMMA CollectKeepsInv == ProviderInv /\ Collect => ProviderInv'
<1> SUFFICES ASSUME ProviderInv, Collect PROVE ProviderInv'
  OBVIOUS
<1>1. PICK D \in Main!Due :
          /\ \A s \in Source : IF s \in D THEN health'[s] # "none"
                                          ELSE health'[s] = health[s]
          /\ completed' = (D # {})
          /\ loop' = IF ~once THEN "tick" ELSE IF D # {} THEN "write" ELSE "wait"
  BY DEF Collect, Main!RunDue
<1>2. \A s \in Source : health'[s] # "none"
  BY <1>1 DEF Main!Due
<1>3. (loop' = "write" => completed') /\ (loop' = "wait" => ~completed')
  BY <1>1
<1>4. toReap' # {} => loop' = "tick"
  BY <1>1 DEF ProviderInv, Collect, Runs!InProgress
<1> QED
  BY <1>1, <1>2, <1>3, <1>4
     DEF ProviderInv, Collect, Main!RunDue, Main!fileVars, FileShowsRecords,
         FirstDocumentComplete, ExitIsQuiet, StopEndsWriting, Main!Place,
         BetweenPasses, runVars

LEMMA TickKeepsInv ==
    ASSUME ProviderInv, EndTick \/ \E p \in Probe : Skip(p) \/ Reap(p) \/ Submit(p)
    PROVE  ProviderInv'
<1> USE DEF ProviderInv, FileShowsRecords, FirstDocumentComplete, ExitIsQuiet,
            StopEndsWriting, Main!Place, BetweenPasses, runVars, loopVars
<1>1. CASE EndTick
  BY <1>1 DEF EndTick, Main!AfterTick, Main!CopyRecords, Main!fileVars
<1>2. ASSUME NEW p \in Probe, Skip(p) PROVE ProviderInv'
  BY <1>2 DEF Skip
<1>3. ASSUME NEW p \in Probe, Reap(p) PROVE ProviderInv'
  <2>1. mode = "open" /\ mode' = mode /\ loop = "tick"
    BY <1>3 DEF Reap, Runs!Publish
  <2>2. ~once
    BY <2>1
  <2> QED BY <1>3, <2>1, <2>2 DEF Reap
<1>4. ASSUME NEW p \in Probe, Submit(p) PROVE ProviderInv'
  BY <1>4 DEF Submit, Runs!Start
<1> QED BY <1>1, <1>2, <1>3, <1>4

LEMMA AloneKeepsInv ==
    ASSUME ProviderInv, Main!Alone \/ Main!Signal, UNCHANGED <<toReap, runVars>>
    PROVE  ProviderInv'
<1> USE DEF ProviderInv, FileShowsRecords, FirstDocumentComplete, ExitIsQuiet,
            StopEndsWriting, Main!Place, BetweenPasses, runVars, Main!passVars,
            Main!fileVars
<1>1. CASE Main!Write
  BY <1>1 DEF Main!Write, Main!Written
<1>2. CASE Main!WriteFails
  BY <1>2 DEF Main!WriteFails
<1>3. CASE Main!LockEvent
  BY <1>3 DEF Main!LockEvent
<1>4. CASE Main!Sleep
  BY <1>4 DEF Main!Sleep
<1>5. CASE Main!Wake
  BY <1>5 DEF Main!Wake
<1>6. CASE Main!Unlock
  BY <1>6 DEF Main!Unlock
<1>7. CASE Main!Signal
  BY <1>7 DEF Main!Signal
<1> QED BY <1>1, <1>2, <1>3, <1>4, <1>5, <1>6, <1>7 DEF Main!Alone

LEMMA CloseKeepsInv == ProviderInv /\ (Close \/ Closed) => ProviderInv'
<1> USE DEF ProviderInv, FileShowsRecords, FirstDocumentComplete, ExitIsQuiet,
            StopEndsWriting, Main!Place, BetweenPasses, runVars, Main!passVars,
            Main!fileVars
<1>1. ASSUME ProviderInv, Close PROVE ProviderInv'
  BY <1>1 DEF Close, Main!Leave, Runs!BeginClosing
<1>2. ASSUME ProviderInv, Closed PROVE ProviderInv'
  BY <1>2 DEF Closed, Main!Return, Runs!EndClosing
<1> QED BY <1>1, <1>2

(* A worker changes only how far a run has come, and no run goes on after  *)
(* the provider has exited.                                                *)
LEMMA WorkKeepsInv == ASSUME ProviderInv, NEW p \in Probe, Work(p) PROVE ProviderInv'
<1>1. ~once /\ mode # "closed" /\ UNCHANGED <<record, mode>>
  BY DEF ProviderInv, Work, Runs!Begin, Runs!Finish
<1> QED
  BY <1>1 DEF ProviderInv, Work, FileShowsRecords, FirstDocumentComplete,
              ExitIsQuiet, StopEndsWriting, Main!Place, BetweenPasses, loopVars

LEMMA NextInv == ProviderInv /\ [Next]_vars => ProviderInv'
<1>1. ASSUME ProviderInv, UNCHANGED vars PROVE ProviderInv'
  BY <1>1 DEF vars, ProviderInv, FileShowsRecords, FirstDocumentComplete,
              ExitIsQuiet, StopEndsWriting, BetweenPasses, runVars, loopVars
<1> QED
  BY <1>1, TopKeepsInv, CollectKeepsInv, TickKeepsInv, AloneKeepsInv,
     CloseKeepsInv, WorkKeepsInv
     DEF Next, MainStep, Alone, Signal, Ended

(* The conjunction of the invariants of run_provider's loop.               *)
THEOREM ProviderCorrect == Spec => []ProviderInv
  BY InitInv, NextInv, PTL DEF Spec

(* After a pass that wrote, the state file shows the records that this     *)
(* pass's tick left.                                                       *)
THEOREM FileFollowsRecords == Spec => []FileShowsRecords
<1>1. ProviderInv => FileShowsRecords
  BY DEF ProviderInv
<1> QED BY <1>1, ProviderCorrect, PTL

(* The first document written has collected every source.                  *)
THEOREM FirstDocumentHasAllSources == Spec => []FirstDocumentComplete
<1>1. ProviderInv => FirstDocumentComplete
  BY DEF ProviderInv
<1> QED BY <1>1, ProviderCorrect, PTL

(* run_provider returns, or raises, with no probe queued or running.       *)
THEOREM ExitLeavesNoProbe == Spec => []ExitIsQuiet
<1>1. ProviderInv => ExitIsQuiet
  BY DEF ProviderInv
<1> QED BY <1>1, ProviderCorrect, PTL

(* After the stop flag is set at most one more document is written.        *)
THEOREM AtMostOneLateWrite == Spec => []StopEndsWriting
<1>1. ProviderInv => StopEndsWriting
  BY DEF ProviderInv
<1> QED BY <1>1, ProviderCorrect, PTL
=============================================================================
