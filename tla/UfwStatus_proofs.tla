-------------------------- MODULE UfwStatus_proofs ---------------------------
(***************************************************************************)
(* Proofs about UfwStatus, for any timer and any limits that meet          *)
(* PeriodAssumption.                                                       *)
(***************************************************************************)
EXTENDS UfwStatus, TLAPS

(* Whatever a run of nft leads to, build_state accepts it and so does the  *)
(* reader: the two copies of the enumerations agree.                       *)
LEMMA EvidenceFits ==
    ASSUME NEW e \in ProbeEvidence
    PROVE  Buildable(e) /\ Acceptable(e) /\ e.runtime \in RuntimeValues
BY DEF ProbeEvidence, Classified, Failure, Evidence, Buildable, Acceptable,
       RuntimeValues, DetailValues, ExpectedDetails

(* Only verified evidence leads to a claim, and to the right one.          *)
LEMMA CardFits ==
    ASSUME NEW e \in ProbeEvidence
    PROVE  /\ CardOf(e).status \in Status
           /\ CardOf(e).detail \in Detail \ {"probe_stale"}
           /\ CardOf(e).status = "ok" => e.runtime = "active"
           /\ CardOf(e).status = "degraded" => e.runtime = "inactive"
BY DEF ProbeEvidence, Classified, Failure, Evidence, CardOf, Status, Detail

(* What every step may assume of the numbers.                              *)
LEMMA Numbers ==
    /\ MinPeriod \in Nat /\ MaxPeriod \in Nat /\ MaxRun \in Nat /\ Stale \in Nat
    /\ Tolerance \in Nat /\ Hold \in Nat /\ MaxBlock \in Nat /\ Cap \in Nat
    /\ MaxRun <= MaxPeriod /\ MaxBlock <= Tolerance
    /\ 2 * MaxPeriod + MaxRun <= Stale
    /\ MaxRun + Stale + MaxBlock + Hold + MaxBlock < Cap
    /\ MaxAge = MaxRun + Stale + MaxBlock + Hold + MaxBlock
BY PeriodAssumption, CapAssumption DEF MaxAge

(* A card that claims nothing satisfies all that is said of cards.         *)
LEMMA PlainCard ==
    ASSUME NEW s \in {"off", "unknown"}, NEW r \in RuntimeValues, NEW d \in Detail
    PROVE  /\ Card(s, r, d) \in [status : Status, runtime : RuntimeValues,
                                 detail : Detail, sampled : 0..Cap]
           /\ Card(s, r, d).status \notin Claim
           /\ Card(s, r, d).detail = d
BY Numbers DEF Card, Status, Claim

LEMMA InitInv == Init => UfwInv
<1> SUFFICES ASSUME Init PROVE UfwInv
  OBVIOUS
<1>1. card.status \notin Claim /\ TypeOK
  BY Numbers DEF Init, TypeOK, NoEvidence, ProbeEvidence, Failure, Config, StateFile,
     Unknown, Card, Status, Detail, RuntimeValues, Claim
<1>2. ClaimIsEarned /\ ContentNeverRefused /\ Clocks /\ FileIsRecent /\ CardIsRecent
  BY <1>1, Numbers DEF Init, ClaimIsEarned, ContentNeverRefused, Clocks, FileIsRecent,
     CardIsRecent
<1> QED
  BY <1>1, <1>2 DEF UfwInv

(* The two conjuncts about claims and refusals follow from the others.     *)
LEMMA Consequences ==
    ASSUME TypeOK, Clocks, FileIsRecent, CardIsRecent
    PROVE  /\ card.status \in Claim => card.sampled <= MaxAge
           /\ ContentNeverRefused
<1>1. card.status \in Claim => card.sampled <= MaxAge
  BY Numbers DEF TypeOK, Clocks, CardIsRecent
<1>2. ASSUME collector = "open" PROVE Acceptable(file.evidence) /\ ~FromFuture
  <2>1. file.evidence \in ProbeEvidence
    BY DEF TypeOK, StateFile
  <2>2. ~FromFuture
    BY <1>2, Numbers DEF TypeOK, StateFile, Clocks, FromFuture
  <2> QED
    BY <2>1, <2>2, EvidenceFits
<1> QED
  BY <1>1, <1>2 DEF ContentNeverRefused

(* Time adds one to every age, and the bounds that grow with it.           *)
LEMMA PassKeeps == UfwInv /\ Pass => UfwInv'
<1> SUFFICES ASSUME UfwInv, Pass PROVE UfwInv'
  OBVIOUS
<1> USE Numbers
<1>0. TypeOK /\ ClaimIsEarned /\ Clocks /\ FileIsRecent /\ CardIsRecent
  BY DEF UfwInv
<1>1. sinceStart < Cap /\ sinceNow < Cap
      /\ sinceStart' = sinceStart + 1 /\ sinceNow' = sinceNow + 1
  BY <1>0 DEF TypeOK, Pass, Older
<1>2. /\ file' \in StateFile /\ file'.inode = file.inode
      /\ file'.evidence = file.evidence
      /\ file.inode # NoFile => /\ file'.age = Older(file.age)
                                /\ file'.sampled = Older(file.sampled)
  <2>1. file \in StateFile
    BY <1>0 DEF TypeOK
  <2>2. Older(file.age) \in 0..Cap /\ Older(file.sampled) \in 0..Cap
    BY <2>1 DEF Older, StateFile
  <2>3. file' = IF file.inode = NoFile THEN file
                ELSE [file EXCEPT !.age = Older(@), !.sampled = Older(@)]
    BY DEF Pass
  <2> QED
    BY <2>1, <2>2, <2>3 DEF StateFile
<1>3. /\ card' \in [status : Status, runtime : RuntimeValues, detail : Detail,
                    sampled : 0..Cap]
      /\ card'.status = card.status /\ card'.runtime = card.runtime
      /\ card.status \in Claim => card'.sampled = Older(card.sampled)
  BY <1>0 DEF TypeOK, Pass, Older
<1>4. sampled' \in 0..Cap /\ stamped' \in 0..Cap
  BY <1>0 DEF TypeOK, Pass, Older
<1>5. TypeOK'
  BY <1>0, <1>1, <1>2, <1>3, <1>4 DEF TypeOK, Pass
<1>6. Clocks'
  BY <1>0, <1>1 DEF TypeOK, Clocks, Pass, Older
<1>7. FileIsRecent'
  <2>1. file.age \in 0..Cap /\ file.sampled \in 0..Cap
    BY <1>0 DEF TypeOK, StateFile
  <2> QED
    BY <1>0, <1>1, <1>2, <2>1 DEF TypeOK, FileIsRecent, Pass, Older
<1>8. CardIsRecent'
  <2>1. card.sampled \in 0..Cap
    BY <1>0 DEF TypeOK
  <2> QED
    BY <1>0, <1>1, <1>3, <2>1 DEF TypeOK, CardIsRecent, Pass, Older
<1>9. (card.status \in Claim => card.sampled <= MaxAge)' /\ ContentNeverRefused'
  BY <1>5, <1>6, <1>7, <1>8, Consequences, PTL
<1> QED
  BY <1>0, <1>3, <1>5, <1>6, <1>7, <1>8, <1>9 DEF UfwInv, ClaimIsEarned

(* The probe's own steps leave the card alone.                             *)
LEMMA ProbeKeeps ==
    UfwInv /\ (Start \/ (\E e \in Listed : List(e)) \/ (\E c \in Config : Stamp(c))
               \/ (\E i \in Inode : Write(i)) \/ Abort) => UfwInv'
<1> SUFFICES ASSUME UfwInv,
                    Start \/ (\E e \in Listed : List(e)) \/ (\E c \in Config : Stamp(c))
                      \/ (\E i \in Inode : Write(i)) \/ Abort
             PROVE  UfwInv'
  OBVIOUS
<1> USE Numbers
<1>0. TypeOK /\ ClaimIsEarned /\ Clocks /\ FileIsRecent /\ CardIsRecent
  BY DEF UfwInv
<1>1. UNCHANGED <<card, collectorVars>>
  BY DEF Start, List, Stamp, Write, Abort, collectorVars
<1>2. TypeOK' /\ Clocks' /\ FileIsRecent'
  <2>1. CASE Start
    <3>1. TypeOK' /\ Clocks'
      BY <1>0, <1>1, <2>1 DEF Start, TypeOK, Clocks, collectorVars
    <3>2. FileIsRecent'
      BY <1>0, <1>1, <2>1 DEF Start, TypeOK, StateFile, Clocks, FileIsRecent, collectorVars
    <3> QED
      BY <3>1, <3>2
  <2>2. ASSUME NEW e \in Listed, List(e) PROVE TypeOK' /\ Clocks' /\ FileIsRecent'
    <3>1. TypeOK'
      BY <1>0, <1>1, <2>2, ListedAssumption DEF List, TypeOK, collectorVars
    <3>2. Clocks'
      BY <1>0, <1>1, <2>2 DEF List, TypeOK, Clocks, collectorVars
    <3>3. FileIsRecent'
      BY <1>0, <1>1, <2>2 DEF List, TypeOK, FileIsRecent, collectorVars
    <3> QED
      BY <3>1, <3>2, <3>3
  <2>3. ASSUME NEW c \in Config, Stamp(c) PROVE TypeOK' /\ Clocks' /\ FileIsRecent'
    BY <1>0, <1>1, <2>3 DEF Stamp, TypeOK, Clocks, FileIsRecent, collectorVars
  <2>4. ASSUME NEW i \in Inode, Write(i) PROVE TypeOK' /\ Clocks' /\ FileIsRecent'
    <3>0. /\ file' = [inode |-> i, evidence |-> evidence, config |-> config,
                      age |-> stamped, sampled |-> sampled]
          /\ probe = "write" /\ probe' = "idle" /\ lost' = 0
          /\ sinceStart' = sinceStart /\ sampled' = 0 /\ stamped' = 0
          /\ evidence' \in ProbeEvidence /\ config' \in Config
      BY <2>4 DEF Write, Exit, NoEvidence, ProbeEvidence, Failure, Config
    <3>a. file' \in StateFile
      BY <1>0, <3>0 DEF TypeOK, StateFile
    <3>1. TypeOK'
      BY <1>0, <1>1, <3>0, <3>a DEF TypeOK, collectorVars
    <3>2. Clocks'
      BY <1>0, <1>1, <2>4 DEF Write, Exit, TypeOK, Clocks, collectorVars
    <3>3. FileIsRecent'
      BY <1>0, <1>1, <3>0, InodeAssumption DEF TypeOK, Clocks, FileIsRecent, collectorVars
    <3> QED
      BY <3>1, <3>2, <3>3
  <2>5. CASE Abort
    BY <1>0, <1>1, <2>5
    DEF Abort, Exit, TypeOK, Clocks, FileIsRecent, collectorVars,
        NoEvidence, ProbeEvidence, Failure, Config
  <2> QED
    BY <2>1, <2>2, <2>3, <2>4, <2>5
<1>3. CardIsRecent'
  BY <1>0, <1>1 DEF CardIsRecent, collectorVars
<1>4. (card.status \in Claim => card.sampled <= MaxAge)' /\ ContentNeverRefused'
  BY <1>2, <1>3, Consequences, PTL
<1> QED
  BY <1>0, <1>1, <1>2, <1>3, <1>4 DEF UfwInv, ClaimIsEarned

(* The card of a collection that ends: either it claims nothing, or it     *)
(* rests on a file that was young enough.                                  *)
GoodCard(shown) ==
    /\ shown \in [status : Status, runtime : RuntimeValues, detail : Detail,
                  sampled : 0..Cap]
    /\ shown.status \in Claim =>
          /\ shown.sampled <= MaxRun + Stale + MaxBlock
          /\ shown.runtime = (IF shown.status = "ok" THEN "active" ELSE "inactive")

LEMMA UnknownIsGood ==
    ASSUME NEW s \in {"off", "unknown"}, NEW r \in RuntimeValues, NEW d \in Detail
    PROVE  GoodCard(Card(s, r, d)) /\ GoodCard(Unknown(d))
BY PlainCard DEF GoodCard, Unknown, RuntimeValues

LEMMA CollectedKeeps ==
    ASSUME UfwInv, NEW shown, GoodCard(shown), Collected(shown)
    PROVE  UfwInv'
<1> USE Numbers
<1>0. TypeOK /\ Clocks /\ FileIsRecent
  BY DEF UfwInv
<1>1. TypeOK' /\ Clocks' /\ FileIsRecent'
  BY <1>0 DEF Collected, TypeOK, Clocks, FileIsRecent, probeVars, GoodCard, Config
<1>2. CardIsRecent'
  BY DEF Collected, CardIsRecent, GoodCard
<1>3. (card.status \in Claim => card.sampled <= MaxAge)' /\ ContentNeverRefused'
  BY <1>1, <1>2, Consequences, PTL
<1>4. card'.status \in Claim =>
        card'.runtime = (IF card'.status = "ok" THEN "active" ELSE "inactive")
  BY DEF Collected, GoodCard
<1> QED
  BY <1>1, <1>2, <1>3, <1>4 DEF UfwInv, ClaimIsEarned

LEMMA OpenAndReadIsGood ==
    ASSUME UfwInv, OpenAndRead
    PROVE  \E shown : GoodCard(shown) /\ Collected(shown)
<1> USE Numbers
<1>0. /\ TypeOK /\ Clocks /\ FileIsRecent /\ collector = "open"
      /\ file.evidence \in ProbeEvidence
  BY DEF UfwInv, OpenAndRead, TypeOK, StateFile
<1>1. GoodCard(Unknown("probe_invalid")) /\ GoodCard(Expired)
  BY UnknownIsGood DEF Detail, Expired, RuntimeValues
<1>2. ASSUME ~TooOld PROVE GoodCard(FromState)
  <2>1. file.age <= MaxBlock + Stale /\ file.sampled <= file.age + MaxRun
        /\ file.age \in Nat /\ file.sampled \in 0..Cap
    BY <1>0, <1>2 DEF TooOld, TypeOK, StateFile, Clocks, FileIsRecent
  <2>2. file.evidence.runtime \in RuntimeValues
    BY <1>0, EvidenceFits
  <2>3. GoodCard(Card("off", file.evidence.runtime, "config_disabled"))
    BY <2>2, UnknownIsGood DEF Detail
  <2>4. GoodCard([status |-> CardOf(file.evidence).status,
                  runtime |-> file.evidence.runtime,
                  detail |-> CardOf(file.evidence).detail,
                  sampled |-> IF CardOf(file.evidence).status \in Claim
                              THEN file.sampled ELSE 0])
    BY <1>0, <2>1, <2>2, CardFits DEF GoodCard, Claim
  <2> QED
    BY <1>1, <2>3, <2>4 DEF FromState
<1> QED
  BY <1>1, <1>2 DEF OpenAndRead

LEMMA CollectorKeeps ==
    UfwInv /\ (ReadClock \/ (\E c \in Config : ReadConfig(c)) \/ Lstat \/ Refuse
               \/ OpenAndRead \/ Raise) => UfwInv'
<1> SUFFICES ASSUME UfwInv,
                    ReadClock \/ (\E c \in Config : ReadConfig(c)) \/ Lstat \/ Refuse
                      \/ OpenAndRead \/ Raise
             PROVE  UfwInv'
  OBVIOUS
<1> USE Numbers
<1>0. TypeOK /\ ClaimIsEarned /\ Clocks /\ FileIsRecent /\ CardIsRecent
  BY DEF UfwInv
<1>1. GoodCard(Card("off", "inactive", "config_disabled"))
      /\ GoodCard(Unknown("probe_missing")) /\ GoodCard(Unknown("probe_invalid"))
  BY UnknownIsGood DEF RuntimeValues, Detail
<1>2. (\E shown : GoodCard(shown) /\ Collected(shown)) => UfwInv'
  BY CollectedKeeps
<1>3. CASE ReadClock
  <2>1. TypeOK' /\ Clocks' /\ FileIsRecent' /\ CardIsRecent'
    BY <1>0, <1>3
    DEF ReadClock, TypeOK, Clocks, FileIsRecent, CardIsRecent, probeVars
  <2>2. (card.status \in Claim => card.sampled <= MaxAge)' /\ ContentNeverRefused'
    BY <2>1, Consequences, PTL
  <2> QED
    BY <1>0, <1>3, <2>1, <2>2 DEF UfwInv, ClaimIsEarned, ReadClock
<1>4. ASSUME NEW c \in Config, ReadConfig(c), collector' = "lstat" PROVE UfwInv'
  <2>1. TypeOK' /\ Clocks' /\ FileIsRecent' /\ CardIsRecent' /\ card' = card
    BY <1>0, <1>4
    DEF ReadConfig, Collected, TypeOK, Clocks, FileIsRecent, CardIsRecent, probeVars
  <2>2. (card.status \in Claim => card.sampled <= MaxAge)' /\ ContentNeverRefused'
    BY <2>1, Consequences, PTL
  <2> QED
    BY <1>0, <2>1, <2>2 DEF UfwInv, ClaimIsEarned
<1>5. CASE Lstat /\ collector' = "open"
  <2>1. TypeOK' /\ Clocks' /\ FileIsRecent' /\ CardIsRecent' /\ card' = card
    BY <1>0, <1>5
    DEF Lstat, Collected, TypeOK, StateFile, Clocks, FileIsRecent, CardIsRecent, probeVars
  <2>2. (card.status \in Claim => card.sampled <= MaxAge)' /\ ContentNeverRefused'
    BY <2>1, Consequences, PTL
  <2> QED
    BY <1>0, <2>1, <2>2 DEF UfwInv, ClaimIsEarned
<1>6. ASSUME NEW c \in Config, ReadConfig(c), collector' # "lstat" PROVE UfwInv'
  BY <1>1, <1>2, <1>6 DEF ReadConfig
<1>7. CASE Lstat /\ collector' # "open"
  BY <1>1, <1>2, <1>7 DEF Lstat
<1>8. CASE Refuse \/ Raise
  BY <1>1, <1>2, <1>8 DEF Refuse, Raise
<1>9. CASE OpenAndRead
  BY <1>2, <1>9, OpenAndReadIsGood
<1> QED
  BY <1>3, <1>4, <1>5, <1>6, <1>7, <1>8, <1>9

LEMMA NextInv == UfwInv /\ [Next]_vars => UfwInv'
<1>1. UfwInv /\ UNCHANGED vars => UfwInv'
  <2> SUFFICES ASSUME UfwInv, UNCHANGED vars PROVE UfwInv'
    OBVIOUS
  <2>1. TypeOK' /\ ClaimIsEarned' /\ Clocks' /\ FileIsRecent' /\ CardIsRecent'
    BY DEF UfwInv, vars, probeVars, collectorVars, TypeOK, ClaimIsEarned, Clocks,
           FileIsRecent, CardIsRecent
  <2> QED
    BY <2>1, Consequences, PTL DEF UfwInv
<1> QED
  BY <1>1, PassKeeps, ProbeKeeps, CollectorKeeps DEF Next

(* Every state is well typed, and the bounds on the ages hold in it.       *)
THEOREM UfwCorrect == Spec => []UfwInv
BY InitInv, NextInv, PTL DEF Spec

(* A card that says the firewall is on, or is off though enabled, rests on *)
(* a listing of the ruleset no older than MaxAge: the claims of            *)
(* bhola_services.py are earned for any timer, limits and inodes.          *)
THEOREM ClaimsAreEarned == Spec => []ClaimIsEarned
<1>1. UfwInv => ClaimIsEarned
  BY DEF UfwInv
<1> QED
  BY <1>1, UfwCorrect, PTL

(* The reader refuses nothing the writer wrote: the enumerations of the    *)
(* two programs fit, and the tolerance covers a collection.                *)
THEOREM ReaderAcceptsWriter == Spec => []ContentNeverRefused
<1>1. UfwInv => ContentNeverRefused
  BY DEF UfwInv
<1> QED
  BY <1>1, UfwCorrect, PTL

(* A card turns stale only after two runs in a row were lost: the limit of *)
(* the reader leaves room for the timer of the writer.                     *)
THEOREM OneLossIsTolerated == Spec => OneLossTolerated
<1>1. UfwInv /\ [Next]_vars =>
        [card.detail # "probe_stale" /\ card'.detail = "probe_stale" => lost = 2]_vars
  <2> SUFFICES ASSUME UfwInv, Next, card.detail # "probe_stale",
                      card'.detail = "probe_stale"
               PROVE  lost = 2
    OBVIOUS
  <2>0. TypeOK /\ Clocks /\ FileIsRecent
    BY DEF UfwInv
  <2>1. OpenAndRead
    <3>1. ~Pass
      BY <2>0 DEF Pass, TypeOK
    <3>2. card' = card => FALSE
      OBVIOUS
    <3>3. \A d \in Detail \ {"probe_stale"} : ~Collected(Unknown(d))
      BY DEF Collected, Unknown, Card
    <3>4. ~Collected(Card("off", "inactive", "config_disabled"))
      BY DEF Collected, Card
    <3> QED
      BY <3>1, <3>2, <3>3, <3>4
      DEF Next, Start, List, Stamp, Write, Abort, ReadClock, ReadConfig, Lstat,
          Refuse, Raise, Detail
  <2>2. TooOld
    <3>1. FromState.detail # "probe_stale"
      <4>1. CardOf(file.evidence).detail # "probe_stale"
        BY <2>0, CardFits DEF TypeOK, StateFile
      <4> QED
        BY <4>1 DEF FromState, Card, Unknown
    <3> QED
      BY <2>1, <3>1 DEF OpenAndRead, Collected, Unknown, Card
  <2>3. file.age > sinceNow + Stale /\ file.age \in Nat /\ sinceNow \in Nat
        /\ file.inode # NoFile /\ sinceStart \in Nat
    BY <2>0, <2>1, <2>2 DEF TooOld, TypeOK, StateFile, OpenAndRead, FileIsRecent
  <2>4. lost # 0 /\ lost # 1
    BY <2>0, <2>3, Numbers DEF Clocks, FileIsRecent
  <2> QED
    BY <2>0, <2>4 DEF TypeOK
<1> QED
  BY <1>1, UfwCorrect, PTL DEF Spec, OneLossTolerated

=============================================================================
