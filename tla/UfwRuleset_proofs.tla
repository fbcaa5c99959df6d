-------------------------- MODULE UfwRuleset_proofs ---------------------------
(***************************************************************************)
(* Theorems about UfwRuleset, for any set of chains and any ruleset.       *)
(***************************************************************************)
EXTENDS UfwRuleset, TLAPS

LEMMA AttachedIsLeast ==
    ASSUME NEW S \in SUBSET Chain, Closed(S)
    PROVE  Attached \subseteq S
BY DEF Attached

LEMMA AttachedIsClosed ==
    ASSUME TypeOK
    PROVE  /\ Closed(Attached)
           /\ ~Inconsistent => Attached \subseteq ruleset.declared
<1>1. ruleset.input \subseteq Chain
  BY DEF TypeOK
<1>2. ruleset.input \subseteq Attached
  BY <1>1 DEF Attached, Closed
<1>3. ASSUME NEW c \in Attached PROVE Targets(c) \subseteq Attached
  BY <1>3 DEF Attached, Closed, Targets
<1>4. ASSUME ~Inconsistent PROVE Attached \subseteq ruleset.declared
  <2>1. ASSUME NEW c \in ruleset.declared PROVE Targets(c) \subseteq ruleset.declared
    BY <1>4, <2>1 DEF Inconsistent, Targets, TypeOK
  <2> QED BY <2>1, AttachedIsLeast DEF Closed, TypeOK
<1> QED BY <1>2, <1>3, <1>4 DEF Closed

LEMMA InitInv == Init => WalkInv
BY ChainAssumption DEF Init, RulesetOf, WalkInv, TypeOK, VerdictRight

(* A step leaves the ruleset alone, and with it what is attached.          *)
LEMMA RulesetStays ==
    ASSUME ruleset' = ruleset
    PROVE  /\ Attached' = Attached
           /\ Inconsistent' = Inconsistent
           /\ \A c : Targets(c)' = Targets(c)
BY DEF Attached, Closed, Inconsistent, Targets

LEMMA ReadKeepsInv == ASSUME WalkInv, Read PROVE WalkInv'
<1>1. ruleset' = ruleset /\ reachable' = reachable /\ reachable = {} /\ queue = {}
  BY DEF Read, WalkInv
<1>2. TypeOK'
  BY <1>1 DEF Read, WalkInv, TypeOK, Verdict
<1>3. CASE Inconsistent
  <2>1. pc' = "done" /\ verdict' = "inconsistent_ruleset" /\ queue' = {}
    BY <1>1, <1>3 DEF Read
  <2> QED BY <1>1, <1>2, <1>3, <2>1, RulesetStays DEF WalkInv, VerdictRight
<1>4. CASE ~Inconsistent
  <2>1. pc' = "walk" /\ queue' = ruleset.input
    BY <1>4 DEF Read
  <2>2. ruleset.input \subseteq Attached
    BY AttachedIsClosed DEF WalkInv, Closed
  <2> QED BY <1>1, <1>2, <1>4, <2>1, <2>2, RulesetStays DEF WalkInv, VerdictRight
<1> QED BY <1>3, <1>4

LEMMA VisitKeepsInv ==
    ASSUME WalkInv, NEW c \in Chain, Visit(c)
    PROVE  WalkInv'
<1>1. /\ pc = "walk" /\ pc' = "walk" /\ c \in queue
      /\ ruleset' = ruleset /\ verdict' = verdict
      /\ reachable' = reachable \cup {c}
  BY DEF Visit
<1>2. Targets(c) \subseteq Attached /\ Targets(c) \subseteq Chain
  BY <1>1, AttachedIsClosed DEF WalkInv, Closed, Targets
<1>3. queue' \subseteq queue \cup Targets(c)
  BY DEF Visit
<1>4. TypeOK'
  BY <1>1, <1>2, <1>3 DEF WalkInv, TypeOK
<1>5. reachable' \cup queue' \subseteq Attached
  BY <1>1, <1>2, <1>3 DEF WalkInv
<1>6. reachable \cup queue \subseteq reachable' \cup queue'
  BY <1>1 DEF Visit
<1>7. Targets(c) \subseteq reachable' \cup queue'
  <2>1. CASE c \in reachable
    BY <1>1, <1>6, <2>1 DEF WalkInv
  <2>2. CASE c \notin reachable
    BY <1>1, <2>2 DEF Visit
  <2> QED BY <2>1, <2>2
<1>8. \A d \in reachable' : Targets(d) \subseteq reachable' \cup queue'
  BY <1>1, <1>6, <1>7 DEF WalkInv
<1>9. ruleset.input \subseteq reachable' \cup queue'
  BY <1>1, <1>6 DEF WalkInv
<1> QED
  BY <1>1, <1>4, <1>5, <1>8, <1>9, RulesetStays DEF WalkInv, VerdictRight

LEMMA ConcludeKeepsInv == ASSUME WalkInv, Conclude PROVE WalkInv'
<1>1. /\ pc = "walk" /\ pc' = "done" /\ queue = {} /\ ~Inconsistent
      /\ UNCHANGED <<ruleset, reachable, queue>>
  BY DEF Conclude, WalkInv
<1>2. reachable = Attached
  <2>1. Closed(reachable) /\ reachable \subseteq Chain
    BY <1>1 DEF WalkInv, TypeOK, Closed
  <2> QED BY <1>1, <2>1, AttachedIsLeast DEF WalkInv
<1>3. Attached \subseteq ruleset.declared
  BY <1>1, AttachedIsClosed DEF WalkInv
<1>4. ReachableUfw = Attached \cap UfwChain
  BY <1>2, <1>3 DEF ReachableUfw
<1>5. UfwJumpSeen => UfwChain \cap ruleset.declared # {}
  BY <1>1 DEF UfwJumpSeen, Inconsistent
<1>6. verdict' =
         IF Attached \cap UfwChain # {}
         THEN IF Attached \cap UfwChain \cap ruleset.ruled # {}
              THEN "verified_runtime_active" ELSE "verified_runtime_inactive"
         ELSE IF UfwChain \cap ruleset.declared # {}
              THEN "orphan_ufw_runtime" ELSE "verified_runtime_inactive"
  BY <1>4, <1>5 DEF Conclude
<1>7. TypeOK'
  BY <1>1, <1>6 DEF WalkInv, TypeOK, Verdict
<1>8. VerdictRight'
  BY <1>1, <1>6, RulesetStays DEF VerdictRight
<1> QED BY <1>1, <1>2, <1>7, <1>8, RulesetStays DEF WalkInv

LEMMA NextInv == WalkInv /\ [Next]_vars => WalkInv'
<1>1. ASSUME WalkInv, UNCHANGED vars PROVE WalkInv'
  BY <1>1, RulesetStays DEF vars, WalkInv, TypeOK, VerdictRight
<1> QED BY <1>1, ReadKeepsInv, VisitKeepsInv, ConcludeKeepsInv DEF Next

(* The verdict of classify_ruleset is right for every ruleset, whatever    *)
(* the number of chains and however they jump.                             *)
THEOREM RulesetsClassifiedRight == Spec => []VerdictRight
<1>1. WalkInv => VerdictRight
  BY DEF WalkInv
<1> QED BY <1>1, InitInv, NextInv, PTL DEF Spec

(* UfwJumpSeen decides nothing: a rule that jumps to a chain of UFW in a   *)
(* consistent ruleset jumps to a declared one.                             *)
THEOREM JumpSeenIsRedundant ==
    ~Inconsistent /\ UfwJumpSeen => UfwChain \cap ruleset.declared # {}
BY DEF UfwJumpSeen, Inconsistent
=============================================================================
