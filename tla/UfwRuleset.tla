----------------------------- MODULE UfwRuleset ------------------------------
(***************************************************************************)
(* classify_ruleset of src/bhola_ufw_probe.py: does a chain of the host's  *)
(* input path lead to UFW's chains, and do they hold rules?                *)
(*                                                                         *)
(* A ruleset is the graph the JSON document describes.  Its entries are    *)
(* read in two loops that only collect: what they find does not depend on  *)
(* the order of the entries, so they are one step.  The walk over the      *)
(* graph is modelled visit by visit, with any order of the queue.          *)
(***************************************************************************)
CONSTANTS Chain,        \* the chains that are declared, or named by a rule
          UfwChain,     \* those whose name is one of UFW's
          Link          \* bound: the jumps a rule may have, as <<from, to>>

ASSUME ChainAssumption == UfwChain \subseteq Chain /\ Link \subseteq Chain \X Chain

VARIABLES
    ruleset,    \* the document
    pc,         \* where classify_ruleset is
    reachable,  \* the chains the walk has visited
    queue,      \* the chains it has still to visit
    verdict     \* the detail of the evidence it returns

vars == <<ruleset, pc, reachable, queue, verdict>>

(* declared: the chains with an entry of their own; input: those among     *)
(* them that are base chains of the input hook; ruled: the chains that     *)
(* rules name as theirs; jumps: the jump and goto targets of these rules;  *)
(* malformed: something has the wrong shape, or a chain is declared twice. *)
RulesetOf(declared, input, ruled) ==
    [declared : {declared}, input : {input}, ruled : {ruled},
     jumps : SUBSET {l \in Link : l[1] \in ruled}, malformed : BOOLEAN]

Verdict == {"verified_runtime_active", "verified_runtime_inactive",
            "orphan_ufw_runtime", "inconsistent_ruleset"}

TypeOK ==
    /\ ruleset \in [declared : SUBSET Chain, input : SUBSET Chain, ruled : SUBSET Chain,
                    jumps : SUBSET (Chain \X Chain), malformed : BOOLEAN]
    /\ ruleset.input \subseteq ruleset.declared
    /\ ruleset.jumps \subseteq ruleset.ruled \X Chain
    /\ pc \in {"read", "walk", "done"}
    /\ reachable \subseteq Chain /\ queue \subseteq Chain
    /\ verdict \in Verdict \cup {"none"}

Init ==
    /\ \E R \in SUBSET Chain, D \in SUBSET Chain :
       \E I \in SUBSET D : ruleset \in RulesetOf(D, I, R)
    /\ pc = "read"
    /\ reachable = {} /\ queue = {}
    /\ verdict = "none"

-----------------------------------------------------------------------------
Targets(c) == {d \in Chain : <<c, d>> \in ruleset.jumps}

(* A rule belongs to no declared chain, or jumps to none.                  *)
Inconsistent ==
    \/ ruleset.malformed
    \/ ~(ruleset.ruled \subseteq ruleset.declared)
    \/ \E c \in ruleset.ruled : ~(Targets(c) \subseteq ruleset.declared)

UfwJumpSeen == \E c \in ruleset.ruled : Targets(c) \cap UfwChain # {}

Read ==
    /\ pc = "read"
    /\ IF Inconsistent
       THEN pc' = "done" /\ verdict' = "inconsistent_ruleset" /\ queue' = queue
       ELSE pc' = "walk" /\ queue' = ruleset.input /\ verdict' = verdict
    /\ UNCHANGED <<ruleset, reachable>>

(* Mutants of Visit: only the input chains' own targets are followed, and  *)
(* a chain that was visited is visited again.                              *)
FollowInputOnly(c) ==
    /\ pc = "walk" /\ c \in queue
    /\ reachable' = reachable \cup {c}
    /\ queue' = IF c \in reachable \/ c \notin ruleset.input THEN queue \ {c}
                ELSE (queue \ {c}) \cup Targets(c)
    /\ UNCHANGED <<ruleset, pc, verdict>>

VisitAgain(c) ==
    /\ pc = "walk" /\ c \in queue
    /\ reachable' = reachable \cup {c}
    /\ queue' = (queue \ {c}) \cup Targets(c)
    /\ UNCHANGED <<ruleset, pc, verdict>>

Visit(c) ==
    /\ pc = "walk" /\ c \in queue
    /\ reachable' = reachable \cup {c}
    /\ queue' = IF c \in reachable THEN queue \ {c}
                ELSE (queue \ {c}) \cup Targets(c)
    /\ UNCHANGED <<ruleset, pc, verdict>>

ReachableUfw == reachable \cap UfwChain \cap ruleset.declared

Conclude ==
    /\ pc = "walk" /\ queue = {}
    /\ pc' = "done"
    /\ verdict' =
         IF ReachableUfw # {}
         THEN IF ReachableUfw \cap ruleset.ruled # {}
              THEN "verified_runtime_active" ELSE "verified_runtime_inactive"
         ELSE IF UfwChain \cap ruleset.declared # {} \/ UfwJumpSeen
              THEN "orphan_ufw_runtime" ELSE "verified_runtime_inactive"
    /\ UNCHANGED <<ruleset, reachable, queue>>

Next == Read \/ (\E c \in Chain : Visit(c)) \/ Conclude \/ (pc = "done" /\ UNCHANGED vars)

Spec == Init /\ [][Next]_vars

(* classify_ruleset runs to its end; no one else touches its variables.    *)
FairSpec == Spec /\ WF_vars(Next)

-----------------------------------------------------------------------------
(* What "reachable from the input hook" means: the least set of chains     *)
(* that holds the input chains and, with a chain, all its targets.         *)
Closed(S) == ruleset.input \subseteq S /\ \A c \in S : Targets(c) \subseteq S

Attached == {c \in Chain : \A S \in SUBSET Chain : Closed(S) => c \in S}

(* docs/ufw-runtime-probe.md: UFW is called active exactly when a chain of *)
(* UFW that holds rules is attached to the input hook.  It is called       *)
(* inactive when none of them is and there is a path to UFW without rules, *)
(* or no chain of UFW at all.  What is left is unconfirmed: chains of UFW, *)
(* none of them attached.                                                  *)
(*                                                                         *)
(* Where an empty chain of UFW is attached and another one, with or        *)
(* without rules, is orphaned, the document gives two answers: inactive    *)
(* ("its attached UFW path contains no runtime rules") and unconfirmed     *)
(* ("UFW artifacts are orphaned").  The code looks at what is attached     *)
(* first, and so does this.                                                *)
VerdictRight ==
    pc = "done" =>
        /\ verdict = "verified_runtime_active" <=>
              ~Inconsistent /\ Attached \cap UfwChain \cap ruleset.ruled # {}
        /\ verdict = "verified_runtime_inactive" <=>
              /\ ~Inconsistent /\ Attached \cap UfwChain \cap ruleset.ruled = {}
              /\ Attached \cap UfwChain # {} \/ ruleset.declared \cap UfwChain = {}
        /\ verdict = "inconsistent_ruleset" <=> Inconsistent

(* The walk ends, also on a ruleset whose chains jump in a circle.         *)
WalkEnds == <>(pc = "done")

(* What the walk knows: all it has met is attached, and what it has        *)
(* visited is closed but for what is queued.                               *)
WalkInv ==
    /\ TypeOK /\ VerdictRight
    /\ reachable \cup queue \subseteq Attached
    /\ pc = "read" => reachable = {} /\ queue = {}
    /\ pc = "walk" => /\ ~Inconsistent
                      /\ ruleset.input \subseteq reachable \cup queue
                      /\ \A c \in reachable : Targets(c) \subseteq reachable \cup queue
=============================================================================
