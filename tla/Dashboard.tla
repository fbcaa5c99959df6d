----------------------------- MODULE Dashboard -----------------------------
(***************************************************************************)
(* From the provider's pass to the LIVE label of a dashboard: run_provider *)
(* of src/bhola_provider.py stamps each document with the wall clock, and  *)
(* data.read of conky/bhola_data.lua, called for every frame, parses the   *)
(* file on every fifth frame and judges its freshness on every frame.      *)
(*                                                                         *)
(* A unit of time is a fraction of a second, and the wall clock, which     *)
(* both sides read in whole seconds, may be set: a document keeps how many *)
(* seconds the wall clock shows since its stamp, and as observations how   *)
(* much time there really was and by how much the clock was set meanwhile. *)
(* The provider has the one source that is due every second; the others    *)
(* add to the time its pass takes (SourceScheduler has them all).          *)
(***************************************************************************)
EXTENDS Integers

CONSTANTS Nil,          \* no document
          Second,       \* units of time in a second
          Frame,        \* units of time between two frames
          MaxWait,      \* the longest wait between two passes
          MaxBlock,     \* bound: units that a pass takes
          GoodPass,     \* units that a pass of a provider on pace may take
          Jump,         \* bound: the seconds by which the clock is set
          MaxJumps      \* bound: how often it is set

FreshFor == 3
RereadEvery == 5

(* Where wall and real stop: setting the clock back makes nothing fresh    *)
(* that is so old.                                                         *)
Reach == MaxJumps * Jump
Old == FreshFor + 1 + Reach
Forever == (Old + Reach) * Second

Document == [wall : (-Reach)..Old, real : 0..Forever, set : (-Reach)..Reach,
             own : BOOLEAN]

ASSUME DashboardAssumption ==
    /\ Second \in Nat \ {0} /\ Frame \in Nat \ {0}
    /\ MaxWait \in Nat /\ MaxBlock \in Nat /\ GoodPass \in Nat
    /\ Jump \in Nat /\ MaxJumps \in Nat
    /\ Nil \notin Document

VARIABLES
    alive,      \* the provider goes on; one that has hung does not
    at,         \* "waiting", "collecting" or "writing"
    lag,        \* the age of the pass's "now"
    wakeIn,     \* what is left of the wait
    dueIn,      \* next_run of the source, relative to the clock
    pending,    \* the stamped document that is being written
    file,       \* the state file; Nil: missing, or of another schema
    lastValid,  \* last_valid
    readCounter,\* read_counter, modulo RereadEvery
    frameIn,    \* time until the next frame
    live,       \* cache_fresh, as last drawn
    sub,        \* the time since the wall clock's second began
    jumps,      \* how often the wall clock may still be set
    paced       \* observes: no pass so far took more than GoodPass

provider == <<alive, at, lag, wakeIn, dueIn>>
documents == <<pending, file, lastValid>>
frames == <<readCounter, frameIn, live>>
clock == <<sub, jumps, paced>>
vars == <<provider, documents, frames, clock>>

TypeOK ==
    /\ {alive, live, paced} \subseteq BOOLEAN
    /\ at \in {"waiting", "collecting", "writing"}
    /\ lag \in 0..MaxBlock /\ wakeIn \in 0..MaxWait /\ dueIn \in Int
    /\ {pending, file, lastValid} \subseteq Document \cup {Nil}
    /\ readCounter \in 0..(RereadEvery - 1) /\ frameIn \in 0..Frame
    /\ sub \in 0..(Second - 1) /\ jumps \in 0..MaxJumps

Stamped == [wall |-> 0, real |-> 0, set |-> 0, own |-> TRUE]

(* What an earlier run has left: nothing, or a document of now or of old.  *)
LeftBehind == {Nil, [wall |-> 0, real |-> 0, set |-> 0, own |-> FALSE],
               [wall |-> Old, real |-> Forever, set |-> 0, own |-> FALSE]}

Init ==
    /\ alive = TRUE /\ at = "waiting" /\ lag = 0 /\ wakeIn = 0 /\ dueIn = 0
    /\ pending = Nil /\ lastValid = Nil /\ file \in LeftBehind
    /\ readCounter = 0 /\ frameIn = 0 /\ live = FALSE
    /\ sub \in 0..(Second - 1) /\ jumps = MaxJumps /\ paced = TRUE

-----------------------------------------------------------------------------
(* Time.  A frame is drawn when it is due, a wait ends when it is over.    *)

Least(a, b) == IF a <= b THEN a ELSE b

Aged(d) ==
    IF d = Nil THEN Nil
    ELSE [d EXCEPT !.real = Least(Forever, @ + 1),
                   !.wall = IF sub = Second - 1 THEN Least(Old, @ + 1) ELSE @]

Reset(d, k) ==
    IF d = Nil THEN Nil ELSE [d EXCEPT !.wall = Least(Old, @ + k), !.set = @ + k]

(* Of a provider that has hung the times do not matter any more.           *)
Elapse ==
    \/ ~alive /\ UNCHANGED <<lag, wakeIn, dueIn>>
    \/ alive /\ at = "waiting" /\ wakeIn > 0
        /\ wakeIn' = wakeIn - 1 /\ dueIn' = dueIn - 1 /\ lag' = lag
    \/ alive /\ at # "waiting" /\ lag < MaxBlock
        /\ lag' = lag + 1 /\ dueIn' = dueIn - 1 /\ wakeIn' = wakeIn

Tick ==
    /\ Elapse
    /\ frameIn > 0 /\ frameIn' = frameIn - 1
    /\ sub' = (sub + 1) % Second
    /\ pending' = Aged(pending) /\ file' = Aged(file) /\ lastValid' = Aged(lastValid)
    /\ paced' = (paced /\ lag' <= GoodPass)
    /\ UNCHANGED <<alive, at, readCounter, live, jumps>>

SetClock(k) ==
    /\ jumps > 0 /\ jumps' = jumps - 1
    /\ pending' = Reset(pending, k)
    /\ file' = Reset(file, k)
    /\ lastValid' = Reset(lastValid, k)
    /\ UNCHANGED <<provider, frames, sub, paced>>

-----------------------------------------------------------------------------
(* The provider's pass.                                                    *)

StartPass ==
    /\ alive /\ at = "waiting" /\ wakeIn = 0
    /\ at' = "collecting"
    /\ UNCHANGED <<alive, lag, wakeIn, dueIn, documents, frames, clock>>

(* run_due(now): the source is collected if it was due at the pass's       *)
(* "now", and then the pass has a document, stamped with the time of now.  *)
Collect ==
    /\ alive /\ at = "collecting"
    /\ at' = "writing"
    /\ IF dueIn + lag > 0
       THEN UNCHANGED <<dueIn, pending>>
       ELSE /\ dueIn' = IF dueIn + Second <= -lag THEN Second - lag ELSE dueIn + Second
            /\ pending' = Stamped
    /\ UNCHANGED <<alive, lag, wakeIn, file, lastValid, frames, clock>>

(* The file changes at the rename; then the wait is computed, which the    *)
(* probes may make shorter.                                                *)
FinishPass ==
    /\ alive /\ at = "writing"
    /\ at' = "waiting" /\ lag' = 0
    /\ file' = IF pending = Nil THEN file ELSE pending
    /\ pending' = Nil
    /\ wakeIn' \in {n \in 0..MaxWait : n = 0 \/ n <= dueIn}
    /\ UNCHANGED <<alive, dueIn, lastValid, frames, clock>>

(* The provider is killed, or one of its calls never returns.              *)
Hang ==
    /\ alive /\ alive' = FALSE
    /\ at' = "waiting" /\ lag' = 0 /\ wakeIn' = 0 /\ dueIn' = 0 /\ pending' = Nil
    /\ UNCHANGED <<file, lastValid, frames, clock>>

-----------------------------------------------------------------------------
(* A frame: data.read, then the drawing of what it returned.               *)

(* Mutant of Rereads: the file is parsed until it has been valid once.     *)
UntilValid == lastValid = Nil

Rereads == lastValid = Nil \/ (readCounter + 1) % RereadEvery = 1

(* Mutants of CacheFresh: the limit includes the second that has begun;    *)
(* a document that is read is taken for one of this moment.                *)
FreshTooLong(d) == d # Nil /\ d.wall <= FreshFor + 1
FreshWhenRead(d) == d # Nil /\ (d.wall <= FreshFor \/ Rereads)

CacheFresh(d) == d # Nil /\ d.wall <= FreshFor

Draw ==
    /\ frameIn = 0 /\ frameIn' = Frame
    /\ readCounter' = (readCounter + 1) % RereadEvery
    /\ lastValid' = IF Rereads /\ file # Nil THEN file ELSE lastValid
    /\ live' = CacheFresh(lastValid')
    /\ UNCHANGED <<provider, pending, file, clock>>

Next == \/ Tick \/ SetClock(Jump) \/ SetClock(-Jump)
        \/ StartPass \/ Collect \/ FinishPass \/ Hang \/ Draw

Spec == Init /\ [][Next]_vars

(* Time goes on and frames are drawn, whatever becomes of the provider.    *)
FairSpec == Spec /\ WF_vars(Tick) /\ WF_vars(Draw)

-----------------------------------------------------------------------------
(* What is drawn as LIVE is recent: the values were stamped less than four *)
(* seconds before, whether or not the provider still runs.  A clock that   *)
(* was set back since then adds what it was set back by (the age is        *)
(* clamped to zero, so that such values count as new), never more.         *)
LiveIsRecent ==
    [][Draw /\ live' => lastValid'.real < (FreshFor + 1 - lastValid'.set) * Second]_vars

(* The passes of a provider on pace and the frames are frequent enough: a  *)
(* document that was stamped a second and two passes before it is read,    *)
(* and shown for four frames more, is not three seconds old.               *)
Brisk == GoodPass + 2 * Frame <= Second

(* A provider on pace is never drawn as STALE: with a document every       *)
(* second, parsed on every fifth frame, and times cut to whole seconds on  *)
(* both sides, the three seconds are enough at the slowest frame rate, and *)
(* stay so if the clock is set back.  (They are not if passes may take two *)
(* thirds of a second, or the clock is set forward.)                       *)
PacedIsLive ==
    [][Draw /\ alive /\ paced /\ lastValid' # Nil /\ ~live'
        => ~lastValid'.own \/ lastValid'.set > 0]_vars

(* When the provider hangs or dies, every dashboard shows STALE in the end *)
(* and for good, whatever the clock shows meanwhile.                       *)
HungIsShown == ~alive ~> []~live
=============================================================================
