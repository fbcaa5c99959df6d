------------------------------ MODULE Launcher ------------------------------
(***************************************************************************)
(* scripts/run-dev.sh from line 56 on: the shell that starts the provider  *)
(* and one Conky per monitor, waits for the first of them to end, and      *)
(* takes the rest down.                                                    *)
(*                                                                         *)
(* A step is one simple command.  bash runs a trap between two of them, so *)
(* a signal may come between a child's start and the assignment that       *)
(* records its process id.  The "exit" of the INT and TERM traps runs the  *)
(* EXIT trap, cleanup, which first resets all traps: from there on another *)
(* signal ends the shell at once.                                          *)
(***************************************************************************)
EXTENDS Naturals, FiniteSets

CONSTANTS Monitor,          \* the monitor heads xrandr may list
          Provider,         \* the provider's process, unlike a monitor
          MaxAttempts,      \* the rounds of the start-up loop
          MaxSignals        \* bound: how many signals the shell gets

ASSUME LauncherAssumption ==
    /\ IsFiniteSet(Monitor)
    /\ Provider \notin Monitor
    /\ MaxAttempts \in Nat \ {0} /\ MaxSignals \in Nat

Child == Monitor \cup {Provider}

VARIABLES
    pc,         \* the command the shell is about to run
    process,    \* the state of each child process
    recorded,   \* the children in provider_pid and conky_pids
    asked,      \* the children that got a SIGTERM or SIGINT
    heads,      \* the monitors that have still to get a dashboard
    current,    \* the monitor of the loop's present round
    toKill,     \* the children cleanup has still to signal
    attempts,   \* the rounds of the start-up loop so far
    stateFile,  \* [[ -s $state_file ]]
    stale,      \* an earlier run has left a state file
    written,    \* observes: this provider has written the state file
    signals     \* the signals the shell has got

loopVars == <<heads, current, attempts>>
fileVars == <<stateFile, stale, written>>
vars == <<pc, process, recorded, asked, loopVars, toKill, fileVars, signals>>

Command == {"spawn", "record", "poll", "present", "monitors", "head", "start",
            "recordConky", "clickThrough", "waitAny",
            "cleanup", "kill", "wait", "exited", "killed"}

Trapped == Command \ {"cleanup", "kill", "wait", "exited", "killed"}

(* The children that kill -0 finds.  A child that was started is running,  *)
(* ended, or stuck: the provider is when a signal found its event's lock   *)
(* held (SignalIsHeeded of Provider).                                      *)
Alive == {c \in Child : process[c] \in {"running", "stuck"}}

TypeOK ==
    /\ pc \in Command
    /\ process \in [Child -> {"none", "running", "ended", "stuck"}]
    /\ recorded \subseteq Child /\ asked \subseteq Child /\ toKill \subseteq recorded
    /\ heads \subseteq Monitor /\ current \in Child
    /\ attempts \in 0..MaxAttempts
    /\ stateFile \in BOOLEAN /\ stale \in BOOLEAN /\ written \in BOOLEAN
    /\ signals \in 0..MaxSignals

Init ==
    /\ pc = "spawn"
    /\ process = [c \in Child |-> "none"]
    /\ recorded = {} /\ asked = {} /\ toKill = {} /\ heads = {}
    /\ current = Provider
    /\ attempts = 0
    /\ stale \in BOOLEAN
    /\ stateFile = stale
    /\ written = FALSE
    /\ signals = 0

-----------------------------------------------------------------------------
(* Start the provider and wait for the state file.                         *)

StartProvider ==
    /\ pc = "spawn" /\ pc' = "record"
    /\ process' = [process EXCEPT ![Provider] = "running"]
    /\ UNCHANGED <<recorded, asked, loopVars, toKill, fileVars, signals>>

RecordProvider ==
    /\ pc = "record" /\ pc' = "poll"
    /\ recorded' = recorded \cup {Provider}
    /\ UNCHANGED <<process, asked, loopVars, toKill, fileVars, signals>>

(* A round of the loop: give up when the provider has ended, leave when    *)
(* the file is there, else sleep.                                          *)
Poll ==
    /\ pc = "poll"
    /\ \/ process[Provider] = "ended" /\ pc' = "cleanup" /\ attempts' = attempts
       \/ Provider \in Alive /\ stateFile
            /\ pc' = "present" /\ attempts' = attempts
       \/ Provider \in Alive /\ ~stateFile
            /\ attempts' = attempts + 1
            /\ pc' = IF attempts' = MaxAttempts THEN "present" ELSE "poll"
    /\ UNCHANGED <<process, recorded, asked, heads, current, toKill, fileVars, signals>>

(* Mutant of CheckPresent: the loop that timed out goes on.                *)
GoOnAnyway ==
    /\ pc = "present" /\ pc' = "monitors"
    /\ UNCHANGED <<process, recorded, asked, loopVars, toKill, fileVars, signals>>

CheckPresent ==
    /\ pc = "present"
    /\ pc' = IF stateFile THEN "monitors" ELSE "cleanup"
    /\ UNCHANGED <<process, recorded, asked, loopVars, toKill, fileVars, signals>>

(* The helper lists the heads; when it fails there are none, and the       *)
(* command after it fails too.                                             *)
ListMonitors ==
    /\ pc = "monitors"
    /\ heads' \in SUBSET Monitor
    /\ pc' = IF heads' = {} THEN "cleanup" ELSE "head"
    /\ UNCHANGED <<process, recorded, asked, current, attempts, toKill, fileVars, signals>>

-----------------------------------------------------------------------------
(* One dashboard per head.                                                 *)

NextHead ==
    /\ pc = "head"
    /\ IF heads = {} THEN pc' = "waitAny" /\ UNCHANGED <<heads, current>>
                     ELSE /\ pc' = "start"
                          /\ \E m \in heads : current' = m /\ heads' = heads \ {m}
    /\ UNCHANGED <<process, recorded, asked, attempts, toKill, fileVars, signals>>

StartConky ==
    /\ pc = "start" /\ pc' = "recordConky"
    /\ process' = [process EXCEPT ![current] = "running"]
    /\ UNCHANGED <<recorded, asked, loopVars, toKill, fileVars, signals>>

(* Mutant of RecordConky: the process ids are not recorded before every    *)
(* dashboard has been started.                                             *)
RecordAtTheEnd ==
    /\ pc = "recordConky" /\ pc' = "clickThrough"
    /\ recorded' = IF heads = {} THEN recorded \cup {c \in Monitor : process[c] # "none"}
                                 ELSE recorded
    /\ UNCHANGED <<process, asked, loopVars, toKill, fileVars, signals>>

RecordConky ==
    /\ pc = "recordConky" /\ pc' = "clickThrough"
    /\ recorded' = recorded \cup {current}
    /\ UNCHANGED <<process, asked, loopVars, toKill, fileVars, signals>>

ClickThrough ==
    /\ pc = "clickThrough"
    /\ pc' \in {"head", "cleanup"}
    /\ UNCHANGED <<process, recorded, asked, loopVars, toKill, fileVars, signals>>

(* Mutant of WaitAny: only the provider is waited for.                     *)
WaitProvider ==
    /\ pc = "waitAny" /\ process[Provider] = "ended"
    /\ pc' = "cleanup"
    /\ UNCHANGED <<process, recorded, asked, loopVars, toKill, fileVars, signals>>

(* wait -n                                                                 *)
WaitAny ==
    /\ pc = "waitAny" /\ \E c \in recorded : process[c] = "ended"
    /\ pc' = "cleanup"
    /\ UNCHANGED <<process, recorded, asked, loopVars, toKill, fileVars, signals>>

-----------------------------------------------------------------------------
(* cleanup: reset the traps, signal every recorded child that still runs,  *)
(* wait for every recorded child.                                          *)

Cleanup ==
    /\ pc = "cleanup" /\ pc' = "kill"
    /\ toKill' = recorded
    /\ UNCHANGED <<process, recorded, asked, loopVars, fileVars, signals>>

KillChild(c) ==
    /\ pc = "kill" /\ c \in toKill
    /\ toKill' = toKill \ {c}
    /\ asked' = IF c \in Alive THEN asked \cup {c} ELSE asked
    /\ UNCHANGED <<pc, process, recorded, loopVars, fileVars, signals>>

EndKill ==
    /\ pc = "kill" /\ toKill = {} /\ pc' = "wait"
    /\ UNCHANGED <<process, recorded, asked, loopVars, toKill, fileVars, signals>>

Gone == \A c \in recorded : process[c] = "ended"

WaitChildren ==
    /\ pc = "wait" /\ Gone
    /\ pc' = "exited"
    /\ UNCHANGED <<process, recorded, asked, loopVars, toKill, fileVars, signals>>

-----------------------------------------------------------------------------
(* A signal.  SIGTERM goes to the shell alone; Ctrl-C goes to the whole    *)
(* group, in which a child that has its handler in place heeds it.         *)
Signal ==
    /\ signals < MaxSignals /\ pc \notin {"exited", "killed"}
    /\ signals' = signals + 1
    /\ pc' = IF pc \in Trapped THEN "cleanup" ELSE "killed"
    /\ \E S \in SUBSET Alive : asked' = asked \cup S
    /\ UNCHANGED <<process, recorded, loopVars, toKill, fileVars>>

(* The children.  One that is asked to end does, but a signal may leave    *)
(* the provider stuck instead; and each may end by itself at any time.     *)
Fate(c) == IF c = Provider THEN {"ended", "stuck"} ELSE {"ended"}

Heed(c) ==
    /\ process[c] = "running" /\ c \in asked
    /\ \E fate \in Fate(c) : process' = [process EXCEPT ![c] = fate]
    /\ UNCHANGED <<pc, recorded, asked, loopVars, toKill, fileVars, signals>>

Quit(c) ==
    /\ process[c] = "running" /\ c \notin asked
    /\ process' = [process EXCEPT ![c] = "ended"]
    /\ UNCHANGED <<pc, recorded, asked, loopVars, toKill, fileVars, signals>>

WriteFile ==
    /\ process[Provider] = "running" /\ ~written
    /\ stateFile' = TRUE /\ written' = TRUE
    /\ UNCHANGED <<pc, process, recorded, asked, loopVars, toKill, stale, signals>>

(* The shell has ended, or waits for a provider that is stuck.             *)
AtEnd == pc \in {"exited", "killed"} \/ (pc = "wait" /\ process[Provider] = "stuck")

Ended == AtEnd /\ UNCHANGED vars

Shell == \/ StartProvider \/ RecordProvider \/ Poll \/ CheckPresent
         \/ ListMonitors \/ NextHead \/ StartConky \/ RecordConky
         \/ ClickThrough \/ WaitAny
         \/ Cleanup \/ (\E c \in Child : KillChild(c)) \/ EndKill \/ WaitChildren

Next == \/ Shell \/ Signal \/ WriteFile \/ Ended
        \/ \E c \in Child : Heed(c) \/ Quit(c)

Spec == Init /\ [][Next]_vars

(* The shell runs, and a child that is asked to end does, or gets stuck.   *)
Fairness == WF_vars(Shell) /\ \A c \in Child : WF_vars(Heed(c))

FairSpec == Spec /\ Fairness

-----------------------------------------------------------------------------
(* When cleanup has run to its end no recorded child is left, and at most  *)
(* one that is not recorded: the one whose start the signal followed.      *)
CleanupIsThorough ==
    pc = "exited" =>
        /\ \A c \in recorded : process[c] = "ended"
        /\ Alive \subseteq {current}

(* A dashboard never starts before a state file is there, and without one  *)
(* left from an earlier run it is the file of this provider.               *)
DashboardsHaveData ==
    (\E m \in Monitor : process[m] # "none") => stateFile /\ (stale \/ written)

(* When the provider or any dashboard ends, or a signal comes, all the     *)
(* processes the launcher has recorded end.  Two things may prevent it:    *)
(* the provider is stuck (SignalIsHeeded), or a signal during cleanup,     *)
(* which by then has reset its traps, ends the shell before it has asked   *)
(* every one.                                                              *)
CutShort == pc = "killed" /\ (recorded \cap Alive) \ asked # {}

OneDownAllDown ==
    (signals > 0 \/ \E c \in recorded : process[c] = "ended")
        ~> \/ \A c \in recorded : process[c] = "ended"
           \/ process[Provider] = "stuck" /\ recorded \cap Alive = {Provider}
           \/ CutShort

(* The strengthening that makes the two invariants inductive: a child runs *)
(* unrecorded only between its start and the next command, and only a      *)
(* shell that has seen the state file goes on to the dashboards.           *)
LauncherInv ==
    /\ TypeOK /\ CleanupIsThorough /\ DashboardsHaveData
    /\ Alive \ recorded \subseteq {current}
    /\ pc \notin {"record", "recordConky"} \cup (Command \ Trapped)
          => Alive \subseteq recorded
    /\ pc \in {"spawn", "record", "poll", "present"}
          => current = Provider /\ \A m \in Monitor : process[m] = "none"
    /\ pc \in {"spawn", "record", "poll"} => attempts < MaxAttempts
    /\ pc \in Trapped \ {"spawn", "record", "poll", "present"} => stateFile
    /\ stateFile => stale \/ written

(* README.md: "The launcher terminates every Conky instance and the shared *)
(* provider and does not leave a daemon behind."                           *)
NoneLeftBehind == pc \in {"exited", "killed"} => Alive = {}
=============================================================================
