---------------------------- MODULE ProviderLoop ----------------------------
(***************************************************************************)
(* The main thread of run_provider of src/bhola_provider.py: what it does  *)
(* between the calls of the probe manager, and the signal that stops it.   *)
(* Provider composes it with what the manager promises, ProviderProcess    *)
(* with the manager itself and its threads.                                *)
(*                                                                         *)
(* A pass of the scheduler collects some of the sources, among them every  *)
(* one that was never collected, as SourceScheduler shows (LoopInv); a     *)
(* write is one step or nothing, as CacheFile shows.                       *)
(*                                                                         *)
(* stop_event is a threading.Event: wait() holds the event's lock for a    *)
(* moment before it sleeps and again after it wakes, and set() needs that  *)
(* lock.  Python runs a signal handler in the main thread between any two  *)
(* of its steps, and the lock is not re-entrant.                           *)
(***************************************************************************)
EXTENDS Naturals

CONSTANTS Source,           \* the scheduled sources
          NoDoc,            \* the state file does not exist
          MaxSignals        \* bound: how many signals are sent

VARIABLES
    record,         \* of the probe manager; the loop only reads it
    loop,           \* where the main thread is
    once,           \* the --once option
    stop,           \* the flag of stop_event
    signals,        \* the signals delivered so far
    health,         \* payload["source_<name>"]
    completed,      \* this pass has collected a source
    payload,        \* the records as update_payload copied them
    stored,         \* the document in the state file
    status,         \* how run_provider will return
    lateWrites      \* observes: the writes since the flag was set, up to 2

passVars == <<health, completed, payload>>
fileVars == <<stored, status, lateWrites>>

Health == {"none", "ok", "unknown"}

Place == {"top", "collect", "tick", "write", "wait", "locked", "asleep", "relocked",
          "finally", "closing", "exited", "stuck"}

Init ==
    /\ once \in BOOLEAN
    /\ loop = "top"
    /\ stop = FALSE
    /\ signals = 0
    /\ health = [s \in Source |-> "none"]
    /\ completed = FALSE
    /\ payload = record
    /\ stored = NoDoc
    /\ status = "running"
    /\ lateWrites = 0

-----------------------------------------------------------------------------
(* One pass of the loop.                                                   *)

(* Mutant of Top: the flag is not looked at after a pass that wrote.       *)
TopAfterWrite ==
    /\ loop = "top"
    /\ IF stop /\ ~completed THEN loop' = "finally" /\ status' = "ok"
                             ELSE loop' = "collect" /\ status' = status
    /\ UNCHANGED <<once, stop, signals, passVars, stored, lateWrites>>

Top ==
    /\ loop = "top"
    /\ IF stop THEN loop' = "finally" /\ status' = "ok"
               ELSE loop' = "collect" /\ status' = status
    /\ UNCHANGED <<once, stop, signals, passVars, stored, lateWrites>>

(* Mutant of Due: a source need not be due at the start.                   *)
AnySources == SUBSET Source

Due == {D \in SUBSET Source : \A s \in Source : health[s] = "none" => s \in D}

(* scheduler.run_due(now, payload), until tick looks at the futures.  With *)
(* --once there is no manager.                                             *)
RunDue ==
    /\ loop = "collect"
    /\ \E D \in Due :
          /\ health' \in {h \in [Source -> Health] :
                \A s \in Source : IF s \in D THEN h[s] # "none" ELSE h[s] = health[s]}
          /\ completed' = (D # {})
          /\ loop' = IF ~once THEN "tick" ELSE IF D # {} THEN "write" ELSE "wait"
    /\ UNCHANGED <<once, stop, signals, payload, fileVars>>

(* Mutant of CopyRecords: only the records of a success are copied.        *)
CopyGoodOnly == payload' = [p \in DOMAIN record |->
                    IF record[p].source_state = "fresh" THEN record[p] ELSE payload[p]]

CopyRecords == payload' = record

(* tick is done; update_payload; write if a source was collected.          *)
AfterTick ==
    /\ loop = "tick"
    /\ CopyRecords
    /\ loop' = IF completed THEN "write" ELSE "wait"
    /\ UNCHANGED <<once, stop, signals, health, completed, fileVars>>

(* Mutant of Written: the document is made once and for all.               *)
KeepFirst == IF stored = NoDoc THEN [health |-> health, records |-> payload]
                               ELSE stored

Written == [health |-> health, records |-> payload]

Write ==
    /\ loop = "write"
    /\ stored' = Written
    /\ IF once THEN loop' = "finally" /\ status' = "ok"
               ELSE loop' = "wait" /\ status' = status
    /\ lateWrites' = IF stop /\ lateWrites < 2 THEN lateWrites + 1 ELSE lateWrites
    /\ UNCHANGED <<once, stop, signals, passVars>>

(* atomic_write_json raises, and with it run_provider.                     *)
WriteFails ==
    /\ loop = "write"
    /\ loop' = "finally"
    /\ status' = "error"
    /\ UNCHANGED <<once, stop, signals, passVars, stored, lateWrites>>

-----------------------------------------------------------------------------
(* stop_event.wait(wait): take the lock, look at the flag, release the     *)
(* lock and sleep, wake by time or by the flag, take the lock again.       *)

LockEvent ==
    /\ loop = "wait" /\ loop' = "locked"
    /\ UNCHANGED <<once, stop, signals, passVars, fileVars>>

Sleep ==
    /\ loop = "locked"
    /\ loop' = IF stop THEN "top" ELSE "asleep"
    /\ UNCHANGED <<once, stop, signals, passVars, fileVars>>

Wake ==
    /\ loop = "asleep" /\ loop' = "relocked"
    /\ UNCHANGED <<once, stop, signals, passVars, fileVars>>

Unlock ==
    /\ loop = "relocked" /\ loop' = "top"
    /\ UNCHANGED <<once, stop, signals, passVars, fileVars>>

(* What run_provider does without the manager.                             *)
Alone == Write \/ WriteFails \/ LockEvent \/ Sleep \/ Wake \/ Unlock

(* SIGINT or SIGTERM: request_stop calls stop_event.set() in the main      *)
(* thread, which waits for ever when that thread holds the lock.           *)
Signal ==
    /\ signals < MaxSignals /\ loop \notin {"exited", "stuck"}
    /\ signals' = signals + 1
    /\ IF loop \in {"locked", "relocked"}
       THEN loop' = "stuck" /\ stop' = stop
       ELSE loop' = loop /\ stop' = TRUE
    /\ UNCHANGED <<once, passVars, fileVars>>

(* Mutant of Leave: an error leaves without waiting for close.             *)
LeaveUnlessError ==
    /\ loop = "finally"
    /\ loop' = IF once \/ status = "error" THEN "exited" ELSE "closing"
    /\ UNCHANGED <<once, stop, signals, passVars, fileVars>>

(* The finally clause calls close() of the manager, if there is one, and   *)
(* close returns.                                                          *)
Leave ==
    /\ loop = "finally"
    /\ loop' = IF once THEN "exited" ELSE "closing"
    /\ UNCHANGED <<once, stop, signals, passVars, fileVars>>

Return ==
    /\ loop = "closing" /\ loop' = "exited"
    /\ UNCHANGED <<once, stop, signals, passVars, fileVars>>
=============================================================================
