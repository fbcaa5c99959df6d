------------------------------ MODULE UfwStatus ------------------------------
(***************************************************************************)
(* The way of the firewall's state to the dashboard: a root-owned probe,   *)
(* started by a systemd timer, leaves what it saw in a file, and the       *)
(* "services" source of the provider turns the file into the UFW card.     *)
(*                                                                         *)
(* The probe and the collector are two processes.  Time may pass between   *)
(* any two of their steps, and the instants they compare are all taken at  *)
(* other moments than what they stand for: the observation is stamped      *)
(* after the ruleset was listed, the collector reads its clock before it   *)
(* reads the file, and the card is shown until the next collection.        *)
(*                                                                         *)
(* Time is counted in ticks, and every instant is kept as its age, up to   *)
(* Cap.  One time serves the wall clock, by which the file ages, and the   *)
(* monotonic clock of timer and provider: the wall clock is taken not to   *)
(* be set meanwhile, and the machine not to be suspended, which would age  *)
(* the file without the loss of a run.  A write of the file is one step or *)
(* nothing: atomic_write_state syncs and renames as CacheFile does.        *)
(***************************************************************************)
EXTENDS Naturals, UfwEvidence

CONSTANTS Inode,        \* file identities: what lstat and fstat compare
          NoFile,       \* the inode of no file
          Listed,       \* what a listing of the ruleset may show
          MinPeriod,    \* the timer starts the probe no sooner after its last start
          MaxPeriod,    \* and no later
          MaxRun,       \* systemd ends a run that takes longer
          Stale,        \* UFW_STATE_STALE_SECONDS
          Tolerance,    \* UFW_FUTURE_TOLERANCE_SECONDS
          Hold,         \* the longest time between two collections
          MaxBlock,     \* the longest a collection takes once it has read the clock
          Cap           \* bound: older than this is not told apart

ASSUME InodeAssumption == NoFile \notin Inode

ASSUME ListedAssumption == Listed \subseteq ProbeEvidence

ASSUME PeriodAssumption ==
    /\ MinPeriod \in Nat /\ MaxPeriod \in Nat /\ MaxRun \in Nat
    /\ MaxRun <= MinPeriod /\ MinPeriod <= MaxPeriod
    /\ Stale \in Nat /\ Tolerance \in Nat /\ Hold \in Nat /\ MaxBlock \in Nat
    /\ MaxBlock <= Tolerance
    /\ 2 * MaxPeriod + MaxRun <= Stale

(* The oldest sample a card may still stand for.                           *)
MaxAge == MaxRun + Stale + MaxBlock + Hold + MaxBlock

ASSUME CapAssumption == Cap \in Nat /\ MaxAge < Cap

VARIABLES
    probe,      \* where the probe is
    sinceStart, \* the age of its last start
    evidence,   \* what the listing of the ruleset showed
    config,     \* what the probe read in ufw.conf
    sampled,    \* the age of the listing
    stamped,    \* the age of observed_at_epoch
    lost,       \* observes: the runs in a row that left no file, up to 2
    file,       \* the state file: its inode, and what it says and stands for
    collector,  \* where the collector is
    etcConfig,  \* what the collector read in ufw.conf
    sinceNow,   \* the age of the "now" it read, or of its last collection
    looked,     \* the file lstat saw
    card        \* what the dashboard shows, and the age of the sample behind it

probeVars == <<probe, sinceStart, evidence, config, sampled, stamped, lost>>
collectorVars == <<collector, etcConfig, sinceNow, looked>>
vars == <<probeVars, file, collectorVars, card>>

StateFile == [inode : Inode \cup {NoFile}, evidence : ProbeEvidence,
              config : Config, age : 0..Cap, sampled : 0..Cap]

Status == {"ok", "degraded", "off", "unknown"}
Detail == {"verified_runtime_active", "verified_runtime_inactive", "config_disabled",
           "probe_missing", "probe_invalid", "probe_stale", "probe_error",
           "probe_unconfirmed"}

TypeOK ==
    /\ probe \in {"idle", "list", "stamp", "write"}
    /\ sinceStart \in 0..Cap /\ sampled \in 0..Cap /\ stamped \in 0..Cap
    /\ evidence \in ProbeEvidence /\ config \in Config
    /\ lost \in 0..2
    /\ file \in StateFile
    /\ collector \in {"idle", "clock", "lstat", "open"}
    /\ etcConfig \in Config
    /\ sinceNow \in 0..Cap
    /\ looked \in Inode \cup {NoFile}
    /\ card \in [status : Status, runtime : RuntimeValues, detail : Detail,
                 sampled : 0..Cap]

NoEvidence == Evidence("error", FALSE, "program_missing")

Card(status, runtime, detail) ==
    [status |-> status, runtime |-> runtime, detail |-> detail, sampled |-> 0]

Unknown(detail) == Card("unknown", "unconfirmed", detail)

(* The system has just booted, and the provider has just started.          *)
Init ==
    /\ probe = "idle" /\ sinceStart = 0
    /\ evidence = NoEvidence /\ config = "unknown"
    /\ sampled = 0 /\ stamped = 0 /\ lost = 0
    /\ file = [inode |-> NoFile, evidence |-> NoEvidence, config |-> "unknown",
               age |-> 0, sampled |-> 0]
    /\ collector = "idle" /\ etcConfig = "unknown" /\ sinceNow = 0
    /\ looked = NoFile
    /\ card = Unknown("probe_missing")

-----------------------------------------------------------------------------
(* Time.  It stops for what has to happen first: the timer starts the      *)
(* probe, systemd ends a run, the provider's loop collects.                *)

Claim == {"ok", "degraded"}

Older(age) == IF age < Cap THEN age + 1 ELSE age

Pass ==
    /\ IF probe = "idle" THEN sinceStart < MaxPeriod ELSE sinceStart < MaxRun
    /\ IF collector = "idle" THEN sinceNow < Hold ELSE sinceNow < MaxBlock
    /\ sinceStart' = Older(sinceStart)
    /\ sampled' = (IF probe \in {"stamp", "write"} THEN Older(sampled) ELSE sampled)
    /\ stamped' = (IF probe = "write" THEN Older(stamped) ELSE stamped)
    /\ sinceNow' = Older(sinceNow)
    /\ file' = IF file.inode = NoFile THEN file
               ELSE [file EXCEPT !.age = Older(@), !.sampled = Older(@)]
    /\ card' = IF card.status \in Claim THEN [card EXCEPT !.sampled = Older(@)] ELSE card
    /\ UNCHANGED <<probe, evidence, config, lost, collector, etcConfig, looked>>

-----------------------------------------------------------------------------
(* The probe.                                                              *)

Start ==
    /\ probe = "idle" /\ MinPeriod <= sinceStart
    /\ probe' = "list"
    /\ sinceStart' = 0
    /\ UNCHANGED <<evidence, config, sampled, stamped, lost, file, collectorVars, card>>

(* nft lists the ruleset, or fails.                                        *)
List(e) ==
    /\ probe = "list"
    /\ probe' = "stamp"
    /\ evidence' = e
    /\ sampled' = 0
    /\ UNCHANGED <<sinceStart, config, stamped, lost, file, collectorVars, card>>

(* build_state(evidence, read_ufw_config(), int(time.time()))              *)
Stamp(c) ==
    /\ probe = "stamp" /\ Buildable(evidence)
    /\ probe' = "write"
    /\ config' = c
    /\ stamped' = 0
    /\ UNCHANGED <<sinceStart, evidence, sampled, lost, file, collectorVars, card>>

(* The run is over: what it held is gone.                                  *)
Exit ==
    /\ probe' = "idle"
    /\ evidence' = NoEvidence /\ config' = "unknown"
    /\ sampled' = 0 /\ stamped' = 0
    /\ UNCHANGED sinceStart

(* The new file exists beside the old one until the rename, so that its    *)
(* inode is another; an inode given up before may come back.               *)
Write(i) ==
    /\ probe = "write" /\ i # file.inode
    /\ Exit
    /\ lost' = 0
    /\ file' = [inode |-> i, evidence |-> evidence, config |-> config,
                age |-> stamped, sampled |-> sampled]
    /\ UNCHANGED <<collectorVars, card>>

(* The run is ended by systemd, or a step of the write raises.             *)
Abort ==
    /\ probe # "idle"
    /\ Exit
    /\ lost' = IF lost < 2 THEN lost + 1 ELSE lost
    /\ UNCHANGED <<file, collectorVars, card>>

-----------------------------------------------------------------------------
(* The collector.                                                          *)

(* now = int(self.wall_time())                                             *)
ReadClock ==
    /\ collector = "idle"
    /\ collector' = "clock"
    /\ sinceNow' = 0
    /\ UNCHANGED <<probeVars, file, etcConfig, looked, card>>

Collected(shown) ==
    /\ collector' = "idle" /\ etcConfig' = "unknown"
    /\ sinceNow' = 0
    /\ looked' = NoFile
    /\ card' = shown
    /\ UNCHANGED <<probeVars, file>>

ReadConfig(c) ==
    /\ collector = "clock"
    /\ \/ c = "disabled" /\ Collected(Card("off", "inactive", "config_disabled"))
       \/ /\ c # "disabled"
          /\ collector' = "lstat" /\ etcConfig' = c
          /\ UNCHANGED <<probeVars, file, sinceNow, looked, card>>

Lstat ==
    /\ collector = "lstat"
    /\ \/ file.inode = NoFile /\ Collected(Unknown("probe_missing"))
       \/ /\ file.inode # NoFile
          /\ collector' = "open" /\ looked' = file.inode
          /\ UNCHANGED <<probeVars, file, etcConfig, sinceNow, card>>

(* A check of owner, mode, links or size fails, or a call does.            *)
Refuse ==
    /\ collector \in {"lstat", "open"}
    /\ Collected(Unknown("probe_invalid"))

(* Mutant of FromFuture: the file cannot be younger than the clock read.   *)
Intolerant == sinceNow > file.age

(* observed > now + UFW_FUTURE_TOLERANCE_SECONDS, of the file that is open *)
FromFuture == sinceNow > file.age + Tolerance

(* Mutant of TooOld: off by one.                                           *)
AtLimit == file.age >= sinceNow + Stale

(* now - observed > stale_seconds                                          *)
TooOld == file.age > sinceNow + Stale

(* Mutant of Expired: a claim made before is retained, as for the probes.  *)
Retain == IF card.status \in Claim THEN card ELSE Unknown("probe_stale")

Expired == Unknown("probe_stale")

(* The card of a state that has been accepted.  When the collector cannot  *)
(* read ufw.conf it relies on what the probe has read.                     *)
FromState ==
    LET effective == IF etcConfig # "unknown" THEN etcConfig ELSE file.config
        runtime == file.evidence.runtime
        shown == CardOf(file.evidence)
    IN  IF effective = "disabled" THEN Card("off", runtime, "config_disabled")
        ELSE IF effective # "enabled" \/ file.config # effective
             THEN Unknown("probe_invalid")
        ELSE [status |-> shown.status, runtime |-> runtime, detail |-> shown.detail,
              sampled |-> IF shown.status \in Claim THEN file.sampled ELSE 0]

(* The file is opened, and fstat finds the inode lstat saw or another one. *)
OpenAndRead ==
    /\ collector = "open"
    /\ Collected(IF \/ file.inode # looked
                    \/ ~Acceptable(file.evidence) \/ FromFuture
                 THEN Unknown("probe_invalid")
                 ELSE IF TooOld THEN Expired ELSE FromState)

(* The collection raises, before or after it reads its clock: the          *)
(* scheduler puts the fallback in its place.                               *)
Raise == Collected(Unknown("probe_missing"))

Next ==
    \/ Pass \/ Start \/ (\E e \in Listed : List(e)) \/ (\E c \in Config : Stamp(c))
    \/ (\E i \in Inode : Write(i)) \/ Abort
    \/ ReadClock \/ (\E c \in Config : ReadConfig(c)) \/ Lstat \/ Refuse
    \/ OpenAndRead \/ Raise

Spec == Init /\ [][Next]_vars

-----------------------------------------------------------------------------
(* "ok" and "degraded" are earned: whenever the card shows one of them, a  *)
(* listing of the ruleset showed just that no longer than MaxAge ago, even *)
(* if the probe has died since, runs were lost, or the file was replaced   *)
(* under the collector.                                                    *)
ClaimIsEarned ==
    card.status \in Claim =>
        /\ card.sampled <= MaxAge
        /\ card.runtime = (IF card.status = "ok" THEN "active" ELSE "inactive")

(* A single lost run of the probe never makes the card stale: the limit    *)
(* leaves room for two periods of the timer and a run.  (After a suspend   *)
(* the card is stale until the timer has run the probe again.)             *)
OneLossTolerated ==
    [][card.detail # "probe_stale" /\ card'.detail = "probe_stale" => lost = 2]_vars

(* The collector refuses no state the probe wrote, for its content or for  *)
(* its time, even one written after the collector read its clock:          *)
(* "probe_invalid" means a failed check, a replaced file or a changed      *)
(* ufw.conf.                                                               *)
ContentNeverRefused ==
    collector = "open" => Acceptable(file.evidence) /\ ~FromFuture

-----------------------------------------------------------------------------
(* The inductive invariant.                                                *)

Clocks ==
    /\ IF probe = "idle" THEN sinceStart <= MaxPeriod ELSE sinceStart <= MaxRun
    /\ IF collector = "idle" THEN sinceNow <= Hold ELSE sinceNow <= MaxBlock
    /\ probe \in {"stamp", "write"} => sampled <= sinceStart
    /\ probe = "write" => stamped <= sampled

(* The runs since the file was stamped, each at most a period apart.       *)
FileIsRecent ==
    /\ collector = "open" => file.inode # NoFile
    /\ file.inode # NoFile =>
          /\ file.age <= file.sampled
          /\ file.sampled <= file.age + MaxRun
          /\ lost = 0 => file.age <= sinceStart
                          + (IF probe = "idle" THEN 0 ELSE MaxPeriod)
          /\ lost = 1 => file.age <= sinceStart
                          + (IF probe = "idle" THEN MaxPeriod ELSE 2 * MaxPeriod)

(* A card that is shown while the next is collected was at most Hold old   *)
(* when the collector read its clock.                                      *)
CardIsRecent ==
    card.status \in Claim =>
        card.sampled <= MaxRun + Stale + MaxBlock + sinceNow
                        + (IF collector = "idle" THEN 0 ELSE Hold)

UfwInv ==
    TypeOK /\ ClaimIsEarned /\ ContentNeverRefused /\ Clocks /\ FileIsRecent /\ CardIsRecent
=============================================================================
