# Bhola Pulse: a verification development

TLA+ models of the parts of Bhola Pulse in which order, time, failure or
concurrency decide whether the program is right, the TLC configurations that
check them on small instances, and theorems about them that TLAPS proves for
every value of their constants.

`tlc -config X.cfg M` runs a check, `tlapm M_proofs.tla` checks the proofs of a
module. `PROJECT.json` names the lines of the code each definition stands for,
the mutant that shows that each checked property can fail, and the hazards each
property is aimed at.

## The system

| Part | State it keeps | Operations | Interacts with |
| --- | --- | --- | --- |
| Launcher, `scripts/run-dev.sh` | the process ids it has recorded, its traps | start, supervise, `cleanup` | starts provider and Conkys, sends and gets signals, tests the state file |
| Provider, `src/bhola_provider.py` | the payload, the stop flag | one pass of `run_provider`, `request_stop`, the `finally` clause | calls all the parts below, writes the state file |
| Source scheduler, `src/bhola_scheduler.py` | `next_run` of each source | `run_due`, `wait_seconds` | runs the collectors in the main thread |
| Probe manager, `src/bhola_probes.py` | futures, records, due times, a pool of two threads | `tick`, `update_payload`, `close` | runs the network probes in worker threads |
| Network probes, `src/bhola_network.py` | none | five probes that classify a command's or a request's result | run by the manager's workers |
| Cache file, `src/bhola_cache.py` | the state file | `atomic_write_json` | written by the provider, read by dashboards |
| Dashboard reader and renderers, `conky/*.lua` | the last valid document, chart histories | `data.read`, drawing | read the state file |
| UFW runtime probe, `src/bhola_ufw_probe.py` | the root-owned runtime state file | classify, build, write | read by service status |
| Service status, `src/bhola_services.py` | last success of each service | `collect` | a source of the scheduler |
| Collectors, `src/bhola_collectors.py` | previous counters | one method per source | sources of the scheduler |
| Command, `packaging/bhola-pulse`, and style, `src/bhola_style.py` | the saved style | `config set`, `config reset`, the resolution of the style | becomes the launcher |
| Click-through helper, `src/bhola_clickthrough.py` | none | search for a dashboard's window, empty its input region | run by the launcher for each dashboard, on a display shared with other programs |
| Monitor discovery, `src/bhola_monitors.py` | none | list the heads, choose the frame rate | run by the launcher |
| Packaging, privacy check | none | build tooling | not part of the running system |

What is hard in it: the worker threads move while `tick` and `close` look at
their futures; collectors block the loop that hands its old `now` on; a signal
handler runs in the middle of the main thread; a provider may be killed in the
middle of a write and a dashboard may read at any moment; a dashboard goes on
drawing what a dead provider left, and tells LIVE from STALE by a wall clock that
may be set; and the launcher may be signalled between any two commands, while its
windows come late and its configuration changes. `PROJECT.json` lists these hazards at their
lines. What makes each part correct is stated by the properties of its module.

## The modules

    ProbeOutcomes -> ProbeRecord -> ProbeRuns        (what the manager promises)
                                 -> ProbeManager     (implements ProbeRuns)
                                      -> ProbeTiming (timers over ProbeManager)
    AtomicDocument                                   (what the state file promises)
    CacheFile                                        (implements AtomicDocument)
    SourceScheduler
    ProviderLoop                                     (the main thread's own steps)
    Provider        (the loop with ProbeRuns, a write in one step, the passes of
                     SourceScheduler)
    ProviderProcess (the loop with ProbeManager; implements Provider)
    Dashboard    (the provider's stamps and the dashboard's frames)
    Launcher -> Desktop                              (the whole start; Desktop
                                                      implements Launcher)
    UfwRuleset                                       (what the firewall probe sees)
    UfwEvidence -> UfwStatus                         (how it gets to the dashboard)

**ProbeOutcomes** classifies what a command or a request came back with, one
operator per probe. The measured numbers are elements of `Reading`.
**ProbeRecord** is `_ProbeRecord.apply`. `NoReading` is the fallback dictionary.

**ProbeManager** has one action per step of the main thread that a worker may
come between: a look at one future (`SkipFuture`, `ReapFuture`), one submission
(`Submit`), one cancellation (`CancelFuture`), `Shutdown` and the join
(`CloseDone`); and the two steps of a worker. The executor is external: a
first-in first-out queue, one future per item, and at most `MaxWorkers` threads.
Instants are relative to the clock (`untilDue` is `next_run` minus the time, `lag`
the age of the `now` that `tick` was given), so that the state is finite although
time is not bounded. The numbers are seconds in no particular unit; the `1e-9`
of the comparison is abstracted. **ProbeTiming** adds timers that only observe,
and the bounds `MaxGap` (the wait between two passes) and `MaxRun` (the longest run
of a probe). `MaxRun` is an assumption about the network: a command is killed at
its time-out, but the `timeout` of `urlopen` bounds each operation on the socket
and not the request, and the look-up of the name has none. (docs/architecture.md
says that HTTPS reads "have a hard timeout".) `OkIsConfirmed` states what `ok`
promises; the HTTPS probe breaks it, as `https_ok` shows.

**SourceScheduler** is `run_due` source by source, and the loop around it as far
as it concerns time: a pass may take `MaxBlock`, the wait is the one
`wait_seconds` computes or a shorter one. `sinceRun`, `sincePrev` and `phase`
only observe.

**CacheFile** is `atomic_write_json` step by step for any number of writers, with
an exception at any step, SIGKILL between any two, loss of power, and readers.
The file system is external: an open file outlives its name, a rename is atomic,
unsynced content may be lost, an unsynced rename may be undone. Assumed: a reader
reads the whole file once it has opened it, and `unlink` of one's own file works.

**ProviderLoop** is the main thread of `run_provider`: what it does between the
calls of the manager. A write is one step or an exception
(`FileIsAtomicDocument`). A pass collects any set of sources that contains every
one never collected (a conjunct of `SchedulerInv`, proved). `stop_event.wait` is
modelled with the lock that `threading.Event` holds before and after it sleeps,
because the handler that calls `set()` runs in the same thread.

**Provider** composes it with what the manager promises: `Runs!Publish`,
`Runs!Start` and so on are the actions of ProbeRuns. `toReap` are the futures that
tick has yet to look at; one that gets done while tick is on its way to it is
reaped in the same tick, one that does later is skipped (`Skip`).
**ProviderProcess** composes it with ProbeManager itself: each of its actions is a
step of the loop joined with one of the manager (`PTop` with `ReadClock`,
`PCollect` with `BeginTick`, `PEndTick`, `PClose` and `PClosed` with theirs), or a
step of one of them alone. It implements Provider, with `PhaseBar` and
`OutcomeBar` as for ProbeRuns; so the invariants checked on the small state space
of Provider hold of the process with its queue and threads.

**Launcher** is `run-dev.sh` from line 56 on, one action per simple command, with
traps between any two of them, and the child processes.

**Desktop** puts it on the user's desktop. Before it there is the resolution of
the style by `packaging/bhola-pulse` and `src.bhola_style`: the test for the saved
style, the second test, the read and the resolution are separate steps, between
which `config set`, `config reset` or an editor changes the file. The helper of
the launcher's round polls for windows (`FindWindow`) that Conky maps at any time
(`MapWindow`), that go with their process (`Launch`), and whose title a window of
another session may bear (`ForeignWindow`, for the monitors in `Shared`); it finds
one, applies the region and reads it back, or gives up. `held` and `clash` only
observe: what the file has held, and when a title was ambiguous.

**Dashboard** is one clock for the provider's pass, its stamp, the rename, the
dashboard's frames, the parse on every fifth frame and the judgement of freshness
on every one. A document carries what the wall clock shows since its stamp
(`wall`, in whole seconds as both sides read it), how long it really is (`real`)
and by how much the clock was set since (`set`); the last two only observe. The
provider may hang at any step. The provider's loop is the one of SourceScheduler
cut down to the source that is due every second.

**UfwRuleset** is `classify_ruleset`. A ruleset is the graph that the JSON
document describes; the two loops that collect it are one step (`Read`), since
what they find does not depend on the order of the entries, and the walk is
modelled visit by visit with any order of the queue. `VerdictRight` compares it
with a definition of its own: the least set of chains closed under jumps.

**UfwEvidence** holds the enumerations of the writer (`run_probe`, `build_state`)
and of the reader (`_validated_ufw_state`), which are separate copies in the code.
**UfwStatus** composes timer, probe, state file and collector. Every instant is
kept as an age; time (`Pass`) may go by between any two steps, and stops only for
what the timer, the time-out of a run or the loop of the provider make happen
first. `sampled` in the file and the card is an observer: the age of the listing
that the claim stands for. `MaxBlock` bounds what a collection takes after it has
read the clock, which is the read of two small files. The probe's write is one
step, because `atomic_write_state` has the sequence that CacheFile models.

## What the runs check

| Run | Instance | Shows |
| --- | --- | --- |
| `wait` | 3 probes on 2 workers, one that succeeds or raises and two that raise; intervals 10, 10, 11, runs of 1, gap 1, lag 1 | ProbeRuns is implemented, and with it the limit of the pool; each result is published once, the last good data are retained; no probe waits more than 5, `fresh` has a bounded age, spacing is the interval less the lag |
| `scheduler` | intervals 2 and 5, passes up to 4 | no due source is left behind, no burst, no drift, no oversleeping |
| `cache` | 2 writers, 1 reader, 4 files, 2 documents | reads and the target are complete, no litter, AtomicDocument is implemented |
| `provider` | 1 probe with all its outcomes, 2 sources, 2 signals | the file follows the records and catches up, the first document is complete, every exit is quiet, at most one write after stop, and a flag that is set ends the loop, unless a second signal finds the lock of the event held |
| `process` | 2 probes that raise and are due at every pass, 2 workers, 1 source, 2 signals | futures, queue and threads agree at every step; no overlap; whatever queue and threads do between the steps of the loop, Provider allows it; no thread or item outlives the loop; finished runs are published and `close` returns |
| `ufw_ruleset` | every ruleset over 4 chains, 2 of them UFW's, with any of 8 jumps | the verdict is the documented one, and the walk ends on cyclic jumps |
| `ufw_status` | timer 2, run 1, limit 5, a collection of at most 1 every 2 | a claim of the card is never older than the sum of the bounds; one lost run never makes it stale; the reader refuses nothing the writer wrote |
| `launcher` | 2 monitors, 1 of them with an ambiguous title, 2 signals, 2 rounds of the start-up loop, with and without an old state file, every option, environment and saved style, valid, invalid or absent | cleanup reaches all it knows and misses at most one child; dashboards have data; the end of any process takes all down, but for a stuck provider and a cleanup cut short; the style is the one the precedence allows; no running dashboard takes the mouse |
| `dashboard` | thirds of a second, 3 frames a second, passes up to 4/3 s, the clock set once by up to 2 s either way, an old, a new or no file at the start | what is drawn as LIVE is less than 4 s old, plus what the clock was set back by; a provider on pace never flickers; one that hangs is shown as STALE in the end |

The bounds are enough for the interesting cases: with three probes on two workers one
has to wait while two run, one is queued behind a thread that has not taken it yet,
and close finds queued, running and finished ones together. Whether times of success
and kinds of failure make a difference for what is retained is the matter of the
theorem `LastGoodRetained`. Two signals are what Ctrl-C comes to: SIGINT for the
group, then SIGTERM from `cleanup`. Four files let two writers write while a reader
holds a file that was replaced. A pass of 4 makes a source of interval 2 miss runs and
one of interval 5 not; and OnGrid speaks of the second kind only. `WaitLimit` = 5 in
`wait` is the least that `Roomy` allows there, and TLC refutes 4. The limit of 5 in
`ufw_status` is two periods and a run, as 2 * (45 + 5 + 5) + 10 = 120 seconds are: the
timer's period, accuracy and random delay twice, and the time-out of the service. Four
chains are an input chain, one between, and two of UFW's, which may be at the end of a
path, on it, or one of them orphaned; the jumps (`Link`) contain circles of one, two,
three and four chains. Two inodes let the one that `lstat` saw come back. One shared
and one private title show both what the helper promises and the exemption. In
`dashboard` a frame each third of a second is the rate for three monitors and more,
0.35 s rounded down to the grid; two passes and a fifth frame fit between two whole
seconds in every phase. In `process` two probes on two workers let a tick look at one
future while the other gets done, and close cancel one and wait for the other. File,
inode and worker symmetry are used where only safety is checked.

Three runs are expected to fail. Each checks a sentence of the documentation:

- `https_ok`: a redirect loop (or a 3xx answer that urllib has no rule for) ends in
  an HTTPError whose code `parse_https_status` takes for `ok`
  (bhola_network.py:374). The record of a probe that has never succeeded then shows
  `ok` with high confidence, and `http_error` as its source state. "`ok`: a
  sufficiently strong current signal confirms operation" (docs/architecture.md:112).
- `signal_deadlock`: a signal that arrives while the main thread is inside
  `stop_event.wait` with the event's lock held blocks the provider for ever.
  (In 48 trials with CPython 3.11.6 of a loop that does nothing but wait 10
  microseconds on an event, 3 hung, and a second SIGTERM did not help. With the
  waits of the provider the window is far smaller.)
- `launcher_orphan`: a trap that runs between `&` and `provider_pid=$!` cleans up
  without the child just started. In 600 trials with bash 5.2 that signalled a script
  of the same form within its first 6 ms, 17 left the child running. `NoneLeftBehind`
  fails in another way too, which TLC finds with `MaxSignals` = 2: a second signal
  during `cleanup`, which has reset its traps, ends the shell before it has signalled
  its children. `CutShort` names this case.

`SpacingWithLag` says how far apart two runs of a probe are: its interval, less
the time the collectors blocked the pass that submitted the first of them. (The
"no more than every 6 hours" of docs/architecture.md:52 holds up to that.)

What the models brought up besides, each a statement of a property or a remark:

- `bhola-pulse --style nerd` is refused when BHOLA_STYLE is unset and the saved
  style is invalid, or is removed between the second test and the read: the file
  is judged before the option (packaging/bhola-pulse:121-124). `Refusable` lists
  the reasons. README.md:72-77 gives the option precedence and is silent about this.
- Where an empty chain of UFW is attached and another one is orphaned, the probe
  says inactive (bhola_ufw_probe.py:176-180). Two lines of
  docs/ufw-runtime-probe.md apply: inactive, for "its attached UFW path contains no
  runtime rules" (:31), and unconfirmed, for "UFW artifacts are orphaned" (:33, :89).
  It does not say which goes first. `VerdictRight` follows the code.
- Setting BHOLA_STYLE to the empty string skips the saved style and is refused.
- Before Conky has mapped its window, a window of another program with the same
  title is the only match, and the helper takes it (bhola_clickthrough.py:161);
  the dashboard then keeps the mouse. `MouseGoesThrough` exempts `clash` for this,
  and so says nothing about titles that are shared. Once both are there, the search
  waits until one is gone: "Ambiguous matches fail closed" (docs/architecture.md:34).
- A state file of an earlier run lets the dashboards start before the provider has
  written. `DashboardsHaveData` holds with such a file; that its values are not drawn
  as LIVE is `LiveIsRecent`, whose run starts with an old file too.
- A suspended machine ages the firewall's state file, whose age is a matter of the
  wall clock, while the timer and the provider's loop, on the monotonic clock, stand
  still. The card is then stale without a lost run, until the probe has run again.
- With passes of 2/3 s, or a clock set forward, a provider that runs may be drawn
  as STALE for a frame or more at 3 frames a second (`PacedIsLive` says when not).
- While there has been no valid document, every frame opens the file.

## Fairness

- ProviderProcess: the main thread runs (`PMain`), and each worker thread takes and
  finishes its work, because a probe ends: a command is killed at its time-out, and
  a request has finitely many operations with a time-out each. Signals are not
  fair, and neither is time: no step waits for it.
- Provider: the main thread runs, probes end, and passes that collect something
  recur (strong fairness of `Collect` with a source), because the `system` source
  is due every second and `NeverSleepsOver` holds. Signals are not fair.
- Dashboard: time goes on and frames are drawn. The provider has no fairness, it
  may hang; `HungIsShown` needs none.
- Launcher, Desktop: the shell runs (the five seconds of the helper end), and a
  child that was signalled heeds it: it ends, or is stuck if it is the provider, as
  `signal_deadlock` shows that it may be. `cleanup` then waits for ever.

## What is proved

The theorems hold for every value of the constants that meets the named
assumptions; TLC evaluates these in the runs.

- `ProbeManager_proofs`. The inductive invariant is `PoolInv`: the named safety
  properties plus `MainThread` (what `toCheck` still holds at each step of the main
  thread). `ActiveHasFuture` ties `active`, `future`, `queue`, `worker` and `result`
  together, and without it none of the others is inductive. `NoBacklog` follows from
  it by counting: queued and running probes are distinct members of `active`, and
  `active` fits the pool. `RecordInv` adds where a result can come from, and rests on
  `SuccessAssumption`, which `ProbesReportSuccess` discharges for the five probes.
  `OkNeedsSuccess` says that `https_ok` comes from the one probe alone: the records of
  those that call no failure ok (`Careful`) show ok for a success only.
  `ProbesReportSuccess` finds an ok without a success in an HTTPError only, which the
  other four probes never return. `ManagerImplementsRuns` maps a cancelled future to a
  pending run and a raised exception to `ErrorOutcome`. Of the timers, `TimerInv` says
  that what is left of an interval and what has gone since the submission add up to
  it, less the lag; `RunsAreSpaced` follows. `FreshnessBounded` rests on `FreshInv`:
  at each stage of the run that replaces a success, waiting to be due, overdue,
  queued, running, finished, how old that success may be (`FreshUntil`). Queued takes
  no time because `NoBacklog` leaves an idle thread for every item; a failure takes
  `fresh` away by `SuccessAssumption`. `NoProbeStarves` says that none waits longer
  than `WaitLimit`, although the loop over the probes always begins with the same one.
  It is an account of the workers' time. A probe keeps a worker for a `Turn` at most:
  its run and the pass that reaps it. One that is due is found so by a pass no later
  than `Notice`; from then on every worker is taken whenever time passes, so that the
  time of all workers since then, plus what is left of the turns in progress, is at
  most a `Turn` for each probe that had one (`Spent`). A probe that had its turn is
  not due again within the wait, hence each counts once. Both premises are `Roomy`:
  Turn * (probes - 1) <= workers * (WaitLimit - Notice), and every interval is above
  WaitLimit + Turn + MaxLag. The defaults meet it (in half seconds, with runs of 3 s,
  waits of 0.5 s and passes of 1 s: a turn of 9, notice of 4, a limit of 22, a
  shortest interval of 60), and stay within it for runs up to 7 s. A configuration may
  ask for intervals of a second, for which nothing is claimed: with three intervals of
  3 and runs of 2, TLC shows the last probe waiting for more than 20 behind the other
  two.
- `SourceScheduler_proofs`. `SchedulerInv` adds to the properties that the next run
  lies after the last one, and more than an interval after the one before it
  (`SpacedOut`), and that a wait ends before anything is due (`LoopInv`). `NoDrift`
  adds `InTime`: in a pass no source with an interval above `MaxBlock` is late by a
  whole interval, so that every next run moves by exactly one.
- `CacheFile_proofs`. `FileInv`: a writer's file is its own, complete from the
  flush on and synced before the rename; a reader's file is no one's to change.
  From it `ImplementsDocument`: only `Replace` stores.
- `Provider_proofs`. `ProviderInv`: what payload and health hold at each step of
  the pass, when the manager is open, and that only a tick has futures to look at.
  `ProbeManager_proofs` has the rest of it, the process. `Together` says where the
  manager is at each place of the loop (`InStep`), and that with --once it is
  untouched; a process step is a step of the manager (`ProcessIsManager`), so that
  `PoolInv` holds too. With both, `ProcessImplementsProvider` goes action by action:
  the lemmas of `ManagerImplementsRuns` give the manager's half, the loop's half is
  the same action on either side, and what has no counterpart (`EndReap`, a
  cancellation, `Shutdown`, time) stutters. `ProcessKeepsPromises` instantiates
  `ProviderCorrect` with that mapping, and `NoThreadAfterExit` says of queue and
  threads what ExitIsQuiet says of runs. A signal that finds the event's lock taken
  blocks the main thread (`stuck`): about that state neither claims an exit.
- `Desktop_proofs`. `LauncherInv`: an unrecorded child exists only between its start
  and the next command, stuck or running. `DesktopImplementsLauncher`: every step on
  the desktop is a step of Launcher or a stutter, so what is proved of Launcher holds
  there. `StyleInv` ties what is exported to what was given or has stood in the file.
  `WindowInv`: only the dashboard of the present round may still take the mouse, and
  only a window in `clash` is taken for another.
- `Dashboard_proofs`. The difference between what the wall clock shows and the real
  age is less than a second plus what the clock was set by, for every document on
  its way; `DrawnAsLiveIsRecent` follows for any rates, bounds and lengths of a second.
  `ProviderOnPaceIsLive` is the other direction. `OnTheClock` bounds what the wall
  clock shows from above, and `OnPace` the real ages: the file's, by the place of the
  provider in its loop and what is left until the source is due, never exceeds a
  second and two passes (one that was running when it fell due, and the one that
  replaces the file); that of the document on the screen, four frames more. By
  `Brisk`, a pass and two frames within a second, this is three seconds. At 0.35 s a
  frame that leaves a pass 0.3 s, at 0.15 s it leaves 0.7 s. (TLC refutes the property
  for passes of 2/3 s with frames of 1/3 s.)
- `UfwRuleset_proofs`. `WalkInv`: all that is visited or queued is attached, and
  what is visited is closed but for what is queued; so that with an empty queue it
  is the least closed set. `JumpSeenIsRedundant` shows that `ufw_jump_seen` never
  decides a verdict.
- `UfwStatus_proofs`. `UfwInv` bounds the ages against each other: the stamp
  against the listing, the file against the runs lost since, the card against the
  clock of the collector. `OneLossIsTolerated` then needs only
  2 * MaxPeriod + MaxRun <= Stale.

The inductive invariants are not in the lists of the runs: the properties they
strengthen are. `RecordCoherent`, which is proved, is not either: what matters of it
is in `GoodDataRetained`. Nor are `PoolBound` and `QuietWhenClosed`, which are proved: a run
checks more than either with `ImplementsRuns` and `ExitLeavesNoThread`.

Only model-checked: all liveness (`FinishedIsPublished`, `CloseReturns`,
`FileCatchesUp`, `StopIsHeeded`, `WalkEnds`, `OneDownAllDown`, `HungIsShown`), which the
prover cannot reach.

## What is not modelled

- The collectors of `src/bhola_collectors.py`. Each reads /proc and /sys once per
  call, and some keep the previous counters, which the main thread alone touches;
  a rate is the difference of two readings over their times, cut at zero. A
  property of it would restate that line. What a pass does with their results,
  failures and delays is in SourceScheduler and Provider. (A disk that is removed
  between the read of diskstats and the look at its entry under /sys counts as one
  that is no partition: a single sample too high, bhola_collectors.py:127.)
- The route reader and byte counters of `src/bhola_network.py`, and the cards of
  `src/bhola_services.py` other than UFW's: tables from what was read to words,
  filled anew by each call.
- The ages that are shown (`snapshot`, `_refresh_local_ages`): nothing decides by
  them. The one age that something is decided by is in Dashboard.
- Parsing, formatting, drawing and the charts' histories, argument parsing,
  sanitising of names, xrandr's output, the syntax of nft's output.
- The width of a signal's window, PID reuse in `cleanup`, failures of `unlink`, a
  wall clock that is set or a suspend while UFW's state ages, a request that takes
  longer than `MaxRun`, the temporary file that a failing
  `config set` leaves.
- The X server, the executor, `threading.Event`, bash and the file system are
  external: modelled from how the code uses them.
- Packaging and the privacy check: release tooling without run-time state.

## Order of the work

1. Probe manager with its outcomes, records and timing; scheduler; cache file;
   provider; launcher; their proofs.
2. UFW, from the ruleset to the card, and its proofs.
3. Dashboard, Desktop; their proofs; the timers of ProbeTiming and the grid of
   SourceScheduler proved.
4. The process: the loop with the manager and its threads, and that it implements
   Provider; bounds on waiting and on the dashboard's pace proved.
