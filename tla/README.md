# DeceptEnv in TLA+

DeceptEnv plants decoy credential files ("canaries"), watches their access
times, finds the process that touched one, stops it (SIGSTOP, or NtSuspendProcess
on Windows), takes a forensic snapshot and reports the incident to Slack; a web
dashboard shows and simulates it. This directory holds its
specification: TLA+ modules translated from the Python source, TLC
configurations that check them on small instances, and TLAPS proofs of all the
safety properties for every instance. Paths below are relative to `src/deceptenv/`.

## 1. Inventory

| Part | State | Operations | Talks to |
| --- | --- | --- | --- |
| Monitor `engine/monitor.py` | `canary_paths`, `_atime_cache`, `queue`, `debouncer` | `start`, `_poll_access`, `_process_events` | files (stat), platform adapter, callback |
| Linux adapter `platform/linux.py` | none of its own; reads `/proc` | `find_pid_accessing_file`, `get_process_owner`, `freeze_pid`, `resume_pid` (no caller) | the process table |
| Mitigator `engine/mitigator.py` | `_action_lock` | `freeze_threat` | adapter, forensics |
| Run command `cli.py` 141-227 | `state` (events, threats, last threat), tasks | `async_run`, `mitigation_callback`, Ctrl-C | all of the above |
| Notifier `engine/notifier.py` | webhook URL | `notify_incident`, `_sync_post` in a thread | Slack |
| Forensics `engine/forensics.py` | none | `capture_snapshot`, `extract_lineage`, `dump_memory` | `/proc`, psutil |
| Registry `canary/registry.py` | `_canaries` under a lock | `register` and getters | files (hash) |
| Deployer `canary/deployer.py` | none; writes the canaries | `_safe_write`, `deploy_*` | files, SQLite |
| Commands `cli.py` 23-138 | none | `init`, `list_canaries`, `clean` | deployer, registry, files |
| Dashboard `web.py` | `_STATE` under `_LOCK`, one thread per request; a script file all simulations share | `/api/status`, `/api/incidents`, `/api/simulate`, `/api/init`, `/api/clean`; a page that polls | deployer, mitigator, a child process, the browser |
| Windows adapter `platform/windows.py` | none | as the Linux one | Restart Manager, process handles, NtSuspendProcess |
| macOS adapter `platform/darwin.py` | none | as the Linux one | psutil, signals |
| Config, exceptions | immutable | validation | |

What is hard here:

* **Interleaving with the operating system.** The daemon is single-threaded
  (asyncio), so its tasks switch only at `await`s that suspend. Processes and
  files do not wait for it: between any two system calls of a search or a
  freeze a process may exit, be reaped, have its pid reused, or close a file.
* **Stale readings.** Access times are compared with a cache; the owner and the
  parent of a process are asked for several calls before the signal; `exists()`
  precedes `stat()`, `unlink()` and `open()`.
* **Partial failure.** The signal is sent and the snapshot fails; the report
  cannot be printed and is never sent; the system withholds a process from the
  search; one of four deployments raises; Ctrl-C comes between a freeze and its
  announcement.
* **Commands that run at once.** `init`, `clean`, the start of `run` and the
  dashboard's buttons share the files without any lock, and may be killed.
* **Threads.** The dashboard serves each request in a thread; they share its
  counters, its incident list, a script file and the `.env` canary, answer from
  the list outside its lock, and wait for children and clients without timeouts,
  or with one whose expiry is swallowed.
* **Three operating systems.** Each adapter asks other questions: Linux lets an
  ESRCH through, macOS catches everything, Windows cannot open what is not
  ours, counts the holders of a file first and lists them afterwards.
* **Time.** The debouncer uses the wall clock, which may be set back or forward;
  the mount option decides which reads the access time shows.

What makes each part correct: the *monitor* loses no read, drops only
duplicates, limits the rate of events and answers every access; the *search* does
not miss a process that keeps the canary open and is not withheld from it; the *mitigator* never stops
the daemon or its shell, tells the truth in its outcome, does not let a living
target slip, and always ends with its lock free; the *run* as a whole stops no
more processes than there were accesses and has every stop on record, though one
whose report cannot be printed is not sent on; the
*commands* leave no canary half-written, and a command alone always succeeds
over whatever killed ones left; the *snapshot* stays within its bound and leaves
out nothing else, and its lineage starts with the target and names no bystander;
the *dashboard*'s counters, list and answers agree, its page catches up, and a
request that went well has killed its child. `PROJECT.json` lists the hazards line by line.

## 2. Modules

| Module | Models | Correspondence |
| --- | --- | --- |
| `EventLoop` | asyncio (external) | `running` is the task that has the thread; `Suspend` is an `await` that suspends |
| `CanaryFiles` | files and clocks (external) | `atime` per path; `clock` is `time.time()`, `elapsed` is real time; `RelAtime` and `ClockSteps` choose the environment |
| `CanaryMonitor` | `monitor.py` | one action per stretch of each task between two observations of the world; `BaselineStat`/`BaselineCrash` are `stat()` with and without the file |
| `AccessFeed` | the promise of the polling half | an abstract FIFO of accesses, refined by `CanaryMonitor` (`FeedSpec`) |
| `OSProcesses` | processes (external) and the choice of the adapter | `system` is `sys.platform`; `gen` counts the processes that have had a pid; zombies keep it (on Windows: an ended process that a handle is open to) |
| `ThreatMitigator` | `mitigator.py` and the adapter calls it makes, on each system | one action per system call of `freeze_threat()`; the actions of a call follow `pc`; `OwnerAnswers`, `Suspendable` and `Denied` are where the adapters differ |
| `FreezePromise` | the promise of `freeze_threat()` | a target is turned away untouched, or stopped and then answered for, one at a time; refined by `ThreatMitigator` (`KeepsFreezePromise`) |
| `ProcessAttribution` | `find_pid_accessing_file` of the three adapters | Tier 1 and Tier 2 visit one process per step; on Windows Tier 1 is two questions to the restart manager and a look at the first holder; `Tier1Refused`, `FirstHolderRefused` and `Tier1Fails` are where the system withholds processes |
| `ForensicsSnapshot` | `forensics.py`, `get_process_lineage` | one action per question to psutil, per pid described, per region read |
| `DeceptEnvRun` | `deceptenv run` | composes `CanaryMonitor`, `ProcessAttribution` and `ThreatMitigator` with `mitigation_callback`, the counters, the printing of the report, which may raise, the notifier's threads and Ctrl-C; dispatch goes through the real search |
| `CanaryDeployment` | `deployer.py`, `registry.py`, `init`, `clean`, start of `run`, `/api/init`, `/api/clean` | one action per system call of each job; a job is one execution of a command |
| `WebDashboard` | `web.py`: handler threads, `_STATE`, `_LOCK`, the simulation, the page | `pc` of a thread is the next statement that another thread can tell from its neighbours; `+=` is a fetch and a store; the child has a life of its own, and the dashboard may be stopped as a whole |
| `MC*` | instances for TLC | |
| `CanaryMonitorProofs`, `ThreatMitigatorProofs`, `DeceptEnvRunProofs`, `CanaryDeploymentProofs`, `WebDashboardProofs`, `ForensicsProofs` | TLAPS proofs of the module they are named after | see 4 |
| `CanaryJobsProofs` | TLAPS proofs of what whole jobs of `CanaryDeployment` achieve, on top of `CanaryDeploymentProofs` | see 4 |

Definitions named "Fault: ..." are seeded bugs, used to see that each property
can fail; no specification uses them.

Abstractions worth knowing. Names and contents are members of small sets, a
content is none, empty, (for SQLite) schema only, or whole. A descriptor is the
fact that a process has a canary open. `exists()` and `stat()` of the scan are
one step, as the handler makes a removal between them look like a missing file;
in the baseline loop they are two, as it has no handler. Owner and descriptors
of one process are one step of Tier 1. SIGSTOP takes effect at once. SQLite
waits for a lock of another connection, its transactions being short; it refuses
to write to an unlinked database, and it discards the journal a killed job may
leave when the new database is empty. Files are changed by DeceptEnv's commands
only in `CanaryDeployment`, by anybody in `CanaryFiles`. Relatime's 24-hour
rule lies beyond the time bound. The snapshot is one step of `ThreatMitigator`,
which has it succeed or raise, and the whole of `ForensicsSnapshot`: nothing the
mitigator does depends on what is in it. `ChromeRows` is the INSERTs and the
commit, of which nothing shows before the commit. The process trees a snapshot
begins with have init at their root and every process the user's; Windows'
orphans and another user's process in mid-chain come about only by what the
processes do afterwards. Of printing in the callback only the report's
(`cli.py` 191) can fail in the model; the texts of lines 182 and 189 are a number
and a path.

The ends of `run`. The first Ctrl-C, on Python 3.11 and later, cancels the main
task: `gather` cancels the monitor's, and `asyncio.run` lets the callbacks that are
ready run (`CtrlC`). A second one, or any on Python 3.9 and 3.10, is a
`KeyboardInterrupt` in mid-step of whatever task runs, and no task goes on. It has no
action of its own: without fairness every step of `RunSpec` may be the daemon's
last, and where the interrupt falls inside a step of the model, its effect is that
of falling before the step, of `PrintFails`, or after. So the safety properties and
all theorems hold of runs that end this way; `DispatchRuns`, which needs
`RunFairSpec`, is not of them.

The systems. Zombies exist on all three, with different answers: Linux and macOS
signal a zombie, Windows does not suspend an ended process. `os.getppid()` of an
orphan changes to init (0 here, nobody's to signal), on Windows it stays. An
elevated process of the same user cannot be opened on Windows, and counts as
another user's. psutil tells processes with one pid apart by their start time;
that two of them may start within one clock tick is left out, as is that Windows
refuses to unlink an open file. The owner of a process does not change while it
lives: an exec of a setuid program is left out. A daemon that runs out of
descriptors is modelled where it ends Tier 1 on Linux (`Tier1Fails`), nowhere
else.

The dashboard. `/api/init` and `/api/clean` are jobs of `CanaryDeployment`; in
`WebDashboard` a clean is the canary's disappearance between two steps, and a
daemon beside it the stopping of a child that has read the canary, or of the
dashboard (`Dashboard`, `Serving`), which reads the canaries in every status poll.
`killed` is a child that was sent SIGKILL; whether `wait(timeout=1)` saw it end is
not recorded, as nothing in the code asks. A client may stop reading any answer
that has an incident in it (`ClientStalls`): of the incident list it then holds
`_LOCK` (`stalled`), of any other its own thread (`unread`). The metrics
read under `_LOCK` are data. An answer is the threat counter and the incident list
it carries; an incident is the number of its simulation. The server starts a
thread for each request, without limit: a thread of the model that is idle can
serve a further one.

## 3. Runs

| Run | Bounds | Shows |
| --- | --- | --- |
| `monitor` | 2 paths, window 2, 3 units of time | TypeOK, NoLostRead, DropsOnlyDuplicates, FeedSpec, AccessAnswered with exact access times and a clock that moves forward |
| `monitor_hostile` | 1 path, window 2, 3 units of time, relatime, clock set back and forward at will, forward by at most 3 between two events of the path | RateLimited in the worst environment |
| `mitigator` | 3 systems, 2 calls, 3 pids (daemon, shell, reader), each reused once, 2 users | MitigatorTypeOK, NoSelfHarm, FreezesAccounted, LiveTargetsSignalled, RaisesOnlyForEnded, LockNeverContended, CallsEnd, KeepsFreezePromise |
| `run` | Linux and Windows, 1 path, 2 user processes, 2 calls, 2 units, no pid reuse, with fairness | RunTypeOK, OneStopPerAccess, StopsOnRecord, HolderNotMissed, DispatchRuns |
| `deployment` | 3 jobs, a `_safe_write` canary and Chrome's, with and without a profile directory, 1 working directory | DeployTypeOK, NeverLeftPartial, ExposedOnlyWhileWritten, SoloInitArms, SoloCleanRemoves, SoloRunRegisters, SomeInitWins |
| `dashboard` | 2 threads, 2 simulations, any number of polls and incident lists | DashTypeOK, LedgerAgrees, StatusesAreOfThePast, AnswersOwnOrNewer, OnlyFailuresLeaveChildren, RequestsEnd, PageCatchesUp |
| `forensics` | 3 systems, 4 pids (init, daemon, two more), each reused once, every process tree, 5 memory maps around a bound of 3 | SnapshotTypeOK, DumpBounded, DumpComplete, OffenderFirst, LineageIsKin, LineageComplete, SnapshotEnds |
| `relatime`, `clock_slip`, `exit_race`, `heuristic`, `permissions` | as above, `exit_race`, `heuristic` and `permissions` on Linux | disagreements of the code with its documents, see 6 |

Why the bounds suffice. Every interesting monitor behaviour involves one path
(accesses before, within and after the window) or the order of two; the window
is 2 so that an event can fall inside it, on its border and beyond. A pid reused
once gives a target and a successor, of either user; every property speaks of the
process aimed at, the one signalled and the one there now, and these are at most
two with the pid reused between two of the call's steps; the proofs cover any
number. `run` leaves macOS out: its walk is that of Linux without `Tier1Abort`,
so every behaviour of its search is one of Linux.
Two calls are the least that can contend for the lock; `run` needs two so that a
second access finds a process stopped already. Three jobs allow one to be killed
half-way while two others collide, and a third to repair what a collision left.
Two threads are enough for two simulations, for a simulation beside a poll, and for
two polls that overtake one another; a second simulation is what an answer can
take for the first. The memory maps are shorter than, as long as, and longer
than the bound, in one region and in several, with and without an address out of
seek()'s range.
Queues need no bound: the time bound limits the accesses that can be queued.
Deadlock is not checked: the daemon stops on Ctrl-C, calls and jobs end, and
time is bounded. `deployment` uses symmetry over jobs, sound for its invariants.

Fairness. A running task goes on until it suspends (weak fairness of its steps:
Python code that is running runs). The loop's ready queue is a FIFO, so a
suspended task that keeps becoming ready is resumed although the loop is in
other hands in between (strong fairness of resumption). The threads of the dashboard and
its children run (weak fairness of their steps), a thread waiting for `_LOCK` is
served if it keeps coming free, and the page's timer keeps asking for the status,
for which there is a thread (strong fairness of both). A client reads its answer or
stops reading for good (`ClientStalls`, which nothing ends and nothing forces). The snapshot is a stretch of
one thread (weak fairness). Nothing is assumed of
the world: no process need exit, read or close, and Ctrl-C need not come. The
properties `AccessAnswered`, `CallsEnd`, `DispatchRuns`, `RequestsEnd`,
`PageCatchesUp` and `SnapshotEnds` are checked under these assumptions only.

Some points that are easily misread. `DispatchRuns` and `StopsOnRecord` hold
across Ctrl-C because a callback created before the cancellation stands ahead of
the cancelled tasks in the FIFO, `freeze_threat()` does not suspend, and
`asyncio.run` joins the worker threads. `StopsOnRecord` says that a stop is counted, and at the
notifier unless printing its report raised (`unprinted`). `RateLimited` is about the events the debouncer lets
through, in real time less what the wall clock was set forward in between: a
forward step is time that the debouncer believes to have passed.
`HolderNotMissed` excuses what `find_pid_accessing_file` does pass over: on Linux
and macOS a process whose descriptors may not be listed (`linux.py` 76, `darwin.py`
63) or are shown under other names (`Tier1Refused`), on Linux the rest of a walk that a
process ends by exiting (`Tier1Abort`); on Windows a list whose first entry is not
ours or may not be opened (`FirstHolderRefused`), or one that has grown since it
was counted; on Linux and Windows any other failure of the listing
(`Tier1Fails`). A Windows
session that cannot be had (`ManagerFails`) names nobody and does not come to Tier 2.
`RequestsEnd` and `PageCatchesUp` name what does hold a request up (`Obstructed`): a
client that stops reading `/api/incidents`, which is sent under `_LOCK`, holds
everybody who needs the lock; one that stops reading another answer holds its
thread; a daemon that stops the simulation's child before it prints holds that
request alone; one that stops the dashboard holds them all.
`OnlyFailuresLeaveChildren` promises that SIGKILL was sent, not that the child was
reaped, as `web.py` 158-160 answers in either case. `AnswersOwnOrNewer` is as much
as the code gives: the incident in an answer may be another request's.
`SoloRunRegisters` counts canaries by their names; a journal that an `init` killed
at its rows has left (`Cookies.honey-journal`) matches the same pattern
(`cli.py` 152) and is registered, too, outside the model.
`LineageIsKin` excuses an entry whose pid was reused during the snapshot.

## 4. Proofs

Every invariant and every action property the passing runs check is a theorem here;
so are the refinements. All theorems hold for arbitrary canaries, processes, users,
systems, calls, jobs, threads, process trees, memory maps and bounds. They rest on the named assumptions of the modules, which TLC
evaluates in every run: `TimeAssumption`, `MonitorAssumption`,
`SystemsAssumption`, `ProcessAssumption`, `MitigatorAssumption`,
`AttributionAssumption` (finitely many pids, so that the lowest of a listing
exists), `RunAssumption` (no call has the name of a task),
`DashboardAssumption`,
`SnapshotAssumption`, `DeploymentAssumption`.

* `CanaryMonitorProofs`. The inductive invariant `MonitorInv` is `TypeOK` with
  `ControlInv` (who has the thread, where each task stands), `BaselineInv` (a
  path the baseline loop has not visited has no cache entry), `ClockInv` (no
  access time lies in the future while the clock is not stepped back),
  `DebounceInv` (`debouncer` against `handledAt` in real time and `leapt`, what the
  clock was set forward since) and `ReadsInv`
  (a read no scan has seen yet shows in the access time). `TypeCorrect` and
  `DebounceComplete` (RateLimited) need nothing of the environment;
  `DebounceSound` (DropsOnlyDuplicates) and `FeedImplemented` (refinement of
  `AccessFeed`) need a clock that is not stepped back; `ReadsReported`
  (NoLostRead) also exact access times; a clock that is set forward hurts none of
  them. The violation runs show that those two hypotheses cannot be dropped.
* `ThreatMitigatorProofs`, on the three systems at once: all that the argument
  needs of the differing owner checks is `OurProcess`, that a living process of
  the user's gets past each of them, and `OwnAnswer`, that no other process does. `MitigatorInv` adds to the types: exactly
  the call that is on has the loop, and holds the lock between acquisition and
  end (`ControlInv`); what a call has done by where it stands (`CallInv`); a
  target past the guards is not the daemon, and if it is the shell's pid, the
  shell has ended (`TargetInv`); the generations a call aimed at and signalled
  are in order (`GenInv`); a call answers for every stopped process (`StopsInv`);
  past the first owner check a target is the user's or has ended (`EndedInv`, hence
  `RaisesForEndedTargets`).
  `NoSelfHarm` is not inductive without `TargetInv`, because the parent is
  looked up several steps before the signal. `PromiseKept` is the refinement of
  `FreezePromise`: a call's stage there is a function of its `pc` and `outcome`
  (`StageOf`); a step before the signal leaves the stages alone (`GoesOn`) or
  turns the target away (`TurnedAway`), the signal is the promise's stop, and the
  snapshot's outcome its answer (`PromiseStep`). Everything is stated of
  `MitigatorAct`, a step of the calls, of the processes or of somebody else, so
  that the composition can use it.
* `DeceptEnvRunProofs`, the whole program. `CallsSee`: each of its steps is a
  `MitigatorAct`, hence `RunIsSafe` (all safety properties of the calls) and
  `RunKeepsPromise` hold there without a second argument. `PipelineInv` gives
  every event in the queue, in hand, ready to be dispatched or dispatched an
  access of its own that the cache has caught up with (`Known`); with one signal
  a call, that is `OneStopForAnAccess`. `RecordInv` says that the calls that
  returned a report are exactly those at the notifier or with a report that could
  not be printed, and that the counter counts them (`StopsAreOnRecord`).
  `HolderInv`: a Tier 1 walk under way still has to come to everybody who has kept
  the canary open since it began and was not withheld from it
  (`HoldersAreNotMissed`), because it takes the lowest pid left.
* `CanaryDeploymentProofs`. A file that is not whole, or open to others, has a
  job that owes it its content or mode: `OwesContent`, `OwesMode` name the step
  that job stands at. `DeployInv` says so of every file (`PartialInv`,
  `ExposedInv`), beside the types and where each job stands (`JobInv`). A step of
  a job is looked at where it works (`PartialLocally`, `ExposedLocally`);
  elsewhere, and for what other jobs owe, it changes nothing (`OthersOwe`).
* `CanaryJobsProofs`. Every command's agenda has all the canaries, a deployment's
  each of them once (`AgendaElements`), and what is left of it is a set that loses
  one canary at a time (`Left`, `TailElements`). A step keeps a job at its canary
  or finishes it (`StepForms`) and leaves the other jobs' records where they are
  but for a file they held open (`Bystanders`). For the job that is alone
  (`SoloInv`: nobody else is running, so only its own steps are taken) the
  invariants say what it has achieved for the canaries that are not left:
  `ArmsInv` (whole and private; at the one in hand, the file is as the job's last
  step left it, `HereArmed`, hence no step can fail), `RemovesInv`,
  `RegistersInv`. `SomeInitSucceeds` is about deployments only (`Peaceful`).
  `SafeInv`: a canary of `_safe_write` stays once it is there, so only Chrome's can
  make a deployment fail. `ChromeInv`: if a database that somebody has begun with
  is missing, a job under way is about to create it, and one that is whole has a
  job that got it done. When nobody is under way any more, whoever failed had
  begun with a database, which therefore is there, is whole by `PartialInv`, and
  belongs to a job that is past it and so did not fail. `StrictOneAtATime` has the
  hypothesis that no two commands are under way at once: a database that somebody
  has closed to others is then still there when SQLite opens it (`DatabaseInv`), so
  the only open one is that of a job about to close it (`BareInv`).
* `WebDashboardProofs`. `LockInv` puts exactly the thread between acquisition and
  release into the lock, so that what it fetched of a counter is what it adds
  one to (`FetchedInv`); `LedgerInv` follows the counters and the list through
  the unequal steps in between: `LedgersAgree`. The answer of a status is copied
  under the lock and its list read later, hence `DumpInv`, and for
  `StatusesOfThePast` that lists only grow at the front (`ListGrows`). `OwnInv`
  (no two threads have one simulation), `ListedInv` (a simulation past the lock is
  in the list) and `KilledInv` (one at its answer has killed its child) carry
  `AnswersAreOwnOrNewer` and `AnsweredMeansKilled`. The counters' bounds in `DashTypeOK` are not inductive by
  themselves: `CountedInv` adds the simulations still to be counted, so that
  counter and pending ones together never exceed those begun (`DashTypeCorrect`).
* `ForensicsProofs`. `DumpIsBounded` for every memory map and failing read.
  `OffenderIsFirst`: while the target lives it is the first pid still to be
  described, and then the first entry of the lineage (`TargetInv`), whatever
  becomes of its ancestors. `DumpIsComplete`: while no read goes wrong the dump is
  the size of the regions read so far, capped (`DumpInv`); the size of a map is a
  recursive function, shown to exist and to grow by `SizesExist` and `SizesGrow`.
  `LineageKin`: the ancestry at the start is closed under parents, and the walk
  moves within it (`KinInv`), as init never ends (`RootInv`). `LineageIsComplete`:
  while none of the ancestry ends, the walk up has reached the place in it that
  the number of pids collected tells (`Climbing`), and then the lineage has what
  can be described of the first so many (`DescribedUpTo`, `QuietInv`); one more
  look-up makes that one more place (`SelectsOneMore`).

The two inductions over data (the sizes of a memory map, and the functions that
add them up) go through `NatSetInduction`, which is stated of a set of numbers and
follows from the well-foundedness of <: the provers cannot instantiate the
library's induction rules, whose hypothesis is an operator.

Only model-checked: the liveness properties `AccessAnswered`, `CallsEnd`,
`DispatchRuns`, `RequestsEnd`, `PageCatchesUp` and `SnapshotEnds`, as fairness and
ENABLED are out of the prover's reach.

## 5. Not modelled

* What only reads or formats: `list_canaries`, the Rich table, `/`,
  `/api/canaries` and HEAD, the payload's layout, the HTTP exchange with Slack,
  token generation, the regular expressions over the dump, the list of sockets.
* What nothing calls: `resume_pid` of the adapters; `unregister`, `is_canary` and
  `get_canary_metadata` of the registry.
* Configuration and exceptions: immutable values and class definitions.
  `mitigation_enabled` (`config.py` 24) is read nowhere, and the allowlist of
  CAPSTONE_REPORT.md 4.1 does not exist in the code, so neither does in the model.
* Details of one Windows call: its handles and buffers. Windows' refusal to unlink
  an open file, its elevated processes apart from their not being openable, and
  two processes of one pid that start within a tick of psutil's clock.

## 6. Where code and documents disagree

* `relatime`: reads of a canary that has been hashed once leave `st_atime` alone
  on a default Linux mount; "true file access" polling sees nothing.
* `clock_slip`: the "monotonic timestamp debouncer" uses `time.time()`.
* `exit_race`: a process that exits between the two owner checks makes
  `freeze_threat` raise instead of being handled. It raises there for no other
  (`RaisesForEndedTargets`).
* `heuristic`: Tier 2 stops the youngest process of the last 5 seconds without
  looking at its I/O, so it may stop one that never opened a canary.
* `permissions`: `chmod` precedes `sqlite3.connect`; a deployment that races
  with another one can leave a Chrome canary with the umask's permissions. While one
  command at a time is under way, none can (`StrictOneAtATime`).

Also seen, without a run of its own:

* The report of a stopped process is printed before it is sent (`cli.py` 191), as
  console markup: a command line with `[/x]` in it, or one that is no valid Unicode,
  makes the printing raise, and the incident never reaches the notifier
  (`PrintFails`).
* `freeze_threat` identifies a process by its pid alone; a successor of the same
  user that takes the pid between two of its steps is stopped in its place.
* A canary removed between `exists()` and `stat()` of the baseline loop ends the
  daemon (`BaselineCrash`); a `clean` beside the start of `run` can end it, too
  (`Register`).
* A frozen process keeps its descriptor and is named again for the next reader.
* A memory map with an address `seek()` cannot represent raises `ValueError`
  (`SeekTooHigh`): the target is stopped, and the snapshot lost.
* Simulations share one script file (`TruncateScript`, `WriteScript`): a child
  may start on an empty one and end at once; its simulation then reports the
  ended process, which never read the canary, or nothing.
* `/api/incidents` is sent while `_LOCK` is held, and no answer has a timeout
  (`ClientStalls`), nor has the reading of the child's line (`ReadLine`).
* A forward step of the wall clock lets a duplicate through the debouncer
  (`ClockSetForward`).
* A process whose descriptors the system does not show to its own user is never
  found by Tier 1 (`Tier1Refused`).
* `/api/status` hashes, that is reads, the canaries: a daemon takes the dashboard
  for a reader like any other.

## 7. Plan

Done: every component that has state, its interactions, and the proofs of all
safety properties. Left, in this order:

1. Theorems that say under which hypothesis the claims about attribution hold: what
   Tier 2 names when one process alone was started in its five seconds.
2. A macOS instance of `run`, and one with three processes and pid reuse, should a
   run longer than a few minutes be acceptable.
