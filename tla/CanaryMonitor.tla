--------------------------- MODULE CanaryMonitor ---------------------------
(***************************************************************************)
(* engine/monitor.py: the poll task, which turns access-time changes of    *)
(* the canaries into a queue of paths, and the process task, which         *)
(* debounces the queue, has the platform attribute each path to a process  *)
(* and creates one callback task per attributed path.  Attribution and the *)
(* callback are a choice here; DeceptEnvRun puts the real ones in.         *)
(***************************************************************************)
EXTENDS EventLoop, CanaryFiles, Sequences

CONSTANTS
  Suspects,         \* processes an access may be attributed to
  NoPath,           \* no path
  DebounceSeconds   \* self.debounce_seconds

ASSUME MonitorAssumption ==
  /\ NoPath \notin Paths
  /\ DebounceSeconds \in Nat \ {0}
  /\ DebounceSeconds <= StartTime

VARIABLES
  phase,        \* "up", "stopped" by Ctrl-C, or "crashed" by an exception
  pollPc,       \* where _poll_access stands
  todo,         \* paths its current `for` loop has not visited
  cur,          \* path between exists() and stat() of the baseline loop
  atimeCache,   \* self._atime_cache; Absent where it has no entry
  queue,        \* self.queue
  debouncer,    \* self.debouncer; 0 where it has no entry
  attributing,  \* path the process task is attributing, or NoPath
  ready,        \* callback tasks created and not started yet
  unscanned,    \* history: armed canaries read since their last scan
  handledAt,    \* history: `elapsed` when each path was last let through
  leapt         \* history: how far the wall clock was set forward since then

pollVars == <<pollPc, todo, cur, atimeCache>>
processVars == <<debouncer, attributing, handledAt, leapt>>
monitorVars == <<phase, pollPc, todo, cur, atimeCache, queue, debouncer,
                 attributing, ready, unscanned, handledAt, leapt>>
vars == <<running, fileVars, monitorVars>>

Never == -1
Up == phase = "up"

Callback == [pid : Suspects, path : Paths]

TypeOK ==
  /\ FilesTypeOK
  /\ running \in {"loop", "poll", "process"}
  /\ phase \in {"up", "stopped", "crashed"}
  /\ pollPc \in {"baseline", "stat", "scan", "asleep"}
  /\ todo \in SUBSET Paths
  /\ cur \in Paths \cup {NoPath}
  /\ atimeCache \in [Paths -> Nat \cup {Absent}]
  /\ queue \in Seq(Paths)
  /\ debouncer \in [Paths -> Nat]
  /\ attributing \in Paths \cup {NoPath}
  /\ ready \in Seq(Callback)
  /\ unscanned \in SUBSET Paths
  /\ handledAt \in [Paths -> Nat \cup {Never}]
  /\ leapt \in [Paths -> Nat]

Init ==
  /\ running = "loop"
  /\ FilesInit
  /\ phase = "up"
  /\ pollPc = "baseline"
  /\ todo = Paths
  /\ cur = NoPath
  /\ atimeCache = [p \in Paths |-> Absent]
  /\ queue = <<>>
  /\ debouncer = [p \in Paths |-> 0]
  /\ attributing = NoPath
  /\ ready = <<>>
  /\ unscanned = {}
  /\ handledAt = [p \in Paths |-> Never]
  /\ leapt = [p \in Paths |-> 0]

-----------------------------------------------------------------------------
(* The poll task.                                                          *)

\* Fault: the paths are an iterator the first scan exhausts.
PollResumeExhausted ==
  /\ Up
  /\ pollPc \in {"baseline", "asleep"}
  /\ Resume("poll")
  /\ pollPc' = IF pollPc = "asleep" THEN "scan" ELSE pollPc
  /\ UNCHANGED <<fileVars, phase, todo, cur, atimeCache, queue, processVars,
                 ready, unscanned>>

\* The task starts (baseline) or its asyncio.sleep(0.01) is over.
PollResume ==
  /\ Up
  /\ pollPc \in {"baseline", "asleep"}
  /\ Resume("poll")
  /\ pollPc' = IF pollPc = "asleep" THEN "scan" ELSE pollPc
  /\ todo' = Paths
  /\ UNCHANGED <<fileVars, phase, cur, atimeCache, queue, processVars, ready,
                 unscanned>>

\* `if path.exists()` of the baseline loop.
BaselineExists(p) ==
  /\ running = "poll" /\ pollPc = "baseline" /\ p \in todo
  /\ todo' = todo \ {p}
  /\ \/ /\ Present(p)
        /\ cur' = p
        /\ pollPc' = "stat"
     \/ /\ ~Present(p)
        /\ UNCHANGED <<cur, pollPc>>
  /\ UNCHANGED <<running, fileVars, phase, atimeCache, queue, processVars,
                 ready, unscanned>>

\* Fault: the baseline only notes that the path is there.
BaselineStatUnread ==
  /\ running = "poll" /\ pollPc = "stat"
  /\ Present(cur)
  /\ atimeCache' = [atimeCache EXCEPT ![cur] = 0]
  /\ cur' = NoPath
  /\ pollPc' = "baseline"
  /\ UNCHANGED <<running, fileVars, phase, todo, queue, processVars, ready,
                 unscanned>>

\* `self._atime_cache[path] = os.stat(path).st_atime`.
BaselineStat ==
  /\ running = "poll" /\ pollPc = "stat"
  /\ Present(cur)
  /\ atimeCache' = [atimeCache EXCEPT ![cur] = atime[cur]]
  /\ cur' = NoPath
  /\ pollPc' = "baseline"
  /\ UNCHANGED <<running, fileVars, phase, todo, queue, processVars, ready,
                 unscanned>>

\* The same stat() when the file has gone since exists(): no handler, so the
\* FileNotFoundError ends the task, gather(), start() and the program.
BaselineCrash ==
  /\ running = "poll" /\ pollPc = "stat"
  /\ ~Present(cur)
  /\ phase' = "crashed"
  /\ Suspend
  /\ UNCHANGED <<fileVars, pollVars, queue, processVars, ready, unscanned>>

BaselineDone ==
  /\ running = "poll" /\ pollPc = "baseline" /\ todo = {}
  /\ pollPc' = "scan"
  /\ todo' = Paths
  /\ UNCHANGED <<running, fileVars, phase, cur, atimeCache, queue,
                 processVars, ready, unscanned>>

\* Fault: the scan tolerates one unit of timestamp granularity.
AdvancedByMoreThanOne(p) ==
  Present(p) /\ atimeCache[p] # Absent /\ atime[p] > atimeCache[p] + 1

\* The access time the cache holds is older than the file's.
Advanced(p) ==
  /\ Present(p)
  /\ atimeCache[p] # Absent
  /\ atime[p] > atimeCache[p]

\* Fault: the new access time is not written back to the cache.
ScanWithoutCacheUpdate(p) ==
  /\ running = "poll" /\ pollPc = "scan" /\ p \in todo
  /\ todo' = todo \ {p}
  /\ atimeCache' = IF atimeCache[p] = Absent
                   THEN [atimeCache EXCEPT ![p] = atime[p]] ELSE atimeCache
  /\ queue' = IF Advanced(p) THEN Append(queue, p) ELSE queue
  /\ unscanned' = unscanned \ {p}
  /\ UNCHANGED <<running, fileVars, phase, pollPc, cur, processVars, ready>>

\* One pass of the scan's body.  exists() and stat() are one step: a file that
\* goes between them is skipped by `except OSError` as a missing one is.
ScanPath(p) ==
  /\ running = "poll" /\ pollPc = "scan" /\ p \in todo
  /\ todo' = todo \ {p}
  /\ atimeCache' = IF Advanced(p) \/ atimeCache[p] = Absent
                   THEN [atimeCache EXCEPT ![p] = atime[p]]
                   ELSE atimeCache
  /\ queue' = IF Advanced(p) THEN Append(queue, p) ELSE queue
  /\ unscanned' = unscanned \ {p}
  /\ UNCHANGED <<running, fileVars, phase, pollPc, cur, processVars, ready>>

PollSleep ==
  /\ running = "poll" /\ pollPc = "scan" /\ todo = {}
  /\ pollPc' = "asleep"
  /\ Suspend
  /\ UNCHANGED <<fileVars, phase, todo, cur, atimeCache, queue, processVars,
                 ready, unscanned>>

-----------------------------------------------------------------------------
(* The process task.                                                       *)

\* `await self.queue.get()` has an item.
ProcessResume ==
  /\ Up
  /\ queue # <<>>
  /\ Resume("process")
  /\ UNCHANGED <<fileVars, monitorVars>>

\* The debouncer has seen path p too recently, going by time.time().
Debounced(p) == clock - debouncer[p] < DebounceSeconds

\* Fault: a suppressed event restarts the debounce window.
SuppressSliding ==
  /\ running = "process" /\ attributing = NoPath /\ queue # <<>>
  /\ Debounced(Head(queue))
  /\ queue' = Tail(queue)
  /\ debouncer' = [debouncer EXCEPT ![Head(queue)] = clock]
  /\ UNCHANGED <<running, fileVars, phase, pollVars, attributing, handledAt,
                 leapt, ready, unscanned>>

Suppress ==
  /\ running = "process" /\ attributing = NoPath /\ queue # <<>>
  /\ Debounced(Head(queue))
  /\ queue' = Tail(queue)
  /\ UNCHANGED <<running, fileVars, phase, pollVars, processVars, ready,
                 unscanned>>

\* Fault: the debouncer is left for a later step that may not come.
LetThroughUnmarked ==
  /\ running = "process" /\ attributing = NoPath /\ queue # <<>>
  /\ ~Debounced(Head(queue))
  /\ queue' = Tail(queue)
  /\ attributing' = Head(queue)
  /\ handledAt' = [handledAt EXCEPT ![Head(queue)] = elapsed]
  /\ leapt' = [leapt EXCEPT ![Head(queue)] = 0]
  /\ UNCHANGED <<running, fileVars, phase, pollVars, debouncer, ready,
                 unscanned>>

\* The event is let through: the debouncer is set before attribution is tried.
LetThrough ==
  /\ running = "process" /\ attributing = NoPath /\ queue # <<>>
  /\ ~Debounced(Head(queue))
  /\ queue' = Tail(queue)
  /\ debouncer' = [debouncer EXCEPT ![Head(queue)] = clock]
  /\ attributing' = Head(queue)
  /\ handledAt' = [handledAt EXCEPT ![Head(queue)] = elapsed]
  /\ leapt' = [leapt EXCEPT ![Head(queue)] = 0]
  /\ UNCHANGED <<running, fileVars, phase, pollVars, ready, unscanned>>

\* find_pid_accessing_file() returned a process: create its callback task.
Dispatch(pid) ==
  /\ attributing # NoPath
  /\ ready' = Append(ready, [pid |-> pid, path |-> attributing])
  /\ attributing' = NoPath
  /\ UNCHANGED <<running, fileVars, phase, pollVars, queue, debouncer,
                 handledAt, leapt, unscanned>>

\* Fault: the `if triggering_pid` test is missing.
UnattributedDispatched ==
  /\ attributing # NoPath
  /\ ready' = Append(ready, [pid |-> 0, path |-> attributing])
  /\ attributing' = NoPath
  /\ UNCHANGED <<running, fileVars, phase, pollVars, queue, debouncer,
                 handledAt, leapt, unscanned>>

\* ... or None: a warning is logged and the event is over.
Unattributed ==
  /\ attributing # NoPath
  /\ attributing' = NoPath
  /\ UNCHANGED <<running, fileVars, phase, pollVars, queue, debouncer,
                 handledAt, leapt, ready, unscanned>>

ProcessWait ==
  /\ running = "process" /\ attributing = NoPath /\ queue = <<>>
  /\ Suspend
  /\ UNCHANGED <<fileVars, monitorVars>>

-----------------------------------------------------------------------------
(* Callback tasks, Ctrl-C and the world outside.                           *)

\* The oldest callback task runs.  Ctrl-C finds it ahead of the cancelled
\* tasks in the loop's queue, so it runs even when the daemon is stopping.
RunCallback ==
  /\ Idle
  /\ ready # <<>>
  /\ ready' = Tail(ready)
  /\ UNCHANGED <<running, fileVars, phase, pollVars, queue, processVars,
                 unscanned>>

\* Ctrl-C, Python 3.11 or later, for the first time: asyncio.run cancels the
\* main task; poll and process end at the await they are suspended in, or at
\* the next one they reach (see CtrlC in DeceptEnvRun for the others).
Cancel ==
  /\ Up /\ Idle
  /\ phase' = "stopped"
  /\ UNCHANGED <<running, fileVars, pollVars, queue, processVars, ready,
                 unscanned>>

ReadCanary(p) ==
  /\ Read(p)
  /\ unscanned' = IF atimeCache[p] # Absent /\ clock > atimeCache[p]
                  THEN unscanned \cup {p} ELSE unscanned
  /\ UNCHANGED <<running, phase, pollVars, queue, processVars, ready>>

RemoveCanary(p) ==
  /\ Remove(p)
  /\ unscanned' = unscanned \ {p}
  /\ UNCHANGED <<running, phase, pollVars, queue, processVars, ready>>

\* Bound: how far between two events of one path.
ClockSetForward ==
  /\ StepForward
  /\ leapt' = [p \in Paths |-> leapt[p] + (clock' - clock)]
  /\ \A p \in Paths : leapt'[p] <= MaxElapsed
  /\ UNCHANGED <<running, phase, pollVars, queue, debouncer, attributing,
                 handledAt, ready, unscanned>>

World ==
  \/ \E p \in Paths : ReadCanary(p) \/ RemoveCanary(p)
  \/ ClockSetForward
  \/ /\ \/ Tick
        \/ StepBack
        \/ \E p \in Paths : Create(p) \/ Rewrite(p)
     /\ UNCHANGED <<running, monitorVars>>

PollStep ==
  \/ \E p \in Paths : BaselineExists(p) \/ ScanPath(p)
  \/ BaselineStat \/ BaselineCrash \/ BaselineDone \/ PollSleep

ProcessStep ==
  \/ Suppress \/ LetThrough \/ Unattributed \/ ProcessWait
  \/ \E pid \in Suspects : Dispatch(pid)

Next ==
  \/ PollResume \/ PollStep
  \/ ProcessResume \/ ProcessStep
  \/ RunCallback \/ Cancel \/ World

Spec == Init /\ [][Next]_vars

\* A running task goes on until it suspends.  asyncio runs ready tasks in
\* FIFO order, so a suspended task whose wait is over is resumed although the
\* loop is not idle all the time: strong fairness.
Fairness ==
  /\ WF_vars(PollStep) /\ WF_vars(ProcessStep)
  /\ SF_vars(PollResume) /\ SF_vars(ProcessResume) /\ SF_vars(RunCallback)

FairSpec == Spec /\ Fairness

-----------------------------------------------------------------------------
(* Properties.                                                             *)

\* A read that happened later than the access time the monitor knows of is
\* put on the queue by the scan that next visits the file.
NoLostRead ==
  [][\A p \in unscanned :
       /\ running = "poll" /\ pollPc = "scan"
       /\ p \in todo /\ p \notin todo'
       => queue' = Append(queue, p)]_vars

\* The event taken from the queue in this step is dropped by the debouncer.
Dropped(p) ==
  queue # <<>> /\ p = Head(queue) /\ queue' = Tail(queue) /\ attributing' = NoPath

\* The debouncer drops an event only if the same path was let through less
\* than debounce_seconds of real time before (the clock may be set forward).
DropsOnlyDuplicates ==
  [][\A p \in Paths :
       Dropped(p) => /\ handledAt[p] # Never
                     /\ elapsed - handledAt[p] < DebounceSeconds]_vars

\* Two events of one path are let through (the debouncer lets the event go on to
\* attribution) at least debounce_seconds of real time apart, however the wall
\* clock is set back; when it was set forward in between, as much of the window
\* may be missing as it was set forward, and no more.
RateLimited ==
  [][\A p \in Paths :
       attributing' = p /\ attributing # p
         => \/ handledAt[p] = Never
            \/ elapsed - handledAt[p] + leapt[p] >= DebounceSeconds]_vars

\* The scan and the queue implement the feed the engine is written against.
Feed == INSTANCE AccessFeed WITH
  present <- {p \in Paths : Present(p)},
  outstanding <- {p \in Paths : Advanced(p)},
  feed <- queue

FeedSpec == Feed!Spec

Queued(p) == \E i \in DOMAIN queue : queue[i] = p

\* An access of an armed canary reaches the debouncer, unless the file is
\* removed first or the daemon stops.
AccessAnswered ==
  \A p \in Paths :
    Up /\ (Advanced(p) \/ Queued(p)) ~> ~Up \/ ~(Advanced(p) \/ Queued(p))

=============================================================================
