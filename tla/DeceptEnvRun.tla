---------------------------- MODULE DeceptEnvRun ----------------------------
(***************************************************************************)
(* `deceptenv run`: the monitor's two tasks, the attribution the process   *)
(* task performs, and the callback task of cli.py, which counts the event, *)
(* calls freeze_threat(), prints the report and posts the incident to      *)
(* Slack from a worker thread, all on one event loop, beside the processes *)
(* of the machine.                                                         *)
(***************************************************************************)
EXTENDS CanaryMonitor, ThreatMitigator, ProcessAttribution

\* The callback tasks are neither of the monitor's two.
ASSUME RunAssumption == {"poll", "process"} \cap Calls = {}

VARIABLES
  events,   \* state["events"]
  threats,  \* state["threats"]
  posting,  \* calls whose notification is in a worker thread
  posted,   \* calls whose notification was sent or failed
  unprinted,  \* calls whose callback ended printing the report
  touches,  \* history: when each canary was read or created
  readers   \* history: <<pid, gen>> of the processes that read a canary

cliVars == <<events, threats, posting, posted, unprinted>>
historyVars == <<touches, readers>>
osVars == <<procVars, tableVars>>
runVars == <<vars, procVars, callVars, tableVars, searchVars, cliVars,
             historyVars>>

RunTypeOK ==
  /\ running \in {"loop", "poll", "process"} \cup Calls
  /\ AttributionTypeOK
  /\ events \in Nat /\ threats \in Nat
  /\ posting \in SUBSET Calls /\ posted \in SUBSET Calls
  /\ unprinted \in SUBSET Calls

RunInit ==
  /\ Init /\ ProcessesInit /\ CallsInit /\ AttributionInit
  /\ events = 0 /\ threats = 0
  /\ posting = {} /\ posted = {} /\ unprinted = {}
  /\ touches = {} /\ readers = {}

-----------------------------------------------------------------------------
(* The monitor's tasks; LetThrough goes straight into the search.          *)

PollTask ==
  /\ PollResume \/ PollStep
  /\ UNCHANGED <<procVars, callVars, tableVars, searchVars, cliVars, historyVars>>

ProcessTask ==
  /\ ProcessResume \/ Suppress \/ ProcessWait
  /\ UNCHANGED <<procVars, callVars, tableVars, searchVars, cliVars, historyVars>>

StartSearch ==
  /\ LetThrough
  /\ BeginSearch(Head(queue))
  /\ UNCHANGED <<procVars, callVars, cliVars, historyVars>>

Search ==
  /\ attributing # NoPath
  /\ SearchStep(attributing)
  /\ UNCHANGED <<vars, procVars, callVars, cliVars, historyVars>>

\* The process named gets its callback task.
Attribute ==
  /\ attributing # NoPath
  /\ \E q \in Pids : SearchNames(attributing, q) /\ Dispatch(q)
  /\ UNCHANGED <<procVars, callVars, cliVars, historyVars>>

GiveUp ==
  /\ SearchNamesNobody
  /\ Unattributed
  /\ UNCHANGED <<procVars, callVars, cliVars, historyVars>>

-----------------------------------------------------------------------------
(* The callback task.                                                      *)

\* Fault: Ctrl-C drops the callback tasks that have not started.
CallbackStartWhenUp(c) ==
  /\ Up /\ ready # <<>>
  /\ Call(c, Head(ready).pid)
  /\ ready' = Tail(ready)
  /\ events' = events + 1
  /\ UNCHANGED <<fileVars, phase, pollVars, queue, processVars, unscanned,
                 tableVars, searchVars, threats, posting, posted, unprinted,
                 historyVars>>

\* The oldest callback task starts: the event is counted, freeze_threat called.
CallbackStart(c) ==
  /\ ready # <<>>
  /\ Call(c, Head(ready).pid)
  /\ ready' = Tail(ready)
  /\ events' = events + 1
  /\ UNCHANGED <<fileVars, phase, pollVars, queue, processVars, unscanned,
                 tableVars, searchVars, threats, posting, posted, unprinted,
                 historyVars>>

Counted == threats' = threats + 1

\* notify_incident hands the payload to a worker thread; the webhook is set.
Notify(c) == posting' = posting \cup {c} /\ UNCHANGED unprinted

\* Printing the report raises: its text is taken for console markup, so that a
\* command line with "[/x]" in it is an error, and may be no valid Unicode.
PrintFails(c) == unprinted' = unprinted \cup {c} /\ UNCHANGED posting

\* Fault: once Ctrl-C has come, the report is dropped.
CallbackStepWhenUp(c) ==
  /\ CallStep(c)
  /\ IF outcome'[c] = "report" /\ Up
     THEN Counted /\ (Notify(c) \/ PrintFails(c))
     ELSE UNCHANGED <<threats, posting, unprinted>>
  /\ UNCHANGED <<fileVars, monitorVars, tableVars, searchVars, events, posted,
                 historyVars>>

\* freeze_threat goes on.  With its report the callback counts the threat,
\* prints the report and hands the notification to a thread in the same step of
\* the loop, unless printing ends it first.
CallbackStep(c) ==
  /\ CallStep(c)
  /\ IF outcome'[c] = "report"
     THEN Counted /\ (Notify(c) \/ PrintFails(c))
     ELSE UNCHANGED <<threats, posting, unprinted>>
  /\ UNCHANGED <<fileVars, monitorVars, tableVars, searchVars, events, posted,
                 historyVars>>

\* _sync_post ends; it swallows every failure.  Neither Ctrl-C nor the end of
\* asyncio.run, which joins the worker threads, stops it.
Post(c) ==
  /\ c \in posting
  /\ posting' = posting \ {c}
  /\ posted' = posted \cup {c}
  /\ UNCHANGED <<vars, procVars, callVars, tableVars, searchVars, events,
                 threats, unprinted, historyVars>>

-----------------------------------------------------------------------------
(* The world: time, files and processes.                                   *)

\* Process q opens a canary and reads it.
ReaderReads(q, p) ==
  /\ ReadCanary(p)
  /\ Open(q, p)
  /\ touches' = touches \cup {<<p, clock>>}
  /\ readers' = readers \cup {<<q, gen[q]>>}
  /\ UNCHANGED <<procVars, callVars, cliVars>>

ReaderCloses(q, p) ==
  /\ Close(q, p)
  /\ UNCHANGED <<vars, procVars, callVars, cliVars, historyVars>>

CanaryRemoved(p) ==
  /\ RemoveCanary(p)
  /\ Unlinked(p)
  /\ UNCHANGED <<procVars, callVars, cliVars, historyVars>>

CanaryCreated(p) ==
  /\ Create(p)
  /\ touches' = touches \cup {<<p, clock>>}
  /\ UNCHANGED <<running, monitorVars, procVars, callVars, tableVars,
                 searchVars, cliVars, readers>>

TimePasses ==
  /\ Tick
  /\ UNCHANGED <<running, monitorVars, procVars, callVars, tableVars,
                 searchVars, cliVars, historyVars>>

ProcessChanges(q) ==
  /\ ProcessEvent(q)
  /\ TableFollows(q)
  /\ UNCHANGED <<vars, callVars, cliVars, historyVars>>

\* The first Ctrl-C on Python 3.11 and later: the main task is cancelled.  A
\* second one, or any on an older Python, is a KeyboardInterrupt in the middle of
\* whatever task runs, and no task runs any more.  RunSpec has that, as no step
\* of it is bound to come: what holds in all its states holds in those the
\* daemon ends in.  Between count and notification it leaves what PrintFails
\* leaves.  Only RunFairSpec has no such end.
CtrlC ==
  /\ Cancel
  /\ UNCHANGED <<procVars, callVars, tableVars, searchVars, cliVars, historyVars>>

RunNext ==
  \/ PollTask \/ ProcessTask \/ StartSearch \/ Search \/ Attribute \/ GiveUp
  \/ \E c \in Calls : CallbackStart(c) \/ CallbackStep(c) \/ Post(c)
  \/ CtrlC \/ TimePasses
  \/ \E p \in Paths :
       \/ CanaryRemoved(p) \/ CanaryCreated(p)
       \/ \E q \in Pids : ReaderReads(q, p) \/ ReaderCloses(q, p)
  \/ \E q \in Pids : ProcessChanges(q)

RunSpec == RunInit /\ [][RunNext]_runVars

\* As in CanaryMonitor: running tasks go on, ready ones are resumed in turn.
RunFairness ==
  /\ WF_runVars(PollTask)
  /\ WF_runVars(StartSearch \/ Search \/ Attribute \/ GiveUp)
  /\ SF_runVars(ProcessTask)
  /\ \A c \in Calls : WF_runVars(CallbackStep(c)) /\ SF_runVars(CallbackStart(c))

RunFairSpec == RunSpec /\ RunFairness

-----------------------------------------------------------------------------
(* Properties.                                                             *)

\* Process q has, or had, the canary open, too.
Interferes(q) == HasOpen(q, attributing) \/ best.pid = q

\* A process of ours that keeps the canary open throughout Tier 1 is not left to
\* the guess of Tier 2, however the process table changes in between, unless the
\* system withholds it from the search (Tier1Refused, FirstHolderRefused,
\* Tier1Fails), or, on Linux, a process that exits ends the walk early, or, on
\* Windows, another process that came later, is not ours or is withheld has the
\* canary open as well.
HolderNotMissed ==
  [][tier = 1 /\ tier' = 2 =>
       \/ steady' = {}
       \/ system = "linux" /\ walk # {}
       \/ system = "win32" /\ \E q \in Pids \ steady' : Interferes(q)]_runVars

\* The calls that have sent SIGSTOP, and the accesses there were.
Signalling == {c \in Calls : signalled[c] # Nobody}

\* No canary access, no freeze: the engine stops at most one process for each
\* access, and none when nobody touches a canary.
OneStopPerAccess == Cardinality(Signalling) <= Cardinality(touches)

\* A stopped process is on record: it is counted as neutralized, and its
\* incident is at the notifier, Ctrl-C or not, unless the report could not be
\* printed; its snapshot may also be still being taken or have failed.
StopsOnRecord ==
  /\ threats = Cardinality(posting \cup posted \cup unprinted)
  /\ \A q \in Pids :
       state[q] = "stopped" =>
         \E c \in Calls :
           /\ target[c] = q /\ signalled[c] = gen[q]
           /\ \/ pc[c] = "snapshot"
              \/ outcome[c] = "SnapshotError"
              \/ c \in posting \cup posted \cup unprinted

\* A callback task that was created runs, also when a Ctrl-C has come, unless
\* a second one (on Python before 3.11 the first) ends the loop.
DispatchRuns == ready # <<>> ~> ready = <<>>

\* Only a process that read a canary is ever stopped.
OnlyReadersStopped ==
  \A q \in Pids : state[q] = "stopped" => <<q, gen[q]>> \in readers

=============================================================================
