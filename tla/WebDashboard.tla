---------------------------- MODULE WebDashboard ----------------------------
(***************************************************************************)
(* web.py: ThreadingHTTPServer runs one thread per request.  The threads   *)
(* share _STATE, which _LOCK guards in most places, the simulation's       *)
(* script file, and the .env canary; every simulation has a child process  *)
(* of its own.  The browser page polls /api/status and draws each answer   *)
(* when it arrives.  /api/init and /api/clean are jobs of CanaryDeployment;*)
(* what they, and the daemon when it runs beside, do here is external.     *)
(* A thread gives way to the others between any two steps below.           *)
(***************************************************************************)
EXTENDS Integers, Sequences, SequencesExt, FiniteSets

CONSTANTS
  Threads,         \* handler threads, each used for one request after another
  NoThread,        \* nobody
  MaxSimulations   \* bound: requests for /api/simulate

ASSUME DashboardAssumption ==
  /\ NoThread \notin Threads
  /\ MaxSimulations \in Nat

VARIABLES
  count,      \* _STATE["events_processed"], _STATE["threats_neutralized"]
  last,       \* _STATE["last_threat"]: the simulation it names, 0 for "None"
  incidents,  \* _STATE["incidents"], newest first: the simulation of each
  lock,       \* holder of _LOCK
  pc,         \* what each thread does next
  sim,        \* the simulation it executes, 0 for none
  reg,        \* the counter value it has fetched and not stored yet
  report,     \* freeze_threat() gave it a report
  answer,     \* what it is sending, or about to
  begun,      \* simulations begun so far
  script,     \* deceptenv_web_sim.py in the temporary directory
  canary,     \* the .env canary exists
  life,       \* of each simulation's child, and of the dashboard itself
  stage,      \* how far the script of each child has come
  touched,    \* the children that have read the canary
  failed,     \* history: simulations answered with an error
  page        \* the status the page shows

stateVars == <<count, last, incidents>>
localVars == <<sim, reg, report, answer, begun, failed>>
childVars == <<life, stage, touched>>
worldVars == <<childVars, script, canary, page>>
dashVars == <<stateVars, lock, pc, localVars, worldVars>>

Simulations == 1 .. MaxSimulations
Dashboard == 0
Processes == Simulations \cup {Dashboard}   \* a child goes by its simulation
Counters == {"events", "threats"}
NoAnswer == [threats |-> 0, shown |-> <<>>]
Store == [events |-> "store_events", threats |-> "store_threats"]

Labels == {"idle", "stalled", "unread",
           "deploy", "chmod", "truncate", "write", "spawn", "readline", "freeze",
           "acquire", "events", "store_events", "threats", "store_threats",
           "insert", "kill", "answer",
           "exists", "stat", "acquire_status", "copy", "dump",
           "acquire_incidents", "send", "reply"}

DashTypeOK ==
  /\ count \in [Counters -> 0 .. MaxSimulations]
  /\ last \in 0 .. MaxSimulations
  /\ incidents \in Seq(Simulations)
  /\ lock \in Threads \cup {NoThread}
  /\ pc \in [Threads -> Labels]
  /\ sim \in [Threads -> 0 .. MaxSimulations]
  /\ reg \in [Threads -> 0 .. MaxSimulations]
  /\ report \in [Threads -> BOOLEAN]
  /\ \A s \in Threads : /\ DOMAIN answer[s] = {"threats", "shown"}
                        /\ answer[s].threats \in 0 .. MaxSimulations
                        /\ answer[s].shown \in Seq(Simulations)
  /\ begun \in 0 .. MaxSimulations
  /\ script \in {"none", "empty", "whole"}
  /\ canary \in BOOLEAN
  /\ life \in [Processes -> {"none", "running", "stopped", "dead", "killed"}]
  /\ stage \in [Simulations -> {"start", "attack", "print", "ready"}]
  /\ touched \subseteq Simulations
  /\ failed \subseteq Simulations
  /\ page.threats \in 0 .. MaxSimulations /\ page.shown \in Seq(Simulations)

DashInit ==
  /\ count = [k \in Counters |-> 0]
  /\ last = 0 /\ incidents = <<>>
  /\ lock = NoThread
  /\ pc = [s \in Threads |-> "idle"]
  /\ sim = [s \in Threads |-> 0]
  /\ reg = [s \in Threads |-> 0]
  /\ report = [s \in Threads |-> FALSE]
  /\ answer = [s \in Threads |-> NoAnswer]
  /\ begun = 0
  /\ script = "none" /\ canary \in BOOLEAN
  /\ life = [n \in Processes |-> IF n = Dashboard THEN "running" ELSE "none"]
  /\ stage = [n \in Simulations |-> "start"]
  /\ touched = {} /\ failed = {}
  /\ page = NoAnswer

\* The dashboard has not been stopped, and with it all its threads.
Serving == life[Dashboard] = "running"

\* Thread s has done its step at `from`, and goes on to `to`.
Step(s, from, to) ==
  Serving /\ pc[s] = from /\ pc' = [pc EXCEPT ![s] = to]

\* ... which changed nothing that others see, nor anything it keeps itself.
Pass(s, from, to) ==
  Step(s, from, to) /\ UNCHANGED <<stateVars, lock, localVars, worldVars>>

-----------------------------------------------------------------------------
(* _LOCK.                                                                  *)

\* Fault: the lock is not waited for.
TakeLockAnyway(s) == lock' = s

\* `with _LOCK:` begins.
TakeLock(s) == lock = NoThread /\ lock' = s

\* ... and ends, also when what is inside raises.
DropLock == lock' = NoThread

Acquires(s) ==
  /\ \/ Step(s, "acquire", "events")
     \/ Step(s, "acquire_status", "copy")
     \/ Step(s, "acquire_incidents", "send")
  /\ TakeLock(s)
  /\ UNCHANGED <<stateVars, localVars, worldVars>>

-----------------------------------------------------------------------------
(* POST /api/simulate: execute_attack_simulation().                        *)

BeginSimulation(s) ==
  /\ begun < MaxSimulations
  /\ Step(s, "idle", "deploy")
  /\ begun' = begun + 1
  /\ sim' = [sim EXCEPT ![s] = begun + 1]
  /\ UNCHANGED <<stateVars, lock, reg, report, answer, failed, worldVars>>

\* The request ends with an error: do_POST answers any exception with a 500.
\* The child, if there is one by now, is left as it is.
Raise(s) ==
  /\ Serving
  /\ pc' = [pc EXCEPT ![s] = "reply"]
  /\ failed' = failed \cup {sim[s]}

\* deploy_env_file() writes the canary, then changes its mode, which raises if
\* a clean has come in between.
DeployCanary(s) ==
  /\ Step(s, "deploy", "chmod")
  /\ canary' = TRUE
  /\ UNCHANGED <<stateVars, lock, localVars, childVars, script, page>>

ChmodCanary(s) ==
  /\ pc[s] = "chmod"
  /\ IF canary
     THEN Step(s, "chmod", "truncate") /\ UNCHANGED failed
     ELSE Raise(s)
  /\ UNCHANGED <<stateVars, lock, sim, reg, report, answer, begun, worldVars>>

\* script_path.write_text(): the file every simulation shares is truncated,
\* then written.
TruncateScript(s) ==
  /\ Step(s, "truncate", "write")
  /\ script' = "empty"
  /\ UNCHANGED <<stateVars, lock, localVars, childVars, canary, page>>

WriteScript(s) ==
  /\ Step(s, "write", "spawn")
  /\ script' = "whole"
  /\ UNCHANGED <<stateVars, lock, localVars, childVars, canary, page>>

\* subprocess.Popen().
Spawn(s) ==
  /\ \/ /\ Step(s, "spawn", "readline")
        /\ life' = [life EXCEPT ![sim[s]] = "running"]
        /\ UNCHANGED failed
     \/ /\ pc[s] = "spawn"
        /\ Raise(s)
        /\ UNCHANGED life
  /\ UNCHANGED <<stateVars, lock, sim, reg, report, answer, begun, stage,
                 touched, script, canary, page>>

\* proc.stdout.readline(): blocks until the child has printed, or has ended.
ReadLine(s) ==
  /\ Pass(s, "readline", "freeze")
  /\ stage[sim[s]] = "ready" \/ life[sim[s]] = "dead"

\* freeze_threat() on the child, with an event loop and a mitigator of the
\* request's own.  It may raise after it has stopped the child; a child that
\* has ended is reported where it can still be signalled, and not elsewhere.
Freeze(s) ==
  /\ pc[s] = "freeze"
  /\ LET n == sim[s] IN
       /\ life' = IF life[n] = "running" THEN [life EXCEPT ![n] = "stopped"]
                  ELSE life
       /\ \/ Step(s, "freeze", "acquire") /\ report' = [report EXCEPT ![s] = TRUE]
             /\ UNCHANGED failed
          \/ life[n] = "dead" /\ Step(s, "freeze", "acquire")
             /\ UNCHANGED <<report, failed>>
          \/ Raise(s) /\ UNCHANGED report
  /\ UNCHANGED <<stateVars, lock, sim, reg, answer, begun, stage, touched,
                 script, canary, page>>

\* A counter is incremented in two steps: it is fetched ...
Fetch(s, k) ==
  /\ Step(s, k, Store[k])
  /\ reg' = [reg EXCEPT ![s] = count[k]]
  /\ UNCHANGED <<stateVars, lock, sim, report, answer, begun, failed,
                 worldVars>>

\* Fault: the events are counted along with the threats.
IncrementBoth(s, k) ==
  /\ count' = [count EXCEPT ![k] = reg[s] + 1, !["events"] = @ + 1]
  /\ reg' = [reg EXCEPT ![s] = 0]

\* ... and stored.
Increment(s, k) ==
  /\ count' = [count EXCEPT ![k] = reg[s] + 1]
  /\ reg' = [reg EXCEPT ![s] = 0]

\* Fault: without a report the lock is kept.
RecordKeepingLock(s) ==
  /\ Step(s, "store_events", IF report[s] THEN "threats" ELSE "kill")
  /\ UNCHANGED lock

\* Fault: without a report the clean-up is skipped.
RecordOrAnswer(s) ==
  IF report[s]
  THEN Step(s, "store_events", "threats") /\ UNCHANGED lock
  ELSE Step(s, "store_events", "answer") /\ DropLock

\* Without a report there is nothing else to record.
RecordOrKill(s) ==
  IF report[s]
  THEN Step(s, "store_events", "threats") /\ UNCHANGED lock
  ELSE Step(s, "store_events", "kill") /\ DropLock

StoreEvents(s) ==
  /\ RecordOrKill(s)
  /\ Increment(s, "events")
  /\ UNCHANGED <<last, incidents, sim, report, answer, begun, failed,
                 worldVars>>

StoreThreats(s) ==
  /\ Step(s, "store_threats", "insert")
  /\ Increment(s, "threats")
  /\ last' = sim[s]
  /\ UNCHANGED <<incidents, lock, sim, report, answer, begun, failed,
                 worldVars>>

Insert(s) ==
  /\ Step(s, "insert", "kill")
  /\ incidents' = <<sim[s]>> \o incidents
  /\ DropLock
  /\ UNCHANGED <<count, last, localVars, worldVars>>

\* proc.kill(): SIGKILL, which ends a stopped process, too.  proc.wait() reaps the
\* child if it has ended within a second, and its timeout is swallowed: whether
\* it has, nobody learns.  What the child was about no longer matters.
Kill(s) ==
  /\ Step(s, "kill", "answer")
  /\ life' = [life EXCEPT ![sim[s]] = "killed"]
  /\ stage' = [stage EXCEPT ![sim[s]] = "start"]
  /\ touched' = touched \ {sim[s]}
  /\ UNCHANGED <<stateVars, lock, localVars, script, canary, page>>

\* Fault: the last element is taken for the newest.
AnswerOldest(s) ==
  /\ Step(s, "answer", "reply")
  /\ answer' = [answer EXCEPT ![s].shown =
                  IF incidents = <<>> THEN <<>> ELSE <<Last(incidents)>>]
  /\ UNCHANGED <<stateVars, lock, sim, reg, report, begun, failed, worldVars>>

\* The answer takes the first incident of the list, without the lock.
AnswerSimulation(s) ==
  /\ Step(s, "answer", "reply")
  /\ answer' = [answer EXCEPT ![s].shown =
                  IF incidents = <<>> THEN <<>> ELSE <<Head(incidents)>>]
  /\ UNCHANGED <<stateVars, lock, sim, reg, report, begun, failed, worldVars>>

-----------------------------------------------------------------------------
(* GET /api/status.                                                        *)

BeginStatus(s) == Pass(s, "idle", "exists")

\* get_canary_list() asks whether a canary exists ...
LookForCanary(s) ==
  Pass(s, "exists", IF canary THEN "stat" ELSE "acquire_status")

\* ... and, if so, for its size, which raises if it has gone: the thread ends
\* without an answer, and the page stays as it is.  Then it reads the canary.
StatCanary(s) ==
  Pass(s, "stat", IF canary THEN "acquire_status" ELSE "idle")

\* Under the lock the counters are copied, and the list is referred to ...
CopyStatus(s) ==
  /\ Step(s, "copy", "dump")
  /\ answer' = [answer EXCEPT ![s].threats = count["threats"]]
  /\ DropLock
  /\ UNCHANGED <<stateVars, sim, reg, report, begun, failed, worldVars>>

\* Fault: the counter is read again after the lock is given back.
DumpStatusUnlocked(s) ==
  /\ Step(s, "dump", "reply")
  /\ answer' = [answer EXCEPT ![s] = [threats |-> count["threats"],
                                     shown |-> incidents]]
  /\ UNCHANGED <<stateVars, lock, sim, reg, report, begun, failed, worldVars>>

\* ... and after it the list is written out, as it is by then.
DumpStatus(s) ==
  /\ Step(s, "dump", "reply")
  /\ answer' = [answer EXCEPT ![s].shown = incidents]
  /\ UNCHANGED <<stateVars, lock, sim, reg, report, begun, failed, worldVars>>

-----------------------------------------------------------------------------
(* GET /api/incidents.                                                     *)

BeginIncidents(s) == Pass(s, "idle", "acquire_incidents")

\* The list is sent under the lock.
SendIncidents(s) ==
  /\ Step(s, "send", "idle")
  /\ DropLock
  /\ UNCHANGED <<stateVars, localVars, worldVars>>

\* External: a client that stops reading blocks the write for good, of this
\* list, under the lock, or of another answer.  Only an answer with an incident
\* may be too long for the socket to take it all.
ClientStalls(s) ==
  \/ incidents # <<>> /\ Pass(s, "send", "stalled")
  \/ answer[s].shown # <<>> /\ Pass(s, "reply", "unread")

-----------------------------------------------------------------------------
(* The page.                                                               *)

\* Fault: the page is drawn again only when the list has grown.
DeliverIfLonger(s) ==
  /\ Step(s, "reply", "idle")
  /\ page' = IF sim[s] = 0 /\ Len(answer[s].shown) > Len(page.shown)
             THEN answer[s] ELSE page
  /\ answer' = [answer EXCEPT ![s] = NoAnswer]
  /\ sim' = [sim EXCEPT ![s] = 0]
  /\ report' = [report EXCEPT ![s] = FALSE]
  /\ UNCHANGED <<stateVars, lock, reg, begun, failed, childVars, script,
                 canary>>

\* fetchStatus() draws the answer that has arrived, whatever it shows now; the
\* answer to a simulation is announced.
Deliver(s) ==
  /\ Step(s, "reply", "idle")
  /\ page' = IF sim[s] = 0 THEN answer[s] ELSE page
  /\ answer' = [answer EXCEPT ![s] = NoAnswer]
  /\ sim' = [sim EXCEPT ![s] = 0]
  /\ report' = [report EXCEPT ![s] = FALSE]
  /\ UNCHANGED <<stateVars, lock, reg, begun, failed, childVars, script,
                 canary>>

-----------------------------------------------------------------------------
(* The child, and the world.                                               *)

Runs(n, from) == life[n] = "running" /\ stage[n] = from

\* The interpreter opens the script; an empty one ends at once.
ChildStarts(n) ==
  /\ Runs(n, "start")
  /\ IF script = "whole"
     THEN stage' = [stage EXCEPT ![n] = "attack"] /\ UNCHANGED life
     ELSE life' = [life EXCEPT ![n] = "dead"] /\ UNCHANGED stage
  /\ UNCHANGED <<stateVars, lock, pc, localVars, touched, script, canary,
                 page>>

\* It reads the canary and sets its access time, if the canary is there.
ChildAttacks(n) ==
  /\ Runs(n, "attack")
  /\ stage' = [stage EXCEPT ![n] = "print"]
  /\ touched' = IF canary THEN touched \cup {n} ELSE touched
  /\ UNCHANGED <<stateVars, lock, pc, localVars, life, script, canary, page>>

ChildPrints(n) ==
  /\ Runs(n, "print")
  /\ stage' = [stage EXCEPT ![n] = "ready"]
  /\ UNCHANGED <<stateVars, lock, pc, localVars, life, touched, script,
                 canary, page>>

\* It wakes up, prints "EXFILTRATED" and ends.
ChildEnds(n) ==
  /\ Runs(n, "ready")
  /\ life' = [life EXCEPT ![n] = "dead"]
  /\ UNCHANGED <<stateVars, lock, pc, localVars, stage, touched, script,
                 canary, page>>

ChildStep(n) ==
  ChildStarts(n) \/ ChildAttacks(n) \/ ChildPrints(n) \/ ChildEnds(n)

\* External: `deceptenv run` beside the dashboard stops a reader of the canary: a
\* child, or the dashboard, whose polls read the canary as long as it is there.
DaemonStops(n) ==
  /\ life[n] = "running"
  /\ n \in touched \/ (n = Dashboard /\ canary)
  /\ life' = [life EXCEPT ![n] = "stopped"]
  /\ UNCHANGED <<stateVars, lock, pc, localVars, stage, touched, script,
                 canary, page>>

\* External: a clean removes the canary.
CanaryCleaned ==
  /\ canary
  /\ canary' = FALSE
  /\ UNCHANGED <<stateVars, lock, pc, localVars, childVars, script, page>>

-----------------------------------------------------------------------------
HandlerStep(s) ==
  \/ DeployCanary(s) \/ ChmodCanary(s) \/ TruncateScript(s) \/ WriteScript(s)
  \/ Spawn(s) \/ ReadLine(s) \/ Freeze(s)
  \/ \E k \in Counters : Fetch(s, k)
  \/ StoreEvents(s) \/ StoreThreats(s) \/ Insert(s) \/ Kill(s)
  \/ AnswerSimulation(s)
  \/ LookForCanary(s) \/ StatCanary(s) \/ CopyStatus(s) \/ DumpStatus(s)
  \/ SendIncidents(s) \/ Deliver(s)

Polls == \E s \in Threads : BeginStatus(s)

DashNext ==
  \/ Polls
  \/ \E s \in Threads :
       \/ BeginSimulation(s) \/ BeginIncidents(s)
       \/ HandlerStep(s) \/ Acquires(s) \/ ClientStalls(s)
  \/ \E n \in Simulations : ChildStep(n)
  \/ \E n \in Processes : DaemonStops(n)
  \/ CanaryCleaned

DashSpec == DashInit /\ [][DashNext]_dashVars

\* Threads and children run.  A thread that waits for the lock gets it if the
\* lock keeps coming free; the page polls for ever, and a poll is served if
\* a thread keeps coming free (the server starts a thread for each request).
DashFairness ==
  /\ SF_dashVars(Polls)
  /\ \A s \in Threads : WF_dashVars(HandlerStep(s)) /\ SF_dashVars(Acquires(s))
  /\ \A n \in Simulations : WF_dashVars(ChildStep(n))

DashFairSpec == DashSpec /\ DashFairness

-----------------------------------------------------------------------------
(* Properties.                                                             *)

\* The threads increment the counters one after another: while nobody holds
\* the lock, every neutralized threat is in the incident list, no increment is
\* lost, and the last threat is the newest incident.
LedgerAgrees ==
  lock = NoThread =>
    /\ count["threats"] = Len(incidents)
    /\ count["threats"] <= count["events"]
    /\ last = IF incidents = <<>> THEN 0 ELSE Head(incidents)

\* A status answer, in flight or drawn, is never behind its own counter,
\* though its list is written out after the lock was given back, and shows the
\* incident list as it once was.
StatusOfThePast(a) ==
  /\ a.threats <= Len(a.shown)
  /\ IsSuffix(a.shown, incidents)

StatusesAreOfThePast ==
  /\ StatusOfThePast(page)
  /\ \A s \in Threads :
       pc[s] = "reply" /\ sim[s] = 0 => StatusOfThePast(answer[s])

\* The answer to a simulation takes its incident from the shared list without
\* the lock: it may be a newer one, but none older than the simulation's own.
AnswersOwnOrNewer ==
  \A s \in Threads :
    pc[s] = "reply" /\ sim[s] # 0 /\ sim[s] \notin failed /\ report[s] =>
      \E i, j \in DOMAIN incidents :
        /\ i <= j /\ answer[s].shown = <<incidents[i]>>
        /\ incidents[j] = sim[s]

\* The simulation a thread is executing.
Executed(n) == \E s \in Threads : sim[s] = n

\* A simulation that is answered without an error has sent its child SIGKILL,
\* however the child fared until then; only one that failed leaves a process
\* behind that nobody ends, stopped or not.
OnlyFailuresLeaveChildren ==
  \A n \in Simulations :
    life[n] \notin {"none", "killed"} => Executed(n) \/ n \in failed

\* Somebody keeps thread s from going on, for good: a client that does not
\* read holds the lock, or its own client does not read, or the daemon has
\* stopped its child before it printed its line, or the whole dashboard.
Obstructed(s) ==
  \/ \E r \in Threads : pc[r] = "stalled"
  \/ pc[s] = "unread"
  \/ pc[s] = "readline" /\ life[sim[s]] = "stopped" /\ stage[sim[s]] # "ready"
  \/ ~Serving

\* Every request ends, unless it is obstructed: the lock comes free on every
\* path, and neither a simulation that hangs nor an answer nobody reads takes
\* the other requests with it.
RequestsEnd ==
  \A s \in Threads : pc[s] # "idle" ~> pc[s] = "idle" \/ Obstructed(s)

\* Answers may be drawn in another order than they were asked for, but the
\* page shows the final state in the end, for good, as long as one thread is
\* left to serve its polls.
PageCatchesUp ==
  \/ <>(\E r \in Threads : pc[r] = "stalled")
  \/ <>(\A r \in Threads : Obstructed(r))
  \/ <>[](page = [threats |-> count["threats"], shown |-> incidents])

=============================================================================
