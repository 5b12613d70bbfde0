------------------------- MODULE WebDashboardProofs -------------------------
(* Proofs about WebDashboard, for any threads and number of simulations.   *)
EXTENDS WebDashboard, TLAPS, SequenceTheorems, FiniteSetTheorems

-----------------------------------------------------------------------------
(* The inductive invariant.                                                *)

Answers == [threats : Nat, shown : Seq(Simulations)]

\* The part of the types that the ledger depends on; the counters' bound does
\* not matter here.
LedgerTypeOK ==
  /\ count \in [Counters -> Nat]
  /\ incidents \in Seq(Simulations)
  /\ last \in 0 .. MaxSimulations
  /\ lock \in Threads \cup {NoThread}
  /\ pc \in [Threads -> Labels]
  /\ sim \in [Threads -> 0 .. MaxSimulations]
  /\ reg \in [Threads -> Nat]
  /\ report \in [Threads -> BOOLEAN]
  /\ answer \in [Threads -> Answers]
  /\ begun \in 0 .. MaxSimulations
  /\ page \in Answers

\* The lock is held by the thread that is between its two ends, if any is.
Locked == {"events", "store_events", "threats", "store_threats", "insert",
           "copy", "send", "stalled"}

LockInv == \A s \in Threads : pc[s] \in Locked <=> lock = s

\* A thread that simulates has a simulation; one that reports status has none.
Recording == {"events", "store_events", "threats", "store_threats", "insert"}
Simulating == Recording \cup
  {"deploy", "chmod", "truncate", "write", "spawn", "readline", "freeze",
   "acquire", "kill", "answer"}

SimulationInv ==
  \A s \in Threads :
    /\ pc[s] \in Simulating => sim[s] \in Simulations
    /\ pc[s] \notin Simulating \cup {"reply", "unread"} => sim[s] = 0

\* What a thread has fetched is still the counter's value when it is stored.
FetchedInv ==
  \A s \in Threads :
    /\ pc[s] = "store_events" => reg[s] = count["events"]
    /\ pc[s] = "store_threats" => reg[s] = count["threats"]

\* The counters and the list, between any two steps of the lock's holder.
LedgerInv ==
  /\ count["threats"] <= count["events"]
  /\ \A s \in Threads :
       /\ pc[s] \in {"threats", "store_threats"} =>
            count["threats"] < count["events"]
       /\ pc[s] = "insert" =>
            count["threats"] = Len(incidents) + 1 /\ last = sim[s]
  /\ (\A s \in Threads : pc[s] # "insert") =>
       /\ count["threats"] = Len(incidents)
       /\ last = IF incidents = <<>> THEN 0 ELSE Head(incidents)

\* A status that is about to be written out counts no incident that its list
\* will not have.
DumpInv ==
  \A s \in Threads :
    pc[s] = "dump" => answer[s].threats <= Len(incidents)

\* No two threads execute the same simulation.
OwnInv ==
  \A s \in Threads :
    /\ sim[s] <= begun
    /\ \A t \in Threads \ {s} : sim[t] = sim[s] => sim[s] = 0

\* A simulation that has come to its answer has sent its child SIGKILL.
KilledInv ==
  /\ life \in [Processes -> {"none", "running", "stopped", "dead", "killed"}]
  /\ \A s \in Threads :
       \/ pc[s] = "answer"
       \/ pc[s] = "reply" /\ sim[s] # 0 /\ sim[s] \notin failed
       => life[sim[s]] = "killed"

\* A simulation with a report is in the list once it is past the lock.
Listed(n) == \E j \in DOMAIN incidents : incidents[j] = n

ListedInv ==
  \A s \in Threads :
    pc[s] \in {"kill", "answer"} /\ report[s] => Listed(sim[s])

DashInv ==
  /\ LedgerTypeOK /\ LockInv /\ SimulationInv /\ FetchedInv /\ LedgerInv
  /\ DumpInv /\ StatusesAreOfThePast
  /\ OwnInv /\ KilledInv /\ OnlyFailuresLeaveChildren
  /\ ListedInv /\ AnswersOwnOrNewer

-----------------------------------------------------------------------------
\* Every step keeps the types.
LEMMA TypeStep == LedgerTypeOK /\ SimulationInv /\ [DashNext]_dashVars => LedgerTypeOK'
<1> SUFFICES ASSUME LedgerTypeOK, SimulationInv, [DashNext]_dashVars
             PROVE  LedgerTypeOK'
  OBVIOUS
<1> USE DashboardAssumption
<1> USE DEF LedgerTypeOK, Answers, Counters, Simulations, stateVars, localVars, worldVars
<1>1. ASSUME NEW s \in Threads, NEW from \in Labels, NEW to \in Labels, Pass(s, from, to)
      PROVE  LedgerTypeOK'
  BY <1>1 DEF Pass, Step
<1>2. ASSUME NEW s \in Threads, BeginSimulation(s) PROVE LedgerTypeOK'
  <2>1. pc' \in [Threads -> Labels]
    BY <1>2 DEF BeginSimulation, Step, Labels
  <2>2. begun' \in 0 .. MaxSimulations /\ sim' \in [Threads -> 0 .. MaxSimulations]
    BY <1>2 DEF BeginSimulation
  <2> QED
    BY <1>2, <2>1, <2>2 DEF BeginSimulation
<1>3. ASSUME NEW s \in Threads, DeployCanary(s) \/ TruncateScript(s) \/ WriteScript(s)
      PROVE  LedgerTypeOK'
  <2>1. pc' \in [Threads -> Labels]
    BY <1>3 DEF DeployCanary, TruncateScript, WriteScript, Step, Labels
  <2> QED
    BY <1>3, <2>1 DEF DeployCanary, TruncateScript, WriteScript
<1>4. ASSUME NEW s \in Threads, ChmodCanary(s) \/ Spawn(s) \/ Freeze(s)
      PROVE  LedgerTypeOK'
  <2>1. pc' \in [Threads -> Labels]
    BY <1>4 DEF ChmodCanary, Spawn, Freeze, Raise, Step, Labels
  <2>2. report' \in [Threads -> BOOLEAN]
    BY <1>4 DEF ChmodCanary, Spawn, Freeze
  <2> QED
    BY <1>4, <2>1, <2>2 DEF ChmodCanary, Spawn, Freeze
<1>5. ASSUME NEW s \in Threads, NEW k \in Counters, Fetch(s, k) PROVE LedgerTypeOK'
  <2>1. pc' \in [Threads -> Labels]
    BY <1>5 DEF Fetch, Step, Labels, Store
  <2>2. reg' \in [Threads -> Nat]
    BY <1>5 DEF Fetch
  <2> QED
    BY <1>5, <2>1, <2>2 DEF Fetch
<1>6. ASSUME NEW s \in Threads, StoreEvents(s) PROVE LedgerTypeOK'
  <2>1. pc' \in [Threads -> Labels] /\ lock' \in Threads \cup {NoThread}
    BY <1>6 DEF StoreEvents, RecordOrKill, DropLock, Step, Labels
  <2>2. count' \in [Counters -> Nat] /\ reg' \in [Threads -> Nat]
    BY <1>6 DEF StoreEvents, Increment
  <2> QED
    BY <1>6, <2>1, <2>2 DEF StoreEvents
<1>7. ASSUME NEW s \in Threads, StoreThreats(s) PROVE LedgerTypeOK'
  <2>1. pc' \in [Threads -> Labels]
    BY <1>7 DEF StoreThreats, Step, Labels
  <2>2. count' \in [Counters -> Nat] /\ reg' \in [Threads -> Nat]
    BY <1>7 DEF StoreThreats, Increment
  <2> QED
    BY <1>7, <2>1, <2>2 DEF StoreThreats
<1>8. ASSUME NEW s \in Threads, Insert(s) PROVE LedgerTypeOK'
  <2>1. pc' \in [Threads -> Labels] /\ lock' \in Threads \cup {NoThread}
    BY <1>8 DEF Insert, DropLock, Step, Labels
  <2>2. sim[s] \in Simulations
    BY <1>8 DEF Insert, Step, SimulationInv, Simulating, Recording
  <2>3. incidents' \in Seq(Simulations)
    <3>1. <<sim[s]>> \in Seq(Simulations) /\ incidents \in Seq(Simulations)
      BY <2>2
    <3>2. incidents' = <<sim[s]>> \o incidents
      BY <1>8 DEF Insert
    <3> QED
      BY <3>1, <3>2, ConcatProperties
  <2> QED
    BY <1>8, <2>1, <2>3 DEF Insert
<1>9. ASSUME NEW s \in Threads, Kill(s) PROVE LedgerTypeOK'
  BY <1>9 DEF Kill, Step, Labels
<1>10. ASSUME NEW s \in Threads, AnswerSimulation(s) PROVE LedgerTypeOK'
  <2>1. pc' \in [Threads -> Labels]
    BY <1>10 DEF AnswerSimulation, Step, Labels
  <2>2. answer' \in [Threads -> Answers]
    <3> DEFINE new == IF incidents = <<>> THEN <<>> ELSE <<Head(incidents)>>
    <3>1. new \in Seq(Simulations)
      <4>1. CASE incidents = <<>>
        BY <4>1
      <4>2. CASE incidents # <<>>
        <5>1. Head(incidents) \in Simulations
          BY <4>2, HeadTailProperties
        <5> QED
          BY <4>2, <5>1
      <4> QED
        BY <4>1, <4>2
    <3> QED
      BY <1>10, <3>1 DEF AnswerSimulation
  <2> QED
    BY <1>10, <2>1, <2>2 DEF AnswerSimulation
<1>11. ASSUME NEW s \in Threads, CopyStatus(s) PROVE LedgerTypeOK'
  <2>1. pc' \in [Threads -> Labels] /\ lock' \in Threads \cup {NoThread}
    BY <1>11 DEF CopyStatus, DropLock, Step, Labels
  <2>2. answer' \in [Threads -> Answers]
    BY <1>11 DEF CopyStatus
  <2> QED
    BY <1>11, <2>1, <2>2 DEF CopyStatus
<1>12. ASSUME NEW s \in Threads, DumpStatus(s) PROVE LedgerTypeOK'
  <2>1. pc' \in [Threads -> Labels]
    BY <1>12 DEF DumpStatus, Step, Labels
  <2>2. answer' \in [Threads -> Answers]
    BY <1>12 DEF DumpStatus
  <2> QED
    BY <1>12, <2>1, <2>2 DEF DumpStatus
<1>13. ASSUME NEW s \in Threads, SendIncidents(s) PROVE LedgerTypeOK'
  BY <1>13 DEF SendIncidents, DropLock, Step, Labels
<1>14. ASSUME NEW s \in Threads, Acquires(s) PROVE LedgerTypeOK'
  BY <1>14 DEF Acquires, TakeLock, Step, Labels
<1>15. ASSUME NEW s \in Threads, Deliver(s) PROVE LedgerTypeOK'
  <2>1. pc' \in [Threads -> Labels]
    BY <1>15 DEF Deliver, Step, Labels
  <2>2. answer' \in [Threads -> Answers] /\ page' \in Answers
    BY <1>15 DEF Deliver, NoAnswer
  <2>3. sim' \in [Threads -> 0 .. MaxSimulations] /\ report' \in [Threads -> BOOLEAN]
    BY <1>15 DEF Deliver
  <2> QED
    BY <1>15, <2>1, <2>2, <2>3 DEF Deliver
<1>16. ASSUME NEW n \in Processes, (n \in Simulations /\ ChildStep(n)) \/ DaemonStops(n) PROVE LedgerTypeOK'
  BY <1>16 DEF ChildStep, ChildStarts, ChildAttacks, ChildPrints, ChildEnds, DaemonStops
<1>17. CASE CanaryCleaned \/ UNCHANGED dashVars
  BY <1>17 DEF CanaryCleaned, dashVars
<1>18. ASSUME NEW s \in Threads,
              \/ ReadLine(s) \/ BeginStatus(s) \/ LookForCanary(s) \/ StatCanary(s)
              \/ BeginIncidents(s) \/ ClientStalls(s)
       PROVE  LedgerTypeOK'
  <2>1. \E from, to \in Labels : Pass(s, from, to)
    BY <1>18 DEF ReadLine, BeginStatus, LookForCanary, StatCanary, BeginIncidents,
       ClientStalls, Labels
  <2> QED
    BY <1>1, <2>1
<1> QED
  BY <1>2, <1>3, <1>4, <1>5, <1>6, <1>7, <1>8, <1>9, <1>10, <1>11, <1>12, <1>13,
     <1>14, <1>15, <1>16, <1>17, <1>18
  DEF DashNext, HandlerStep, Polls, Processes

-----------------------------------------------------------------------------
\* Steps of a thread outside the lock and apart from its answer.
Quiet == {"idle", "deploy", "chmod", "truncate", "write", "spawn", "readline",
          "freeze", "acquire", "kill", "answer", "exists", "stat",
          "acquire_status", "acquire_incidents"}

\* Such a step leaves the ledger, the answers and the page alone.  A simulation
\* that fails goes straight to its reply.
Aside(s) ==
  /\ pc' = [pc EXCEPT ![s] = pc'[s]]
  /\ pc[s] \in Quiet
  /\ pc'[s] \in Quiet \cup {"reply"}
  /\ pc'[s] = "reply" => sim[s] # 0
  /\ pc'[s] # "reply" => /\ pc'[s] \in Simulating => sim'[s] \in Simulations
                         /\ pc'[s] \notin Simulating => sim'[s] = 0
  /\ sim' = [sim EXCEPT ![s] = sim'[s]]
  /\ pc'[s] = "reply" => sim'[s] = sim[s]
  /\ UNCHANGED <<stateVars, lock, reg, answer, page>>

\* The steps of a simulation before and after the lock, and the first steps of
\* the other requests, are of that kind.
LEMMA AsideSteps ==
  ASSUME LedgerTypeOK, SimulationInv, NEW s \in Threads,
         \/ BeginSimulation(s) \/ DeployCanary(s) \/ ChmodCanary(s)
         \/ TruncateScript(s) \/ WriteScript(s) \/ Spawn(s) \/ ReadLine(s)
         \/ Freeze(s) \/ Kill(s) \/ BeginStatus(s) \/ LookForCanary(s)
         \/ StatCanary(s) \/ BeginIncidents(s)
  PROVE  Aside(s)
<1> USE DashboardAssumption
<1> USE DEF LedgerTypeOK, SimulationInv, Simulations, Simulating, Recording, Quiet,
    Aside, Step, stateVars, localVars, worldVars, childVars
<1>1. CASE BeginSimulation(s)
  BY <1>1 DEF BeginSimulation
<1>2. CASE DeployCanary(s) \/ TruncateScript(s) \/ WriteScript(s)
  BY <1>2 DEF DeployCanary, TruncateScript, WriteScript
<1>3. CASE ChmodCanary(s)
  BY <1>3 DEF ChmodCanary, Raise
<1>4. CASE Spawn(s)
  BY <1>4 DEF Spawn, Raise
<1>5. CASE Freeze(s)
  BY <1>5 DEF Freeze, Raise
<1>6. CASE Kill(s)
  BY <1>6 DEF Kill
<1>7. CASE ReadLine(s) \/ BeginStatus(s) \/ BeginIncidents(s)
  BY <1>7 DEF ReadLine, BeginStatus, BeginIncidents, Pass
<1>8. CASE LookForCanary(s) \/ StatCanary(s)
  BY <1>8 DEF LookForCanary, StatCanary, Pass
<1> QED
  BY <1>1, <1>2, <1>3, <1>4, <1>5, <1>6, <1>7, <1>8

\* Steps of the children and of the world leave the threads alone.
Apart == UNCHANGED <<stateVars, lock, pc, localVars, page>>

LEMMA ApartSteps ==
  ASSUME \/ \E n \in Simulations : ChildStep(n)
         \/ \E n \in Processes : DaemonStops(n)
         \/ CanaryCleaned \/ UNCHANGED dashVars
  PROVE  Apart
BY DEF ChildStep, ChildStarts, ChildAttacks, ChildPrints, ChildEnds, DaemonStops,
   CanaryCleaned, Apart, dashVars, worldVars

\* The steps there are, with those two kinds each taken as one.
LEMMA StepKinds ==
  ASSUME LedgerTypeOK, SimulationInv, [DashNext]_dashVars
  PROVE  \/ Apart
         \/ \E s \in Threads :
              \/ Aside(s) \/ Acquires(s) \/ \E k \in Counters : Fetch(s, k)
              \/ StoreEvents(s) \/ StoreThreats(s) \/ Insert(s)
              \/ AnswerSimulation(s) \/ CopyStatus(s) \/ DumpStatus(s)
              \/ SendIncidents(s) \/ ClientStalls(s) \/ Deliver(s)
<1>1. CASE \/ \E n \in Simulations : ChildStep(n)
           \/ \E n \in Processes : DaemonStops(n)
           \/ CanaryCleaned \/ UNCHANGED dashVars
  BY <1>1, ApartSteps
<1>2. ASSUME NEW s \in Threads,
             \/ BeginSimulation(s) \/ DeployCanary(s) \/ ChmodCanary(s)
             \/ TruncateScript(s) \/ WriteScript(s) \/ Spawn(s) \/ ReadLine(s)
             \/ Freeze(s) \/ Kill(s) \/ BeginStatus(s) \/ LookForCanary(s)
             \/ StatCanary(s) \/ BeginIncidents(s)
      PROVE  Aside(s)
  BY <1>2, AsideSteps
<1> QED
  BY <1>1, <1>2 DEF DashNext, HandlerStep, Polls

-----------------------------------------------------------------------------
\* The lock: one thread at a time is between its two ends.
LEMMA LockStep ==
  LedgerTypeOK /\ LockInv /\ SimulationInv /\ [DashNext]_dashVars => LockInv'
<1> SUFFICES ASSUME LedgerTypeOK, LockInv, SimulationInv, [DashNext]_dashVars
             PROVE  LockInv'
  OBVIOUS
<1> USE DashboardAssumption
<1> USE DEF LedgerTypeOK, LockInv, Locked, Step, DropLock
<1>1. CASE Apart
  BY <1>1 DEF Apart
<1>2. ASSUME NEW s \in Threads, Aside(s) PROVE LockInv'
  BY <1>2 DEF Aside, Quiet
<1>3. ASSUME NEW s \in Threads, Acquires(s) PROVE LockInv'
  BY <1>3 DEF Acquires, TakeLock
<1>4. ASSUME NEW s \in Threads, NEW k \in Counters, Fetch(s, k) PROVE LockInv'
  BY <1>4 DEF Fetch, Store, Counters
<1>5. ASSUME NEW s \in Threads, StoreEvents(s) PROVE LockInv'
  BY <1>5 DEF StoreEvents, RecordOrKill
<1>6. ASSUME NEW s \in Threads, StoreThreats(s) \/ Insert(s) PROVE LockInv'
  BY <1>6 DEF StoreThreats, Insert
<1>7. ASSUME NEW s \in Threads, AnswerSimulation(s) \/ DumpStatus(s) \/ Deliver(s)
      PROVE  LockInv'
  BY <1>7 DEF AnswerSimulation, DumpStatus, Deliver
<1>8. ASSUME NEW s \in Threads, CopyStatus(s) \/ SendIncidents(s) \/ ClientStalls(s)
      PROVE  LockInv'
  BY <1>8 DEF CopyStatus, SendIncidents, ClientStalls, Pass
<1> QED
  BY <1>1, <1>2, <1>3, <1>4, <1>5, <1>6, <1>7, <1>8, StepKinds

\* Simulations keep their number until they are answered.
LEMMA SimulationStep ==
  LedgerTypeOK /\ SimulationInv /\ [DashNext]_dashVars => SimulationInv'
<1> SUFFICES ASSUME LedgerTypeOK, SimulationInv, [DashNext]_dashVars
             PROVE  SimulationInv'
  OBVIOUS
<1> USE DEF LedgerTypeOK, SimulationInv, Simulating, Recording, Simulations, Step,
    localVars
<1>1. CASE Apart
  BY <1>1 DEF Apart
<1>2. ASSUME NEW s \in Threads, Aside(s) PROVE SimulationInv'
  BY <1>2 DEF Aside
<1>3. ASSUME NEW s \in Threads, Acquires(s) PROVE SimulationInv'
  BY <1>3 DEF Acquires
<1>4. ASSUME NEW s \in Threads, NEW k \in Counters, Fetch(s, k) PROVE SimulationInv'
  BY <1>4 DEF Fetch, Store, Counters
<1>5. ASSUME NEW s \in Threads, StoreEvents(s) PROVE SimulationInv'
  BY <1>5 DEF StoreEvents, RecordOrKill
<1>6. ASSUME NEW s \in Threads, StoreThreats(s) \/ Insert(s) PROVE SimulationInv'
  BY <1>6 DEF StoreThreats, Insert
<1>7. ASSUME NEW s \in Threads, AnswerSimulation(s) \/ DumpStatus(s) \/ Deliver(s)
      PROVE  SimulationInv'
  BY <1>7 DEF AnswerSimulation, DumpStatus, Deliver
<1>8. ASSUME NEW s \in Threads, CopyStatus(s) \/ SendIncidents(s) \/ ClientStalls(s)
      PROVE  SimulationInv'
  BY <1>8 DEF CopyStatus, SendIncidents, ClientStalls, Pass
<1> QED
  BY <1>1, <1>2, <1>3, <1>4, <1>5, <1>6, <1>7, <1>8, StepKinds

\* A value that was fetched is not overtaken: the counters belong to the lock.
LEMMA FetchedStep ==
  LedgerTypeOK /\ LockInv /\ SimulationInv /\ FetchedInv /\ [DashNext]_dashVars
    => FetchedInv'
<1> SUFFICES ASSUME LedgerTypeOK, LockInv, SimulationInv, FetchedInv,
                    [DashNext]_dashVars
             PROVE  FetchedInv'
  OBVIOUS
<1> USE DashboardAssumption
<1> USE DEF LedgerTypeOK, LockInv, Locked, FetchedInv, Step, DropLock, stateVars,
    localVars
<1>1. CASE Apart
  BY <1>1 DEF Apart
<1>2. ASSUME NEW s \in Threads, Aside(s) PROVE FetchedInv'
  BY <1>2 DEF Aside, Quiet
<1>3. ASSUME NEW s \in Threads, Acquires(s) PROVE FetchedInv'
  BY <1>3 DEF Acquires
<1>4. ASSUME NEW s \in Threads, NEW k \in Counters, Fetch(s, k) PROVE FetchedInv'
  BY <1>4 DEF Fetch, Store, Counters
<1>5. ASSUME NEW s \in Threads, StoreEvents(s) PROVE FetchedInv'
  BY <1>5 DEF StoreEvents, RecordOrKill, Increment, Counters
<1>6. ASSUME NEW s \in Threads, StoreThreats(s) PROVE FetchedInv'
  BY <1>6 DEF StoreThreats, Increment, Counters
<1>7. ASSUME NEW s \in Threads,
             Insert(s) \/ AnswerSimulation(s) \/ DumpStatus(s) \/ Deliver(s)
      PROVE  FetchedInv'
  BY <1>7 DEF Insert, AnswerSimulation, DumpStatus, Deliver
<1>8. ASSUME NEW s \in Threads, CopyStatus(s) \/ SendIncidents(s) \/ ClientStalls(s)
      PROVE  FetchedInv'
  BY <1>8 DEF CopyStatus, SendIncidents, ClientStalls, Pass
<1> QED
  BY <1>1, <1>2, <1>3, <1>4, <1>5, <1>6, <1>7, <1>8, StepKinds

-----------------------------------------------------------------------------
\* The ledger: what each holder of the lock leaves to the next.
LEMMA LedgerStep ==
  /\ LedgerTypeOK /\ LockInv /\ SimulationInv /\ FetchedInv /\ LedgerInv
  /\ [DashNext]_dashVars
  => LedgerInv'
<1> SUFFICES ASSUME LedgerTypeOK, LockInv, SimulationInv, FetchedInv, LedgerInv,
                    [DashNext]_dashVars
             PROVE  LedgerInv'
  OBVIOUS
<1> USE DashboardAssumption
<1> USE DEF LedgerTypeOK, LockInv, Locked, LedgerInv, Step, DropLock, stateVars,
    localVars, Simulations
<1>n. count["events"] \in Nat /\ count["threats"] \in Nat
  BY DEF Counters
<1>1. CASE Apart
  BY <1>1 DEF Apart
<1>2. ASSUME NEW s \in Threads, Aside(s) PROVE LedgerInv'
  <2>1. \A t \in Threads : pc'[t] \in Locked => pc'[t] = pc[t] /\ sim'[t] = sim[t]
    BY <1>2 DEF Aside, Quiet
  <2>2. \A t \in Threads : pc[t] = "insert" <=> pc'[t] = "insert"
    BY <1>2 DEF Aside, Quiet
  <2> QED
    BY <1>2, <2>1, <2>2 DEF Aside
<1>3. ASSUME NEW s \in Threads, Acquires(s) PROVE LedgerInv'
  BY <1>3 DEF Acquires
<1>4. ASSUME NEW s \in Threads, NEW k \in Counters, Fetch(s, k) PROVE LedgerInv'
  BY <1>4 DEF Fetch, Store, Counters
<1>5. ASSUME NEW s \in Threads, StoreEvents(s) PROVE LedgerInv'
  <2>1. /\ count'["events"] = count["events"] + 1
        /\ count'["threats"] = count["threats"]
    BY <1>5 DEF StoreEvents, RecordOrKill, Increment, FetchedInv, Counters
  <2>2. \A t \in Threads : pc[t] # "insert" /\ pc'[t] # "insert"
    BY <1>5 DEF StoreEvents, RecordOrKill
  <2>3. \A t \in Threads : pc'[t] \in {"threats", "store_threats"} =>
          count'["threats"] < count'["events"]
    BY <1>n, <2>1
  <2>4. UNCHANGED <<incidents, last>>
    BY <1>5 DEF StoreEvents
  <2>5. count'["threats"] <= count'["events"]
    BY <1>n, <2>1
  <2> QED
    BY <2>1, <2>2, <2>3, <2>4, <2>5
<1>6. ASSUME NEW s \in Threads, StoreThreats(s) PROVE LedgerInv'
  <2>1. /\ count'["threats"] = count["threats"] + 1
        /\ count'["events"] = count["events"]
        /\ last' = sim[s] /\ sim' = sim /\ incidents' = incidents
    BY <1>6 DEF StoreThreats, Increment, FetchedInv, Counters
  <2>2. pc[s] = "store_threats" /\ \A t \in Threads \ {s} : pc[t] \notin Locked
    BY <1>6 DEF StoreThreats
  <2>3. pc'[s] = "insert" /\ \A t \in Threads \ {s} : pc'[t] \notin Locked
    BY <1>6, <2>2 DEF StoreThreats
  <2>4. count["threats"] = Len(incidents) /\ count["threats"] < count["events"]
    BY <2>2
  <2>5. count'["threats"] = Len(incidents') + 1 /\ count'["threats"] <= count'["events"]
    BY <1>n, <2>1, <2>4
  <2> QED
    BY <2>1, <2>3, <2>5
<1>7. ASSUME NEW s \in Threads, Insert(s) PROVE LedgerInv'
  <2>1. pc[s] = "insert" /\ incidents' = <<sim[s]>> \o incidents /\ UNCHANGED <<count, last>>
    BY <1>7 DEF Insert
  <2>2. \A t \in Threads : pc'[t] \notin Locked
    BY <1>7 DEF Insert
  <2>3. sim[s] \in 1 .. MaxSimulations
    BY <2>1 DEF SimulationInv, Simulating, Recording
  <2>4. <<sim[s]>> \in Seq(Simulations) /\ incidents \in Seq(Simulations)
    BY <2>3
  <2>5. /\ Len(incidents') = Len(incidents) + 1
        /\ incidents' \in Seq(Simulations) /\ incidents'[1] = sim[s]
    BY <2>1, <2>4, ConcatProperties
  <2>6. incidents' # <<>> /\ Head(incidents') = sim[s]
    BY <2>5
  <2> QED
    BY <2>1, <2>2, <2>5, <2>6
<1>8. ASSUME NEW s \in Threads, AnswerSimulation(s) \/ DumpStatus(s) \/ Deliver(s)
      PROVE  LedgerInv'
  <2>1. \A t \in Threads : pc'[t] \in Locked => pc'[t] = pc[t] /\ sim'[t] = sim[t]
    BY <1>8 DEF AnswerSimulation, DumpStatus, Deliver
  <2>2. \A t \in Threads : pc[t] = "insert" <=> pc'[t] = "insert"
    BY <1>8 DEF AnswerSimulation, DumpStatus, Deliver
  <2> QED
    BY <1>8, <2>1, <2>2 DEF AnswerSimulation, DumpStatus, Deliver
<1>9. ASSUME NEW s \in Threads, CopyStatus(s) \/ SendIncidents(s) \/ ClientStalls(s)
      PROVE  LedgerInv'
  BY <1>9 DEF CopyStatus, SendIncidents, ClientStalls, Pass
<1> QED
  BY <1>1, <1>2, <1>3, <1>4, <1>5, <1>6, <1>7, <1>8, <1>9, StepKinds

\* The list only grows.
LEMMA ListGrows ==
  ASSUME LedgerTypeOK, SimulationInv, [DashNext]_dashVars
  PROVE  \/ incidents' = incidents
         \/ \E n \in Simulations : incidents' = <<n>> \o incidents
<1> USE DEF LedgerTypeOK, stateVars
<1>1. ASSUME NEW s \in Threads, Insert(s)
      PROVE  sim[s] \in Simulations /\ incidents' = <<sim[s]>> \o incidents
  BY <1>1 DEF Insert, Step, SimulationInv, Simulating, Recording
<1>2. ASSUME NEW s \in Threads,
             \/ Aside(s) \/ Acquires(s) \/ \E k \in Counters : Fetch(s, k)
             \/ StoreEvents(s) \/ StoreThreats(s) \/ AnswerSimulation(s)
             \/ CopyStatus(s) \/ DumpStatus(s) \/ SendIncidents(s)
             \/ ClientStalls(s) \/ Deliver(s)
      PROVE  incidents' = incidents
  BY <1>2 DEF Aside, Acquires, Fetch, StoreEvents, StoreThreats, AnswerSimulation,
     CopyStatus, DumpStatus, SendIncidents, ClientStalls, Pass, Deliver
<1>3. Apart => incidents' = incidents
  BY DEF Apart
<1> QED
  BY <1>1, <1>2, <1>3, StepKinds

-----------------------------------------------------------------------------
\* What an answer shows of the list stays a suffix of it.
LEMMA OwnSuffix == ASSUME NEW S, NEW a \in Seq(S) PROVE IsSuffix(a, a)
BY DEF IsSuffix, IsPrefix, Reverse

LEMMA SuffixOfLonger ==
  ASSUME NEW S, NEW a \in Seq(S), NEW b \in Seq(S), NEW e \in S, IsSuffix(a, b)
  PROVE  IsSuffix(a, <<e>> \o b)
<1> DEFINE c == <<e>> \o b
<1>1. c \in Seq(S) /\ Len(c) = Len(b) + 1 /\ \A i \in 1 .. Len(b) : c[i + 1] = b[i]
  <2>1. <<e>> \in Seq(S) /\ Len(<<e>>) = 1
    OBVIOUS
  <2> QED
    BY <2>1, ConcatProperties
<1>2. /\ Reverse(a) \in Seq(S) /\ Len(Reverse(a)) = Len(a)
      /\ Reverse(b) \in Seq(S) /\ Len(Reverse(b)) = Len(b)
      /\ Reverse(c) \in Seq(S) /\ Len(Reverse(c)) = Len(b) + 1
  <2>1. \A q \in Seq(S) : Reverse(q) \in Seq(S) /\ Len(Reverse(q)) = Len(q)
    BY DEF Reverse
  <2> QED
    BY <1>1, <2>1
<1>3. \A i \in 1 .. Len(b) : Reverse(c)[i] = Reverse(b)[i]
  BY <1>1 DEF Reverse
<1>4. Len(a) <= Len(b) /\ SubSeq(Reverse(a), 1, Len(a)) = SubSeq(Reverse(b), 1, Len(a))
  BY <1>2 DEF IsSuffix, IsPrefix
<1>5. SubSeq(Reverse(c), 1, Len(a)) = SubSeq(Reverse(b), 1, Len(a))
  <2>1. \A r \in Seq(S) : Len(a) <= Len(r) =>
          SubSeq(r, 1, Len(a)) = [i \in 1 .. Len(a) |-> r[i]]
    OBVIOUS
  <2>2. \A i \in 1 .. Len(a) : Reverse(c)[i] = Reverse(b)[i]
    BY <1>3, <1>4
  <2>3. Len(a) <= Len(Reverse(b)) /\ Len(a) <= Len(Reverse(c))
    BY <1>2, <1>4
  <2> QED
    BY <1>2, <2>1, <2>2, <2>3
<1> QED
  BY <1>1, <1>2, <1>4, <1>5 DEF IsSuffix, IsPrefix

\* A status of the past stays one, whatever step comes.
StillOfThePast(a) == a.threats <= Len(a.shown) /\ IsSuffix(a.shown, incidents')

LEMMA StaysPast ==
  ASSUME LedgerTypeOK, SimulationInv, [DashNext]_dashVars,
         NEW a \in Answers, StatusOfThePast(a)
  PROVE  StillOfThePast(a)
<1>1. CASE incidents' = incidents
  BY <1>1 DEF StatusOfThePast, StillOfThePast
<1>2. ASSUME NEW n \in Simulations, incidents' = <<n>> \o incidents
      PROVE  StillOfThePast(a)
  <2>1. IsSuffix(a.shown, <<n>> \o incidents)
    BY SuffixOfLonger DEF StatusOfThePast, Answers, LedgerTypeOK
  <2> QED
    BY <1>2, <2>1 DEF StatusOfThePast, StillOfThePast
<1> QED
  BY <1>1, <1>2, ListGrows

\* The counter of a status is read under the lock, the list after it: by then
\* it can only have grown.
LEMMA DumpStep ==
  /\ LedgerTypeOK /\ LockInv /\ SimulationInv /\ LedgerInv /\ DumpInv
  /\ [DashNext]_dashVars
  => DumpInv'
<1> SUFFICES ASSUME LedgerTypeOK, LockInv, SimulationInv, LedgerInv, DumpInv,
                    [DashNext]_dashVars
             PROVE  DumpInv'
  OBVIOUS
<1> USE DEF LedgerTypeOK, DumpInv, Step, localVars, stateVars
<1>g. Len(incidents) <= Len(incidents')
  <2>1. ASSUME NEW n \in Simulations, incidents' = <<n>> \o incidents
        PROVE  Len(incidents) <= Len(incidents')
    <3>1. <<n>> \in Seq(Simulations) /\ Len(<<n>>) = 1
      OBVIOUS
    <3> QED
      BY <2>1, <3>1, ConcatProperties
  <2>2. incidents' = incidents => Len(incidents) <= Len(incidents')
    OBVIOUS
  <2> QED
    BY <2>1, <2>2, ListGrows
<1>k. \A s \in Threads : pc[s] = "dump" =>
        answer[s].threats \in Nat /\ answer[s].threats <= Len(incidents')
  BY <1>g DEF Answers
<1>1. CASE Apart
  BY <1>1, <1>k DEF Apart
<1>2. ASSUME NEW s \in Threads, Aside(s) PROVE DumpInv'
  BY <1>2, <1>k DEF Aside, Quiet
<1>3. ASSUME NEW s \in Threads, Acquires(s) PROVE DumpInv'
  BY <1>3, <1>k DEF Acquires
<1>4. ASSUME NEW s \in Threads, NEW k \in Counters, Fetch(s, k) PROVE DumpInv'
  BY <1>4, <1>k DEF Fetch, Store, Counters
<1>5. ASSUME NEW s \in Threads, StoreEvents(s) PROVE DumpInv'
  BY <1>5, <1>k DEF StoreEvents, RecordOrKill
<1>6. ASSUME NEW s \in Threads, StoreThreats(s) \/ Insert(s) PROVE DumpInv'
  BY <1>6, <1>k DEF StoreThreats, Insert
<1>7. ASSUME NEW s \in Threads, AnswerSimulation(s) \/ DumpStatus(s) \/ Deliver(s)
      PROVE  DumpInv'
  BY <1>7, <1>k DEF AnswerSimulation, DumpStatus, Deliver
<1>8. ASSUME NEW s \in Threads, CopyStatus(s) PROVE DumpInv'
  <2>1. count["threats"] = Len(incidents)
    BY <1>8 DEF CopyStatus, LockInv, Locked, LedgerInv
  <2>2. /\ answer' = [answer EXCEPT ![s].threats = count["threats"]]
        /\ pc' = [pc EXCEPT ![s] = "dump"] /\ incidents' = incidents
    BY <1>8 DEF CopyStatus
  <2>3. answer'[s].threats = Len(incidents')
    BY <2>1, <2>2 DEF Answers
  <2> QED
    BY <1>k, <2>2, <2>3
<1>9. ASSUME NEW s \in Threads, SendIncidents(s) \/ ClientStalls(s) PROVE DumpInv'
  BY <1>9, <1>k DEF SendIncidents, ClientStalls, Pass
<1> QED
  BY <1>1, <1>2, <1>3, <1>4, <1>5, <1>6, <1>7, <1>8, <1>9, StepKinds

\* Answers on their way, and the page, show the list as it once was.
LEMMA PastStep ==
  /\ LedgerTypeOK /\ SimulationInv /\ DumpInv /\ StatusesAreOfThePast
  /\ [DashNext]_dashVars
  => StatusesAreOfThePast'
<1> SUFFICES ASSUME LedgerTypeOK, SimulationInv, DumpInv, StatusesAreOfThePast,
                    [DashNext]_dashVars
             PROVE  StatusesAreOfThePast'
  OBVIOUS
<1> DEFINE Kept(s) == pc[s] = "reply" /\ sim[s] = 0
<1>1. page \in Answers /\ \A s \in Threads : answer[s] \in Answers
  BY DEF LedgerTypeOK
<1>2. /\ StillOfThePast(page)
      /\ \A s \in Threads : Kept(s) => StillOfThePast(answer[s])
  BY <1>1, StaysPast DEF StatusesAreOfThePast
<1>3. CASE /\ page' = page
           /\ \A s \in Threads : Kept(s)' => Kept(s) /\ answer'[s] = answer[s]
  BY <1>2, <1>3 DEF StatusesAreOfThePast, StatusOfThePast, StillOfThePast
<1> USE DEF LedgerTypeOK, Step, localVars, worldVars
<1>4. CASE Apart
  BY <1>3, <1>4 DEF Apart
<1>5. ASSUME NEW s \in Threads, Aside(s) PROVE StatusesAreOfThePast'
  <2>1. page' = page /\ answer' = answer
    BY <1>5 DEF Aside
  <2>2. \A t \in Threads : Kept(t)' => Kept(t)
    BY <1>5 DEF Aside, Quiet
  <2> QED
    BY <1>3, <2>1, <2>2
<1>6. ASSUME NEW s \in Threads,
             \/ Acquires(s) \/ \E k \in Counters : Fetch(s, k)
             \/ StoreEvents(s) \/ StoreThreats(s) \/ Insert(s)
      PROVE  StatusesAreOfThePast'
  <2>1. page' = page /\ answer' = answer /\ sim' = sim
    BY <1>6 DEF Acquires, Fetch, StoreEvents, StoreThreats, Insert
  <2>2. \A t \in Threads : pc'[t] = "reply" => pc[t] = "reply"
    BY <1>6 DEF Acquires, Fetch, Store, Counters, StoreEvents, RecordOrKill,
       StoreThreats, Insert
  <2> QED
    BY <1>3, <2>1, <2>2
<1>7. ASSUME NEW s \in Threads, SendIncidents(s) \/ ClientStalls(s)
      PROVE  StatusesAreOfThePast'
  <2>1. page' = page /\ answer' = answer /\ sim' = sim
    BY <1>7 DEF SendIncidents, ClientStalls, Pass
  <2>2. \A t \in Threads : pc'[t] = "reply" => pc[t] = "reply"
    BY <1>7 DEF SendIncidents, ClientStalls, Pass
  <2> QED
    BY <1>3, <2>1, <2>2
<1>8. ASSUME NEW s \in Threads, AnswerSimulation(s) \/ CopyStatus(s)
      PROVE  StatusesAreOfThePast'
  <2>1. page' = page /\ sim' = sim /\ \A t \in Threads \ {s} : answer'[t] = answer[t]
    BY <1>8 DEF AnswerSimulation, CopyStatus
  <2>2. \A t \in Threads \ {s} : pc'[t] = pc[t]
    BY <1>8 DEF AnswerSimulation, CopyStatus
  <2>3. ~ Kept(s)'
    BY <1>8, <2>1 DEF AnswerSimulation, CopyStatus, SimulationInv, Simulating,
       Recording, Simulations
  <2> QED
    BY <1>3, <2>1, <2>2, <2>3
<1>9. ASSUME NEW s \in Threads, DumpStatus(s) PROVE StatusesAreOfThePast'
  <2>1. /\ page' = page /\ sim' = sim /\ incidents' = incidents
        /\ \A t \in Threads \ {s} : answer'[t] = answer[t] /\ pc'[t] = pc[t]
    BY <1>9 DEF DumpStatus, stateVars
  <2>2. answer'[s].threats = answer[s].threats /\ answer'[s].shown = incidents
    BY <1>9 DEF DumpStatus, Answers
  <2>3. answer[s].threats <= Len(incidents) /\ IsSuffix(incidents, incidents)
    BY <1>9, OwnSuffix DEF DumpStatus, DumpInv
  <2>4. StatusOfThePast(answer[s])'
    BY <2>1, <2>2, <2>3 DEF StatusOfThePast
  <2>5. StatusOfThePast(page)'
    BY <1>2, <2>1 DEF StatusOfThePast, StillOfThePast
  <2>6. \A t \in Threads \ {s} : Kept(t)' => StatusOfThePast(answer[t])'
    BY <1>2, <2>1 DEF StatusOfThePast, StillOfThePast
  <2> QED
    BY <2>4, <2>5, <2>6 DEF StatusesAreOfThePast
<1>10. ASSUME NEW s \in Threads, Deliver(s) PROVE StatusesAreOfThePast'
  <2>1. (page' = page) \/ (Kept(s) /\ page' = answer[s])
    BY <1>10 DEF Deliver
  <2>2. incidents' = incidents
    BY <1>10 DEF Deliver, stateVars
  <2>3. \A t \in Threads : Kept(t)' => Kept(t) /\ answer'[t] = answer[t]
    BY <1>10 DEF Deliver
  <2> QED
    BY <1>2, <2>1, <2>2, <2>3
    DEF StatusesAreOfThePast, StatusOfThePast, StillOfThePast
<1> QED
  BY <1>4, <1>5, <1>6, <1>7, <1>8, <1>9, <1>10, StepKinds

-----------------------------------------------------------------------------
\* A simulation begins with a number of its own, and gives it up at the end.
LEMMA SimulationSteps ==
  ASSUME [DashNext]_dashVars
  PROVE  \/ UNCHANGED <<sim, begun>>
         \/ \E s \in Threads : BeginSimulation(s) \/ Deliver(s)
BY DEF DashNext, HandlerStep, Polls, DeployCanary, ChmodCanary, TruncateScript, WriteScript, Spawn,
   ReadLine, Freeze, Fetch, StoreEvents, StoreThreats, Insert, Kill, AnswerSimulation,
   LookForCanary, StatCanary, CopyStatus, DumpStatus, SendIncidents, BeginStatus, BeginIncidents,
   Acquires, ClientStalls, Pass, ChildStep, ChildStarts, ChildAttacks, ChildPrints, ChildEnds,
   DaemonStops, CanaryCleaned, dashVars, localVars

LEMMA OwnStep == LedgerTypeOK /\ OwnInv /\ [DashNext]_dashVars => OwnInv'
<1> SUFFICES ASSUME LedgerTypeOK, OwnInv, [DashNext]_dashVars PROVE OwnInv'
  OBVIOUS
<1> USE DashboardAssumption DEF LedgerTypeOK, OwnInv
<1>1. CASE UNCHANGED <<sim, begun>>
  BY <1>1
<1>2. ASSUME NEW s \in Threads, BeginSimulation(s) PROVE OwnInv'
  <2>1. begun' = begun + 1 /\ sim' = [sim EXCEPT ![s] = begun + 1]
    BY <1>2 DEF BeginSimulation
  <2>2. \A t \in Threads \ {s} : sim'[t] = sim[t] /\ sim[t] <= begun /\ sim[t] \in Nat
    BY <2>1
  <2>3. sim'[s] = begun + 1 /\ begun \in Nat
    BY <2>1
  <2>4. ASSUME NEW t \in Threads PROVE sim'[t] <= begun'
    BY <2>1, <2>2, <2>3
  <2>5. ASSUME NEW t \in Threads, NEW u \in Threads \ {t}, sim'[u] = sim'[t] PROVE sim'[t] = 0
    <3>1. CASE t = s
      <4>1. sim'[u] = sim[u] /\ sim[u] <= begun /\ sim[u] \in Nat
        BY <2>2, <3>1
      <4> QED
        BY <2>3, <2>5, <3>1, <4>1
    <3>2. CASE u = s
      <4>1. sim'[t] = sim[t] /\ sim[t] <= begun /\ sim[t] \in Nat
        BY <2>2, <3>2
      <4> QED
        BY <2>3, <2>5, <3>2, <4>1
    <3>3. CASE t # s /\ u # s
      BY <2>2, <2>5, <3>3
    <3> QED
      BY <3>1, <3>2, <3>3
  <2> QED
    BY <2>4, <2>5
<1>3. ASSUME NEW s \in Threads, Deliver(s) PROVE OwnInv'
  BY <1>3 DEF Deliver
<1> QED
  BY <1>1, <1>2, <1>3, SimulationSteps

\* What a step may do to the children.
LEMMA KilledStep ==
  LedgerTypeOK /\ SimulationInv /\ OwnInv /\ KilledInv /\ [DashNext]_dashVars => KilledInv'
<1> SUFFICES ASSUME LedgerTypeOK, SimulationInv, OwnInv, KilledInv, [DashNext]_dashVars
             PROVE  KilledInv'
  OBVIOUS
<1> USE DEF LedgerTypeOK, KilledInv, Processes, Step, localVars, worldVars, childVars
<1> DEFINE Answering(s) ==
      pc[s] = "answer" \/ (pc[s] = "reply" /\ sim[s] # 0 /\ sim[s] \notin failed)
\* A child may be stopped or end, once it is killed it is so for good.
<1>a. ASSUME life' \in [Processes -> {"none", "running", "stopped", "dead", "killed"}],
             \A n \in Processes : life[n] = "killed" => life'[n] = "killed",
             \A s \in Threads : Answering(s)' => Answering(s) /\ sim'[s] = sim[s]
      PROVE  KilledInv'
  <2>1. \A s \in Threads : Answering(s) => sim[s] \in Simulations
    BY DEF SimulationInv, Simulating, Simulations
  <2> QED
    BY <1>a, <2>1
<1>1. ASSUME NEW s \in Threads,
             \/ BeginSimulation(s) \/ DeployCanary(s) \/ TruncateScript(s) \/ WriteScript(s)
             \/ ChmodCanary(s) \/ ReadLine(s) \/ BeginStatus(s) \/ LookForCanary(s)
             \/ StatCanary(s) \/ BeginIncidents(s) \/ Acquires(s) \/ StoreEvents(s)
             \/ StoreThreats(s) \/ Insert(s) \/ CopyStatus(s) \/ SendIncidents(s)
             \/ ClientStalls(s) \/ (\E k \in Counters : Fetch(s, k))
      PROVE  KilledInv'
  <2>1. life' = life
    BY <1>1 DEF BeginSimulation, DeployCanary, TruncateScript, WriteScript, ChmodCanary,
       ReadLine, BeginStatus, LookForCanary, StatCanary, BeginIncidents, Acquires,
       StoreEvents, StoreThreats, Insert, CopyStatus, SendIncidents, ClientStalls, Fetch, Pass
  <2>2. ASSUME NEW t \in Threads, Answering(t)' PROVE Answering(t) /\ sim'[t] = sim[t]
    <3>1. CASE BeginSimulation(s)
      BY <2>2, <3>1 DEF BeginSimulation
    <3>2. CASE ChmodCanary(s)
      BY <2>2, <3>2 DEF ChmodCanary, Raise
    <3>3. CASE DeployCanary(s) \/ TruncateScript(s) \/ WriteScript(s) \/ Acquires(s)
      BY <2>2, <3>3 DEF DeployCanary, TruncateScript, WriteScript, Acquires
    <3>4. CASE \/ ReadLine(s) \/ BeginStatus(s) \/ LookForCanary(s)
               \/ StatCanary(s) \/ BeginIncidents(s) \/ ClientStalls(s)
      BY <2>2, <3>4 DEF ReadLine, BeginStatus, LookForCanary, StatCanary, BeginIncidents,
         ClientStalls, Pass
    <3>5. CASE \/ StoreEvents(s) \/ StoreThreats(s) \/ Insert(s) \/ CopyStatus(s)
               \/ SendIncidents(s) \/ \E k \in Counters : Fetch(s, k)
      BY <2>2, <3>5 DEF StoreEvents, RecordOrKill, StoreThreats, Insert, CopyStatus,
         SendIncidents, Fetch, Store, Counters
    <3> QED
      BY <1>1, <3>1, <3>2, <3>3, <3>4, <3>5
  <2> QED
    BY <1>a, <2>1, <2>2
<1>2. ASSUME NEW s \in Threads, Spawn(s) PROVE KilledInv'
  <2>1. sim[s] \in Simulations /\ sim[s] # 0 /\ UNCHANGED sim /\ pc[s] = "spawn"
    BY <1>2 DEF Spawn, SimulationInv, Simulating, Simulations
  <2>2. ASSUME NEW t \in Threads, Answering(t)' PROVE Answering(t) /\ t # s
    BY <1>2, <2>2 DEF Spawn, Raise
  <2>3. life' \in [Processes -> {"none", "running", "stopped", "dead", "killed"}]
    BY <1>2 DEF Spawn
  <2>4. ASSUME NEW t \in Threads, Answering(t)' PROVE life'[sim[t]] = "killed"
    <3>1. life[sim[t]] = "killed" /\ sim[t] # sim[s]
      BY <2>1, <2>2, <2>4 DEF OwnInv
    <3>2. sim[t] \in Simulations
      BY <2>2, <2>4 DEF SimulationInv, Simulating, Simulations
    <3> QED
      BY <1>2, <3>1, <3>2 DEF Spawn
  <2> QED
    BY <2>1, <2>3, <2>4
<1>3. ASSUME NEW s \in Threads, Freeze(s) PROVE KilledInv'
  <2>1. \A t \in Threads : Answering(t)' => Answering(t) /\ sim'[t] = sim[t]
    BY <1>3 DEF Freeze, Raise
  <2>2. life' \in [Processes -> {"none", "running", "stopped", "dead", "killed"}]
        /\ \A n \in Processes : life[n] = "killed" => life'[n] = "killed"
    BY <1>3 DEF Freeze
  <2> QED
    BY <1>a, <2>1, <2>2
<1>4. ASSUME NEW s \in Threads, Kill(s) PROVE KilledInv'
  <2>1. life' = [life EXCEPT ![sim[s]] = "killed"] /\ pc' = [pc EXCEPT ![s] = "answer"]
        /\ UNCHANGED <<sim, failed>> /\ sim[s] \in Simulations
    BY <1>4 DEF Kill, SimulationInv, Simulating
  <2>2. ASSUME NEW t \in Threads, Answering(t)' PROVE life'[sim[t]] = "killed"
    <3>1. CASE t = s
      BY <2>1, <3>1
    <3>2. CASE t # s
      <4>1. Answering(t)
        BY <2>1, <2>2, <3>2
      <4>2. sim[t] \in Simulations /\ life[sim[t]] = "killed"
        BY <4>1 DEF SimulationInv, Simulating, Simulations
      <4> QED
        BY <2>1, <4>2
    <3> QED
      BY <3>1, <3>2
  <2> QED
    BY <2>1, <2>2
<1>5. ASSUME NEW s \in Threads, AnswerSimulation(s) \/ DumpStatus(s) \/ Deliver(s)
      PROVE  KilledInv'
  <2>1. ASSUME NEW t \in Threads, Answering(t)' PROVE Answering(t) /\ sim'[t] = sim[t]
    BY <1>5, <2>1 DEF AnswerSimulation, DumpStatus, Deliver, SimulationInv, Simulating, Recording
  <2>2. life' = life
    BY <1>5 DEF AnswerSimulation, DumpStatus, Deliver
  <2> QED
    BY <1>a, <2>1, <2>2
<1>6. ASSUME NEW n \in Processes, (n \in Simulations /\ ChildStep(n)) \/ DaemonStops(n) PROVE KilledInv'
  <2>1. UNCHANGED <<pc, sim, failed>>
    BY <1>6 DEF ChildStep, ChildStarts, ChildAttacks, ChildPrints, ChildEnds, DaemonStops
  <2>2. life' \in [Processes -> {"none", "running", "stopped", "dead", "killed"}]
        /\ \A m \in Processes : life[m] = "killed" => life'[m] = "killed"
    BY <1>6 DEF ChildStep, ChildStarts, ChildAttacks, ChildPrints, ChildEnds, DaemonStops, Runs
  <2> QED
    BY <1>a, <2>1, <2>2
<1>7. CASE CanaryCleaned \/ UNCHANGED dashVars
  BY <1>7, <1>a DEF CanaryCleaned, dashVars
<1> QED
  BY <1>1, <1>2, <1>3, <1>4, <1>5, <1>6, <1>7 DEF DashNext, HandlerStep, Polls

\* A child that is left has a thread that is still about it, or one that failed.
LEMMA ChildrenStep ==
  /\ LedgerTypeOK /\ SimulationInv /\ KilledInv /\ OnlyFailuresLeaveChildren
  /\ [DashNext]_dashVars
  => OnlyFailuresLeaveChildren'
<1> SUFFICES ASSUME LedgerTypeOK, SimulationInv, KilledInv, OnlyFailuresLeaveChildren,
                    [DashNext]_dashVars,
                    NEW n \in Simulations, life'[n] \notin {"none", "killed"}
             PROVE  Executed(n)' \/ n \in failed'
  BY DEF OnlyFailuresLeaveChildren
<1> USE DEF LedgerTypeOK, Executed
<1>1. \/ life[n] \notin {"none", "killed"}
      \/ \E s \in Threads : sim[s] = n /\ sim' = sim
  <2>1. \/ UNCHANGED life
        \/ \E s \in Threads : Spawn(s) \/ Freeze(s) \/ Kill(s)
        \/ \E m \in Simulations : ChildStep(m)
        \/ \E m \in Processes : DaemonStops(m)
    BY DEF DashNext, HandlerStep, Polls, BeginSimulation, Deliver, DeployCanary,
       ChmodCanary, TruncateScript, WriteScript, ReadLine, Fetch, StoreEvents,
       StoreThreats, Insert, AnswerSimulation, LookForCanary, StatCanary, CopyStatus,
       DumpStatus, SendIncidents, BeginStatus, BeginIncidents, Acquires, ClientStalls,
       Pass, CanaryCleaned, dashVars, worldVars, childVars
  <2>2. n \in Processes /\ life \in [Processes -> {"none", "running", "stopped", "dead", "killed"}]
    BY DEF KilledInv, Processes
  <2>3. ASSUME NEW s \in Threads, Spawn(s)
        PROVE  life[n] \notin {"none", "killed"} \/ (sim[s] = n /\ sim' = sim)
    BY <2>2, <2>3 DEF Spawn
  <2>4. ASSUME NEW s \in Threads, Freeze(s) \/ Kill(s)
        PROVE  life[n] \notin {"none", "killed"}
    BY <2>2, <2>4 DEF Freeze, Kill
  <2>5. ASSUME NEW m \in Processes, (m \in Simulations /\ ChildStep(m)) \/ DaemonStops(m)
        PROVE  life[n] \notin {"none", "killed"}
    BY <2>2, <2>5 DEF ChildStep, ChildStarts, ChildAttacks, ChildPrints, ChildEnds,
       DaemonStops, Runs
  <2> QED
    BY <2>1, <2>3, <2>4, <2>5 DEF Processes
<1>2. failed \subseteq failed'
  BY DEF DashNext, HandlerStep, Polls, BeginSimulation, Deliver, DeployCanary, ChmodCanary,
     TruncateScript, WriteScript, Spawn, Raise, ReadLine, Freeze, Fetch, StoreEvents, StoreThreats,
     Insert, Kill, AnswerSimulation, LookForCanary, StatCanary, CopyStatus, DumpStatus,
     SendIncidents, BeginStatus, BeginIncidents, Acquires, ClientStalls, Pass, ChildStep,
     ChildStarts, ChildAttacks, ChildPrints, ChildEnds, DaemonStops, CanaryCleaned,
     dashVars, localVars
<1>3. CASE \E s \in Threads : sim[s] = n /\ sim' = sim
  BY <1>3
<1>4. CASE life[n] \notin {"none", "killed"} /\ n \in failed
  BY <1>2, <1>4
<1>5. ASSUME life[n] \notin {"none", "killed"}, n \notin failed, NEW s \in Threads, sim[s] = n
      PROVE  Executed(n)'
  <2>1. n # 0
    BY DEF Simulations
  <2>2. CASE UNCHANGED sim
    BY <1>5, <2>2
  <2>3. ASSUME NEW t \in Threads, BeginSimulation(t) PROVE Executed(n)'
    <3>1. t # s
      BY <1>5, <2>1, <2>3 DEF BeginSimulation, Step, SimulationInv, Simulating, Recording
    <3> QED
      BY <1>5, <2>3, <3>1 DEF BeginSimulation
  <2>4. ASSUME NEW t \in Threads, Deliver(t) PROVE Executed(n)'
    <3>1. t # s
      BY <1>5, <2>1, <2>4 DEF Deliver, Step, KilledInv
    <3> QED
      BY <1>5, <2>4, <3>1 DEF Deliver
  <2> QED
    BY <2>2, <2>3, <2>4, SimulationSteps
<1> QED
  BY <1>1, <1>3, <1>4, <1>5 DEF OnlyFailuresLeaveChildren

-----------------------------------------------------------------------------
\* What is in the list stays there, in its order.
LEMMA KeepsOrder ==
  ASSUME LedgerTypeOK, SimulationInv, [DashNext]_dashVars,
         NEW i \in DOMAIN incidents, NEW j \in DOMAIN incidents, i <= j
  PROVE  \E k, l \in DOMAIN incidents' :
           k <= l /\ incidents'[k] = incidents[i] /\ incidents'[l] = incidents[j]
<1>1. CASE incidents' = incidents
  BY <1>1
<1>2. ASSUME NEW n \in Simulations, incidents' = <<n>> \o incidents
      PROVE  \E k, l \in DOMAIN incidents' :
               k <= l /\ incidents'[k] = incidents[i] /\ incidents'[l] = incidents[j]
  <2>1. <<n>> \in Seq(Simulations) /\ Len(<<n>>) = 1 /\ incidents \in Seq(Simulations)
    BY DEF LedgerTypeOK
  <2>2. i \in 1 .. Len(incidents) /\ j \in 1 .. Len(incidents) /\ Len(incidents) \in Nat
    BY <2>1
  <2>3. Len(incidents') = Len(incidents) + 1 /\ incidents' \in Seq(Simulations)
    BY <1>2, <2>1, ConcatProperties
  <2>4. \A m \in 1 .. Len(incidents) : incidents'[m + 1] = incidents[m]
    BY <1>2, <2>1, ConcatProperties
  <2>5. i + 1 \in DOMAIN incidents' /\ j + 1 \in DOMAIN incidents' /\ i + 1 <= j + 1
    BY <2>2, <2>3
  <2> QED
    BY <2>2, <2>4, <2>5
<1> QED
  BY <1>1, <1>2, ListGrows

\* A report is inserted before its thread leaves the lock.
LEMMA ListedStep ==
  LedgerTypeOK /\ SimulationInv /\ ListedInv /\ [DashNext]_dashVars => ListedInv'
<1> SUFFICES ASSUME LedgerTypeOK, SimulationInv, ListedInv, [DashNext]_dashVars
             PROVE  ListedInv'
  OBVIOUS
<1> USE DEF LedgerTypeOK, ListedInv, Step, localVars
<1> DEFINE Past(s) == pc[s] \in {"kill", "answer"} /\ report[s]
<1>a. \A n : Listed(n) => Listed(n)'
  BY KeepsOrder DEF Listed
<1>b. ASSUME \A s \in Threads : Past(s)' => Past(s) /\ sim'[s] = sim[s] PROVE ListedInv'
  BY <1>a, <1>b
<1>1. ASSUME NEW s \in Threads, Insert(s) PROVE ListedInv'
  <2>1. incidents' = <<sim[s]>> \o incidents /\ sim[s] \in Simulations
    BY <1>1 DEF Insert, SimulationInv, Simulating, Recording
  <2>2. <<sim[s]>> \in Seq(Simulations) /\ Len(<<sim[s]>>) = 1 /\ incidents \in Seq(Simulations)
    BY <2>1
  <2>3. Len(incidents') = Len(incidents) + 1 /\ incidents' \in Seq(Simulations)
        /\ incidents'[1] = sim[s]
    BY <2>1, <2>2, ConcatProperties
  <2>4. Listed(sim[s])'
    BY <1>1, <2>3 DEF Listed, Insert
  <2> QED
    BY <1>1, <1>a, <2>4 DEF Insert
<1>2. ASSUME NEW s \in Threads,
             \/ StoreEvents(s) \/ StoreThreats(s) \/ Acquires(s) \/ CopyStatus(s)
             \/ SendIncidents(s) \/ ClientStalls(s) \/ (\E k \in Counters : Fetch(s, k))
      PROVE  ListedInv'
  <2>1. ASSUME NEW t \in Threads, Past(t)' PROVE Past(t) /\ sim'[t] = sim[t]
    BY <1>2, <2>1 DEF StoreEvents, RecordOrKill, StoreThreats, Acquires, CopyStatus,
       SendIncidents, ClientStalls, Fetch, Store, Counters, Pass
  <2> QED
    BY <1>b, <2>1
<1>3. ASSUME NEW s \in Threads,
             \/ BeginSimulation(s) \/ DeployCanary(s) \/ ChmodCanary(s) \/ TruncateScript(s)
             \/ WriteScript(s) \/ Spawn(s) \/ Freeze(s)
      PROVE  ListedInv'
  <2>1. ASSUME NEW t \in Threads, Past(t)' PROVE Past(t) /\ sim'[t] = sim[t]
    <3>1. CASE BeginSimulation(s) \/ DeployCanary(s) \/ TruncateScript(s) \/ WriteScript(s)
      BY <2>1, <3>1 DEF BeginSimulation, DeployCanary, TruncateScript, WriteScript
    <3>2. CASE ChmodCanary(s) \/ Spawn(s)
      BY <2>1, <3>2 DEF ChmodCanary, Spawn, Raise
    <3>3. CASE Freeze(s)
      BY <2>1, <3>3 DEF Freeze, Raise
    <3> QED
      BY <1>3, <3>1, <3>2, <3>3
  <2> QED
    BY <1>b, <2>1
<1>4. ASSUME NEW s \in Threads,
             \/ ReadLine(s) \/ Kill(s) \/ BeginStatus(s) \/ LookForCanary(s)
             \/ StatCanary(s) \/ BeginIncidents(s)
      PROVE  ListedInv'
  <2>1. ASSUME NEW t \in Threads, Past(t)' PROVE Past(t) /\ sim'[t] = sim[t]
    BY <1>4, <2>1 DEF ReadLine, Kill, BeginStatus, LookForCanary, StatCanary, BeginIncidents, Pass
  <2> QED
    BY <1>b, <2>1
<1>5. ASSUME NEW s \in Threads, AnswerSimulation(s) \/ DumpStatus(s) \/ Deliver(s)
      PROVE  ListedInv'
  <2>1. ASSUME NEW t \in Threads, Past(t)' PROVE Past(t) /\ sim'[t] = sim[t]
    BY <1>5, <2>1 DEF AnswerSimulation, DumpStatus, Deliver
  <2> QED
    BY <1>b, <2>1
<1>6. CASE Apart
  BY <1>6, <1>b DEF Apart
<1>7. \/ Apart
      \/ \E s \in Threads :
           \/ BeginSimulation(s) \/ DeployCanary(s) \/ ChmodCanary(s) \/ TruncateScript(s)
           \/ WriteScript(s) \/ Spawn(s) \/ Freeze(s)
           \/ ReadLine(s) \/ Kill(s) \/ BeginStatus(s) \/ LookForCanary(s)
           \/ StatCanary(s) \/ BeginIncidents(s)
           \/ Insert(s) \/ StoreEvents(s) \/ StoreThreats(s) \/ Acquires(s) \/ CopyStatus(s)
           \/ SendIncidents(s) \/ ClientStalls(s) \/ (\E k \in Counters : Fetch(s, k))
           \/ AnswerSimulation(s) \/ DumpStatus(s) \/ Deliver(s)
  BY ApartSteps DEF DashNext, HandlerStep, Polls
<1> QED
  BY <1>1, <1>2, <1>3, <1>4, <1>5, <1>6, <1>7

\* The answer to a simulation is its incident, or one inserted after it.
OwnOrNewer(s) ==
  \E i, j \in DOMAIN incidents :
    i <= j /\ answer[s].shown = <<incidents[i]>> /\ incidents[j] = sim[s]

LEMMA AnswerStep ==
  /\ LedgerTypeOK /\ SimulationInv /\ ListedInv /\ AnswersOwnOrNewer /\ [DashNext]_dashVars
  => AnswersOwnOrNewer'
<1> SUFFICES ASSUME LedgerTypeOK, SimulationInv, ListedInv, AnswersOwnOrNewer,
                    [DashNext]_dashVars
             PROVE  AnswersOwnOrNewer'
  OBVIOUS
<1> USE DEF LedgerTypeOK, Step, localVars
<1> DEFINE Due(s) == pc[s] = "reply" /\ sim[s] # 0 /\ sim[s] \notin failed /\ report[s]
<1>a. AnswersOwnOrNewer' <=> \A s \in Threads : Due(s)' => OwnOrNewer(s)'
  BY DEF AnswersOwnOrNewer, OwnOrNewer
<1>b. ASSUME NEW s \in Threads, OwnOrNewer(s), answer'[s] = answer[s], sim'[s] = sim[s]
      PROVE  OwnOrNewer(s)'
  BY <1>b, KeepsOrder DEF OwnOrNewer
<1>c. ASSUME \A s \in Threads :
               Due(s)' => Due(s) /\ answer'[s] = answer[s] /\ sim'[s] = sim[s]
      PROVE  AnswersOwnOrNewer'
  <2>1. \A s \in Threads : Due(s) => OwnOrNewer(s)
    BY DEF AnswersOwnOrNewer, OwnOrNewer
  <2> HIDE DEF Due
  <2> QED
    BY <1>a, <1>b, <1>c, <2>1
<1>1. ASSUME NEW s \in Threads, AnswerSimulation(s) PROVE AnswersOwnOrNewer'
  <2>1. /\ pc[s] = "answer" /\ pc' = [pc EXCEPT ![s] = "reply"]
        /\ UNCHANGED <<incidents, sim, report, failed>>
        /\ \A t \in Threads \ {s} : answer'[t] = answer[t]
    BY <1>1 DEF AnswerSimulation, stateVars
  <2>2. ASSUME Due(s)' PROVE OwnOrNewer(s)'
    <3>1. PICK j \in DOMAIN incidents : incidents[j] = sim[s]
      BY <2>1, <2>2 DEF ListedInv, Listed
    <3>2. j \in 1 .. Len(incidents) /\ incidents # <<>> /\ Len(incidents) \in Nat
      BY <3>1
    <3>3. answer'[s].shown = <<Head(incidents)>>
      BY <1>1, <3>2 DEF AnswerSimulation, Answers
    <3>4. Head(incidents) = incidents[1] /\ 1 \in DOMAIN incidents /\ 1 <= j
      BY <3>2
    <3> QED
      BY <2>1, <3>1, <3>3, <3>4 DEF OwnOrNewer
  <2>3. \A t \in Threads \ {s} : Due(t)' => Due(t) /\ answer'[t] = answer[t] /\ sim'[t] = sim[t]
    BY <2>1
  <2>4. \A t \in Threads \ {s} : Due(t)' => OwnOrNewer(t)'
    <3>1. \A t \in Threads : Due(t) => OwnOrNewer(t)
      BY DEF AnswersOwnOrNewer, OwnOrNewer
    <3> HIDE DEF Due
    <3> QED
      BY <1>b, <2>3, <3>1
  <2> QED
    BY <1>a, <2>2, <2>4
<1>2. ASSUME NEW s \in Threads,
             \/ StoreEvents(s) \/ StoreThreats(s) \/ Insert(s) \/ Acquires(s) \/ SendIncidents(s)
             \/ ClientStalls(s) \/ (\E k \in Counters : Fetch(s, k))
      PROVE  AnswersOwnOrNewer'
  <2>1. ASSUME NEW t \in Threads, Due(t)'
        PROVE  Due(t) /\ answer'[t] = answer[t] /\ sim'[t] = sim[t]
    BY <1>2, <2>1 DEF StoreEvents, RecordOrKill, StoreThreats, Insert, Acquires,
       SendIncidents, ClientStalls, Fetch, Store, Counters, Pass
  <2> QED
    BY <1>c, <2>1
<1>3. ASSUME NEW s \in Threads,
             \/ BeginSimulation(s) \/ DeployCanary(s) \/ ChmodCanary(s) \/ TruncateScript(s)
             \/ WriteScript(s) \/ Spawn(s) \/ Freeze(s)
      PROVE  AnswersOwnOrNewer'
  <2>1. ASSUME NEW t \in Threads, Due(t)'
        PROVE  Due(t) /\ answer'[t] = answer[t] /\ sim'[t] = sim[t]
    <3>1. CASE BeginSimulation(s) \/ DeployCanary(s) \/ TruncateScript(s) \/ WriteScript(s)
      BY <2>1, <3>1 DEF BeginSimulation, DeployCanary, TruncateScript, WriteScript
    <3>2. CASE ChmodCanary(s) \/ Spawn(s)
      BY <2>1, <3>2 DEF ChmodCanary, Spawn, Raise
    <3>3. CASE Freeze(s)
      BY <2>1, <3>3 DEF Freeze, Raise
    <3> QED
      BY <1>3, <3>1, <3>2, <3>3
  <2> QED
    BY <1>c, <2>1
<1>4. ASSUME NEW s \in Threads,
             \/ ReadLine(s) \/ Kill(s) \/ BeginStatus(s) \/ LookForCanary(s)
             \/ StatCanary(s) \/ BeginIncidents(s)
      PROVE  AnswersOwnOrNewer'
  <2>1. ASSUME NEW t \in Threads, Due(t)'
        PROVE  Due(t) /\ answer'[t] = answer[t] /\ sim'[t] = sim[t]
    BY <1>4, <2>1 DEF ReadLine, Kill, BeginStatus, LookForCanary, StatCanary, BeginIncidents, Pass
  <2> QED
    BY <1>c, <2>1
<1>5. ASSUME NEW s \in Threads, CopyStatus(s) \/ DumpStatus(s) \/ Deliver(s)
      PROVE  AnswersOwnOrNewer'
  <2>1. ASSUME NEW t \in Threads, Due(t)'
        PROVE  Due(t) /\ answer'[t] = answer[t] /\ sim'[t] = sim[t]
    BY <1>5, <2>1 DEF CopyStatus, DumpStatus, Deliver, SimulationInv, Simulating, Recording
  <2> QED
    BY <1>c, <2>1
<1>6. CASE Apart
  BY <1>6, <1>c DEF Apart
<1>7. \/ Apart
      \/ \E s \in Threads :
           \/ BeginSimulation(s) \/ DeployCanary(s) \/ ChmodCanary(s) \/ TruncateScript(s)
           \/ WriteScript(s) \/ Spawn(s) \/ Freeze(s)
           \/ ReadLine(s) \/ Kill(s) \/ BeginStatus(s) \/ LookForCanary(s)
           \/ StatCanary(s) \/ BeginIncidents(s)
           \/ StoreEvents(s) \/ StoreThreats(s) \/ Insert(s) \/ Acquires(s)
           \/ SendIncidents(s) \/ ClientStalls(s) \/ (\E k \in Counters : Fetch(s, k))
           \/ AnswerSimulation(s) \/ CopyStatus(s) \/ DumpStatus(s) \/ Deliver(s)
  BY ApartSteps DEF DashNext, HandlerStep, Polls
<1> QED
  BY <1>1, <1>2, <1>3, <1>4, <1>5, <1>6, <1>7

-----------------------------------------------------------------------------
\* The invariant holds at the start, and every step keeps it.
LEMMA DashInvInit == DashInit => DashInv
<1> SUFFICES ASSUME DashInit PROVE DashInv
  OBVIOUS
<1> USE DashboardAssumption DEF DashInit
<1>1. NoAnswer \in Answers /\ <<>> \in Seq(Simulations)
  BY DEF NoAnswer, Answers
<1>2. LedgerTypeOK
  BY <1>1 DEF LedgerTypeOK, Labels, Counters
<1>3. LockInv
  BY DEF LockInv, Locked
<1>4. SimulationInv /\ FetchedInv /\ DumpInv
  BY DEF SimulationInv, Simulating, Recording, FetchedInv, DumpInv
<1>5. LedgerInv
  BY DEF LedgerInv, Counters
<1>6. StatusesAreOfThePast
  <2>1. IsSuffix(incidents, incidents)
    BY <1>1, OwnSuffix
  <2>2. StatusOfThePast(page)
    BY <2>1 DEF StatusOfThePast, NoAnswer
  <2> QED
    BY <2>2 DEF StatusesAreOfThePast
<1>7. OwnInv /\ ListedInv /\ AnswersOwnOrNewer
  BY DEF OwnInv, ListedInv, AnswersOwnOrNewer
<1>8. KilledInv /\ OnlyFailuresLeaveChildren
  BY DEF KilledInv, OnlyFailuresLeaveChildren, Processes, Simulations, Dashboard
<1> QED
  BY <1>2, <1>3, <1>4, <1>5, <1>6, <1>7, <1>8 DEF DashInv

LEMMA DashInvariance == DashSpec => []DashInv
<1>1. DashInv /\ [DashNext]_dashVars => DashInv'
  BY TypeStep, LockStep, SimulationStep, FetchedStep, LedgerStep, DumpStep, PastStep,
     OwnStep, KilledStep, ChildrenStep, ListedStep, AnswerStep
  DEF DashInv
<1> QED
  BY <1>1, DashInvInit, PTL DEF DashSpec

\* Whenever the lock is free the counters, the incident list and the last
\* threat agree, however many threads have incremented and inserted.
THEOREM LedgersAgree == DashSpec => []LedgerAgrees
<1>1. DashInv => LedgerAgrees
  <2> SUFFICES ASSUME DashInv, lock = NoThread PROVE LedgerAgrees
    BY DEF LedgerAgrees
  <2>1. \A s \in Threads : pc[s] # "insert"
    BY DashboardAssumption DEF DashInv, LockInv, Locked
  <2> QED
    BY <2>1 DEF DashInv, LedgerInv, LedgerAgrees
<1> QED
  BY <1>1, DashInvariance, PTL

\* Every status, in flight or on the page, is one the server once had, and its
\* counter is not ahead of its list.
THEOREM StatusesOfThePast == DashSpec => []StatusesAreOfThePast
<1>1. DashInv => StatusesAreOfThePast
  BY DEF DashInv
<1> QED
  BY <1>1, DashInvariance, PTL

\* The answer to a simulation shows its own incident or a newer one, never one
\* from before, though it is taken from the list without the lock.
THEOREM AnswersAreOwnOrNewer == DashSpec => []AnswersOwnOrNewer
<1>1. DashInv => AnswersOwnOrNewer
  BY DEF DashInv
<1> QED
  BY <1>1, DashInvariance, PTL

\* A simulation that was answered without an error has sent its child SIGKILL: a
\* process that nobody ends is left by a failed simulation only.
THEOREM AnsweredMeansKilled == DashSpec => []OnlyFailuresLeaveChildren
<1>1. DashInv => OnlyFailuresLeaveChildren
  BY DEF DashInv
<1> QED
  BY <1>1, DashInvariance, PTL

-----------------------------------------------------------------------------
(* The counters stay within the simulations that were asked for.           *)

\* Simulations whose event is still to be counted.
Pending == {"deploy", "chmod", "truncate", "write", "spawn", "readline",
            "freeze", "acquire", "events", "store_events"}
Uncounted ==
  {n \in 1 .. begun : \E s \in Threads : pc[s] \in Pending /\ sim[s] = n}

\* Each simulation is counted once at most.
CountedInv == count["events"] + Cardinality(Uncounted) <= begun

\* What is read from a counter is within its bound, too.
BoundInv ==
  /\ \A k \in Counters : count[k] <= MaxSimulations
  /\ \A s \in Threads :
       reg[s] <= MaxSimulations /\ answer[s].threats <= MaxSimulations
  /\ page.threats <= MaxSimulations

WorldTypeOK ==
  /\ script \in {"none", "empty", "whole"}
  /\ canary \in BOOLEAN
  /\ stage \in [Simulations -> {"start", "attack", "print", "ready"}]
  /\ touched \subseteq Simulations
  /\ failed \subseteq Simulations

LEMMA UncountedFinite ==
  ASSUME LedgerTypeOK
  PROVE  /\ IsFiniteSet(Uncounted) /\ Cardinality(Uncounted) \in Nat
         /\ begun \in Nat /\ count["events"] \in Nat
<1>1. begun \in Nat /\ count["events"] \in Nat
  BY DashboardAssumption DEF LedgerTypeOK, Counters
<1>2. IsFiniteSet(1 .. begun)
  BY <1>1, FS_Interval
<1>3. Uncounted \in SUBSET (1 .. begun)
  BY DEF Uncounted
<1>4. IsFiniteSet(Uncounted)
  BY <1>2, <1>3, FS_Subset
<1> QED
  BY <1>1, <1>4, FS_CardinalityType

\* Only the beginning of a simulation, and its event, change what is counted.
LEMMA CountSteps ==
  ASSUME LedgerTypeOK, SimulationInv, [DashNext]_dashVars
  PROVE  \/ \E s \in Threads : BeginSimulation(s) \/ StoreEvents(s)
         \/ /\ count'["events"] = count["events"] /\ begun' = begun
            /\ \A t \in Threads :
                 pc'[t] \in Pending => pc[t] \in Pending /\ sim'[t] = sim[t]
<1> DEFINE Same ==
      /\ count'["events"] = count["events"] /\ begun' = begun
      /\ \A t \in Threads :
           pc'[t] \in Pending => pc[t] \in Pending /\ sim'[t] = sim[t]
<1> USE DEF LedgerTypeOK, Pending, Step, stateVars, localVars
<1>1. ASSUME NEW s \in Threads,
             \/ DeployCanary(s) \/ ChmodCanary(s) \/ TruncateScript(s)
             \/ WriteScript(s) \/ Spawn(s) \/ ReadLine(s) \/ Freeze(s)
      PROVE  Same
  BY <1>1 DEF DeployCanary, ChmodCanary, TruncateScript, WriteScript, Spawn,
              ReadLine, Freeze, Raise, Pass
<1>2. ASSUME NEW s \in Threads,
             \/ Insert(s) \/ Kill(s) \/ AnswerSimulation(s)
             \/ LookForCanary(s) \/ StatCanary(s) \/ CopyStatus(s)
             \/ DumpStatus(s) \/ SendIncidents(s) \/ BeginStatus(s)
             \/ BeginIncidents(s) \/ ClientStalls(s) \/ Acquires(s)
      PROVE  Same
  BY <1>2 DEF Insert, Kill, AnswerSimulation, LookForCanary, StatCanary,
              CopyStatus, DumpStatus, SendIncidents, BeginStatus, BeginIncidents,
              ClientStalls, Acquires, Pass
<1>3. ASSUME NEW s \in Threads, NEW k \in Counters, Fetch(s, k) PROVE Same
  BY <1>3 DEF Fetch, Store, Counters
<1>4. ASSUME NEW s \in Threads, StoreThreats(s) PROVE Same
  BY <1>4 DEF StoreThreats, Increment, Counters
<1>5. ASSUME NEW s \in Threads, Deliver(s) PROVE Same
  BY <1>5 DEF Deliver
<1>6. CASE \/ \E n \in Simulations : ChildStep(n)
           \/ \E n \in Processes : DaemonStops(n)
           \/ CanaryCleaned \/ UNCHANGED dashVars
  BY <1>6, ApartSteps DEF Apart
<1> QED
  BY <1>1, <1>2, <1>3, <1>4, <1>5, <1>6 DEF DashNext, HandlerStep, Polls

LEMMA CountedStep ==
  ASSUME LedgerTypeOK, LedgerTypeOK', SimulationInv, FetchedInv, OwnInv,
         CountedInv, [DashNext]_dashVars
  PROVE  CountedInv'
<1> USE DashboardAssumption DEF LedgerTypeOK
<1>1. /\ IsFiniteSet(Uncounted) /\ Cardinality(Uncounted) \in Nat
      /\ begun \in Nat /\ count["events"] \in Nat
  BY UncountedFinite
<1>2. ASSUME NEW s \in Threads, BeginSimulation(s) PROVE CountedInv'
  <2>1. /\ begun' = begun + 1 /\ count' = count
        /\ sim' = [sim EXCEPT ![s] = begun + 1]
        /\ pc' = [pc EXCEPT ![s] = "deploy"] /\ pc[s] = "idle"
    BY <1>2 DEF BeginSimulation, Step, stateVars
  <2>2. Uncounted' \subseteq Uncounted \cup {begun + 1}
    <3> SUFFICES ASSUME NEW n \in Uncounted', n # begun + 1
                 PROVE  n \in Uncounted
      OBVIOUS
    <3>1. PICK t \in Threads : pc'[t] \in Pending /\ sim'[t] = n
      BY DEF Uncounted
    <3>2. n \in 1 .. begun' /\ n \in 1 .. begun
      BY <1>1, <2>1 DEF Uncounted
    <3>3. t # s
      BY <2>1, <3>1
    <3> QED
      BY <2>1, <3>1, <3>2, <3>3 DEF Uncounted
  <2>3. /\ IsFiniteSet(Uncounted \cup {begun + 1})
        /\ Cardinality(Uncounted \cup {begun + 1}) <= Cardinality(Uncounted) + 1
        /\ Cardinality(Uncounted \cup {begun + 1}) \in Nat
    <3> DEFINE more == Uncounted \cup {begun + 1}
    <3>1. /\ IsFiniteSet(more)
          /\ Cardinality(more) = IF begun + 1 \in Uncounted THEN Cardinality(Uncounted)
                                 ELSE Cardinality(Uncounted) + 1
      BY <1>1, FS_AddElement
    <3> QED
      BY <1>1, <3>1
  <2>4. /\ Cardinality(Uncounted') <= Cardinality(Uncounted \cup {begun + 1})
        /\ Cardinality(Uncounted') \in Nat
    BY <2>2, <2>3, FS_Subset, FS_CardinalityType
  <2> QED
    BY <1>1, <2>1, <2>3, <2>4 DEF CountedInv
<1>3. ASSUME NEW s \in Threads, StoreEvents(s) PROVE CountedInv'
  <2>1. pc[s] = "store_events" /\ reg[s] = count["events"] /\ sim[s] \in Simulations
    BY <1>3 DEF StoreEvents, RecordOrKill, Step, FetchedInv, SimulationInv,
                Simulating, Recording
  <2>2. /\ count'["events"] = count["events"] + 1
        /\ sim' = sim /\ begun' = begun
        /\ pc' = [pc EXCEPT ![s] = pc'[s]] /\ pc'[s] \in {"threats", "kill"}
    BY <1>3, <2>1 DEF StoreEvents, RecordOrKill, Increment, Step, Counters
  <2>3. sim[s] \in Uncounted
    BY <1>1, <2>1 DEF Uncounted, Pending, OwnInv, Simulations
  <2>4. Uncounted' \subseteq Uncounted \ {sim[s]}
    <3> SUFFICES ASSUME NEW n \in Uncounted' PROVE n \in Uncounted \ {sim[s]}
      OBVIOUS
    <3>1. PICK t \in Threads : pc'[t] \in Pending /\ sim'[t] = n
      BY DEF Uncounted
    <3>2. t # s
      BY <2>2, <3>1 DEF Pending
    <3>3. sim[t] # sim[s]
      BY <2>1, <3>2 DEF OwnInv, Simulations
    <3> QED
      BY <2>2, <3>1, <3>2, <3>3 DEF Uncounted
  <2>5. /\ IsFiniteSet(Uncounted \ {sim[s]})
        /\ Cardinality(Uncounted \ {sim[s]}) = Cardinality(Uncounted) - 1
        /\ Cardinality(Uncounted \ {sim[s]}) \in Nat
    BY <1>1, <2>3, FS_RemoveElement, FS_CardinalityType
  <2>6. /\ Cardinality(Uncounted') <= Cardinality(Uncounted \ {sim[s]})
        /\ Cardinality(Uncounted') \in Nat
    BY <2>4, <2>5, FS_Subset, FS_CardinalityType
  <2>7. count["events"] + Cardinality(Uncounted) <= begun
    BY DEF CountedInv
  <2>8. count'["events"] + Cardinality(Uncounted') <= begun'
    <3> HIDE DEF LedgerTypeOK
    <3> QED
      BY <1>1, <2>2, <2>5, <2>6, <2>7
  <2> QED
    BY <2>8 DEF CountedInv
<1>4. CASE /\ count'["events"] = count["events"] /\ begun' = begun
           /\ \A t \in Threads :
                pc'[t] \in Pending => pc[t] \in Pending /\ sim'[t] = sim[t]
  <2>1. Uncounted' \subseteq Uncounted
    BY <1>4 DEF Uncounted
  <2>2. /\ Cardinality(Uncounted') <= Cardinality(Uncounted)
        /\ Cardinality(Uncounted') \in Nat
    BY <1>1, <2>1, FS_Subset, FS_CardinalityType
  <2> QED
    BY <1>1, <1>4, <2>2 DEF CountedInv
<1> QED
  BY <1>2, <1>3, <1>4, CountSteps

\* The counters are bounded by what is counted, the rest by the counters.
CountsBounded == \A k \in Counters : count[k] \in 0 .. MaxSimulations

LEMMA CountersBounded ==
  LedgerTypeOK /\ LedgerInv /\ CountedInv => CountsBounded
<1> SUFFICES ASSUME LedgerTypeOK, LedgerInv, CountedInv PROVE CountsBounded
  OBVIOUS
<1>1. count["events"] \in Nat /\ count["threats"] \in Nat
  BY DEF LedgerTypeOK, Counters
<1>2. count["threats"] <= count["events"]
  BY DEF LedgerInv
<1>3. Cardinality(Uncounted) \in Nat /\ begun \in 0 .. MaxSimulations
  BY UncountedFinite DEF LedgerTypeOK
<1>4. count["events"] <= begun
  BY <1>1, <1>3 DEF CountedInv
<1> QED
  BY <1>1, <1>2, <1>3, <1>4, DashboardAssumption DEF Counters, CountsBounded

LEMMA BoundStep ==
  ASSUME LedgerTypeOK, LedgerTypeOK', SimulationInv, BoundInv,
         CountsBounded', [DashNext]_dashVars
  PROVE  BoundInv'
<1> USE DashboardAssumption DEF LedgerTypeOK, Step, stateVars, localVars
<1>1. \A k \in Counters : count[k] <= MaxSimulations /\ count'[k] <= MaxSimulations
  BY DEF BoundInv, CountsBounded
<1>2. /\ \A s \in Threads :
           reg'[s] <= MaxSimulations /\ answer'[s].threats <= MaxSimulations
      /\ page'.threats <= MaxSimulations
  <2> DEFINE Bounds ==
        /\ \A s \in Threads :
             reg'[s] <= MaxSimulations /\ answer'[s].threats <= MaxSimulations
        /\ page'.threats <= MaxSimulations
  <2>1. CASE Apart
    BY <2>1 DEF Apart, BoundInv
  <2>2. ASSUME NEW s \in Threads, Aside(s) PROVE Bounds
    BY <2>2 DEF Aside, BoundInv
  <2>3. ASSUME NEW s \in Threads,
               \/ Acquires(s) \/ Insert(s) \/ SendIncidents(s) \/ ClientStalls(s)
        PROVE  Bounds
    BY <2>3 DEF Acquires, Insert, SendIncidents, ClientStalls, Pass, worldVars,
                BoundInv
  <2>4. ASSUME NEW s \in Threads, NEW k \in Counters, Fetch(s, k) PROVE Bounds
    BY <1>1, <2>4 DEF Fetch, worldVars, BoundInv
  <2>5. ASSUME NEW s \in Threads, StoreEvents(s) \/ StoreThreats(s) PROVE Bounds
    <3>1. reg' = [reg EXCEPT ![s] = 0] /\ UNCHANGED <<answer, page>>
      BY <2>5 DEF StoreEvents, StoreThreats, Increment, worldVars
    <3> QED
      BY <3>1 DEF BoundInv
  <2>6. ASSUME NEW s \in Threads,
               AnswerSimulation(s) \/ CopyStatus(s) \/ DumpStatus(s)
        PROVE  Bounds
    <3>1. \A t \in Threads :
            \/ answer'[t].threats = answer[t].threats
            \/ answer'[t].threats = count["threats"]
      <4>1. ASSUME NEW t \in Threads
            PROVE  answer[t] \in Answers /\ answer[s] \in Answers
        OBVIOUS
      <4>2. CASE AnswerSimulation(s)
        BY <4>1, <4>2 DEF AnswerSimulation, Answers
      <4>3. CASE CopyStatus(s)
        BY <4>1, <4>3 DEF CopyStatus, Answers
      <4>4. CASE DumpStatus(s)
        BY <4>1, <4>4 DEF DumpStatus, Answers
      <4> QED
        BY <2>6, <4>2, <4>3, <4>4
    <3>2. UNCHANGED <<reg, page>>
      BY <2>6 DEF AnswerSimulation, CopyStatus, DumpStatus, worldVars
    <3>3. "threats" \in Counters
      BY DEF Counters
    <3> QED
      BY <1>1, <3>1, <3>2, <3>3 DEF BoundInv
  <2>7. ASSUME NEW s \in Threads, Deliver(s) PROVE Bounds
    BY <2>7 DEF Deliver, NoAnswer, BoundInv
  <2> QED
    BY <2>1, <2>2, <2>3, <2>4, <2>5, <2>6, <2>7, StepKinds
<1> QED
  BY <1>1, <1>2 DEF BoundInv

LEMMA WorldTypeStep ==
  ASSUME LedgerTypeOK, SimulationInv, WorldTypeOK, [DashNext]_dashVars
  PROVE  WorldTypeOK'
<1> USE DEF WorldTypeOK, LedgerTypeOK, Step, stateVars, localVars, worldVars,
            childVars
<1>1. ASSUME NEW s \in Threads, pc[s] \in Simulating
      PROVE  sim[s] \in Simulations
  BY <1>1 DEF SimulationInv
<1>2. ASSUME NEW s \in Threads, ChmodCanary(s) \/ Spawn(s) \/ Freeze(s)
      PROVE  WorldTypeOK'
  <2>1. pc[s] \in Simulating
    BY <1>2 DEF ChmodCanary, Spawn, Freeze, Simulating
  <2> QED
    BY <1>1, <1>2, <2>1 DEF ChmodCanary, Spawn, Freeze, Raise
<1>3. ASSUME NEW s \in Threads,
             DeployCanary(s) \/ TruncateScript(s) \/ WriteScript(s) \/ Kill(s)
      PROVE  WorldTypeOK'
  BY <1>3 DEF DeployCanary, TruncateScript, WriteScript, Kill
<1>4. ASSUME NEW s \in Threads,
             \/ BeginSimulation(s) \/ ReadLine(s) \/ StoreEvents(s)
             \/ StoreThreats(s) \/ Insert(s) \/ AnswerSimulation(s)
             \/ LookForCanary(s) \/ StatCanary(s) \/ CopyStatus(s)
             \/ DumpStatus(s) \/ SendIncidents(s) \/ BeginStatus(s)
             \/ BeginIncidents(s) \/ ClientStalls(s) \/ Acquires(s)
             \/ Deliver(s) \/ \E k \in Counters : Fetch(s, k)
      PROVE  WorldTypeOK'
  BY <1>4 DEF BeginSimulation, ReadLine, StoreEvents, StoreThreats, Insert,
              AnswerSimulation, LookForCanary, StatCanary, CopyStatus, DumpStatus,
              SendIncidents, BeginStatus, BeginIncidents, ClientStalls, Acquires,
              Deliver, Fetch, Pass
<1>5. ASSUME NEW n \in Processes, (n \in Simulations /\ ChildStep(n)) \/ DaemonStops(n)
      PROVE  WorldTypeOK'
  BY <1>5 DEF ChildStep, ChildStarts, ChildAttacks, ChildPrints, ChildEnds,
              DaemonStops
<1>6. CASE CanaryCleaned \/ UNCHANGED dashVars
  BY <1>6 DEF CanaryCleaned, dashVars
<1> QED
  BY <1>2, <1>3, <1>4, <1>5, <1>6 DEF DashNext, HandlerStep, Polls, Processes

\* The dashboard keeps its types: no counter, and nothing read from one, exceeds
\* the number of simulations, since no simulation is counted twice.
THEOREM DashTypeCorrect == DashSpec => []DashTypeOK
<1> DEFINE TypeInv == CountedInv /\ BoundInv /\ WorldTypeOK
<1>1. DashInit => TypeInv
  <2> SUFFICES ASSUME DashInit PROVE TypeInv
    OBVIOUS
  <2>1. Uncounted = {}
    BY DEF DashInit, Uncounted
  <2>2. CountedInv
    BY <2>1, FS_EmptySet DEF CountedInv, DashInit, Counters
  <2>3. BoundInv
    BY DashboardAssumption DEF BoundInv, DashInit, NoAnswer
  <2>4. WorldTypeOK
    BY DEF WorldTypeOK, DashInit
  <2> QED
    BY <2>2, <2>3, <2>4
<1>2. DashInv /\ DashInv' /\ TypeInv /\ [DashNext]_dashVars => TypeInv'
  <2> SUFFICES ASSUME DashInv, DashInv', TypeInv, [DashNext]_dashVars
               PROVE  TypeInv'
    OBVIOUS
  <2>1. /\ LedgerTypeOK /\ SimulationInv /\ FetchedInv /\ OwnInv
        /\ LedgerTypeOK' /\ LedgerInv'
    BY DEF DashInv
  <2>2. CountedInv'
    BY <2>1, CountedStep
  <2>3. CountsBounded'
    BY <2>1, <2>2, CountersBounded, PTL
  <2>4. BoundInv'
    BY <2>1, <2>3, BoundStep
  <2>5. WorldTypeOK'
    BY <2>1, WorldTypeStep
  <2> QED
    BY <2>2, <2>4, <2>5
<1>3. DashInv /\ TypeInv => DashTypeOK
  <2> SUFFICES ASSUME DashInv, TypeInv PROVE DashTypeOK
    OBVIOUS
  <2> USE DashboardAssumption
  <2>1. LedgerTypeOK /\ LedgerInv
    BY DEF DashInv
  <2>2. count \in [Counters -> 0 .. MaxSimulations]
    BY <2>1, CountersBounded DEF LedgerTypeOK, CountsBounded
  <2>3. /\ reg \in [Threads -> 0 .. MaxSimulations]
        /\ page.threats \in 0 .. MaxSimulations /\ page.shown \in Seq(Simulations)
    BY <2>1 DEF LedgerTypeOK, BoundInv, Answers
  <2>4. ASSUME NEW s \in Threads
        PROVE  /\ DOMAIN answer[s] = {"threats", "shown"}
               /\ answer[s].threats \in 0 .. MaxSimulations
               /\ answer[s].shown \in Seq(Simulations)
    BY <2>1 DEF LedgerTypeOK, BoundInv, Answers
  <2> QED
    BY <2>1, <2>2, <2>3, <2>4
    DEF DashTypeOK, LedgerTypeOK, WorldTypeOK, DashInv, KilledInv
<1> QED
  BY <1>1, <1>2, <1>3, DashInvariance, PTL DEF DashSpec

=============================================================================
