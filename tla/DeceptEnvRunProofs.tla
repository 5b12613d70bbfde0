------------------------- MODULE DeceptEnvRunProofs -------------------------
(* Proofs about DeceptEnvRun, for any canaries, processes and calls.  What  *)
(* is proved of freeze_threat() alone is carried over to the whole program. *)
EXTENDS DeceptEnvRun, ThreatMitigatorProofs, SequenceTheorems,
        FiniteSetTheorems, WellFoundedInduction

PipeTypes ==
  /\ FilesTypeOK
  /\ atimeCache \in [Paths -> Nat \cup {Absent}]
  /\ queue \in Seq(Paths)
  /\ attributing \in Paths \cup {NoPath}
  /\ ready \in Seq([pid : Pids, path : Paths])

\* Time goes forward: an access time is that of the start or of a touch, and
\* the cache is never ahead of the file it was read from.
ClockInv ==
  /\ StartTime <= clock
  /\ touches \subseteq Paths \X Nat /\ IsFiniteSet(touches)
  /\ \A p \in Paths :
       /\ Present(p) =>
            /\ StartTime <= atime[p] /\ atime[p] <= clock
            /\ atime[p] = StartTime \/ <<p, atime[p]>> \in touches
       /\ atimeCache[p] # Absent =>
            /\ StartTime <= atimeCache[p] /\ atimeCache[p] <= clock
            /\ Present(p) => atimeCache[p] <= atime[p]

\* The accesses the cache has caught up with.
Known == {e \in touches : atimeCache[e[1]] # Absent /\ e[2] <= atimeCache[e[1]]}

Started == {c \in Calls : pc[c] # "new"}
InHand == IF attributing = NoPath THEN 0 ELSE 1

\* Each event on its way, and each call made of one, has an access of its own.
PipelineInv ==
  /\ IsFiniteSet(Started)
  /\ Cardinality(Started) + Len(ready) + InHand + Len(queue)
       <= Cardinality(Known)

Reported == {c \in Calls : outcome[c] = "report"}

\* The counter has the reports, and the notifier those that could be printed.
RecordInv ==
  /\ posting \cup posted \cup unprinted = Reported
  /\ IsFiniteSet(Reported)
  /\ threats = Cardinality(Reported)

\* Tier 1 still has to come to the processes that keep the canary open.
HolderInv ==
  tier = 1 =>
    /\ steady \subseteq walk
    /\ \A q \in steady : HasOpen(q, attributing) /\ owner[q] = User
    /\ best = NoBest \/ best.pid \in Pids

RunInv ==
  /\ PipeTypes /\ MitigatorInv /\ RunTypeOK
  /\ ClockInv /\ PipelineInv /\ RecordInv /\ HolderInv

-----------------------------------------------------------------------------
(* What the steps of the program are to the parts of the invariant.        *)

\* The daemon's own steps and the world's are none of freeze_threat's concern.
LEMMA CallsSee == PipeTypes /\ [RunNext]_runVars => MitigatorAct
<1> SUFFICES ASSUME PipeTypes, [RunNext]_runVars PROVE MitigatorAct
  OBVIOUS
<1> USE MitigatorAssumption, RunAssumption
<1>1. CASE PollTask
  BY <1>1 DEF PollTask, PollResume, PollStep, BaselineExists, BaselineStat, BaselineCrash,
     BaselineDone, ScanPath, PollSleep, Resume, Idle, Suspend, MitigatorAct, Elsewhere
<1>2. CASE ProcessTask
  BY <1>2 DEF ProcessTask, ProcessResume, Suppress, ProcessWait, Resume, Idle, Suspend,
     MitigatorAct, Elsewhere
<1>3. CASE StartSearch \/ Search \/ Attribute \/ GiveUp
  BY <1>3 DEF StartSearch, LetThrough, Search, Attribute, Dispatch, GiveUp, Unattributed, vars,
     MitigatorAct, mitigatorVars
<1>4. ASSUME NEW c \in Calls, CallbackStart(c) PROVE MitigatorAct
  <2>1. ready \in Seq([pid : Pids, path : Paths]) /\ ready # <<>>
    BY <1>4 DEF CallbackStart, PipeTypes
  <2>2. Head(ready) \in [pid : Pids, path : Paths]
    BY <2>1, HeadTailProperties
  <2>3. Head(ready).pid \in Pids \cup {0}
    BY <2>2
  <2> QED
    BY <1>4, <2>3 DEF CallbackStart, MitigatorAct, MitigatorNext
<1>5. ASSUME NEW c \in Calls, CallbackStep(c) PROVE MitigatorAct
  BY <1>5 DEF CallbackStep, MitigatorAct, MitigatorNext
<1>6. ASSUME NEW c \in Calls, Post(c) PROVE MitigatorAct
  BY <1>6 DEF Post, vars, MitigatorAct, mitigatorVars
<1>7. CASE CtrlC \/ TimePasses
  BY <1>7 DEF CtrlC, Cancel, TimePasses, vars, MitigatorAct, mitigatorVars
<1>8. ASSUME NEW p \in Paths, CanaryRemoved(p) \/ CanaryCreated(p) PROVE MitigatorAct
  BY <1>8 DEF CanaryRemoved, RemoveCanary, CanaryCreated, MitigatorAct, mitigatorVars
<1>9. ASSUME NEW p \in Paths, NEW q \in Pids, ReaderReads(q, p) \/ ReaderCloses(q, p)
      PROVE  MitigatorAct
  BY <1>9 DEF ReaderReads, ReadCanary, ReaderCloses, vars, MitigatorAct, mitigatorVars
<1>10. ASSUME NEW q \in Pids, ProcessChanges(q) PROVE MitigatorAct
  BY <1>10 DEF ProcessChanges, vars, MitigatorAct, MitigatorNext
<1>11. CASE UNCHANGED runVars
  BY <1>11 DEF runVars, vars, MitigatorAct, mitigatorVars
<1> QED
  BY <1>1, <1>2, <1>3, <1>4, <1>5, <1>6, <1>7, <1>8, <1>9, <1>10, <1>11 DEF RunNext

\* The poll task looks at canary p: no access is queued that is not one.
Looks(p) ==
  /\ atimeCache' = [atimeCache EXCEPT ![p] = atime[p]]
  /\ \/ Advanced(p) /\ queue' = Append(queue, p)
     \/ (Present(p) \/ atimeCache[p] = Absent) /\ UNCHANGED queue

\* That is all the poll task does to the pipeline.
LEMMA PollEffect ==
  ASSUME PipeTypes, PollTask
  PROVE  /\ UNCHANGED <<fileVars, attributing, ready, touches, pc>>
         /\ UNCHANGED <<atimeCache, queue>> \/ \E p \in Paths : Looks(p)
<1> USE DEF PollTask, pollVars, processVars, historyVars, callVars, PipeTypes, FilesTypeOK
<1> DEFINE Effect ==
      /\ UNCHANGED <<fileVars, attributing, ready>>
      /\ UNCHANGED <<atimeCache, queue>> \/ \E p \in Paths : Looks(p)
<1>1. CASE PollResume
  BY <1>1 DEF PollResume
<1>2. ASSUME NEW p \in Paths, BaselineExists(p) PROVE Effect
  BY <1>2 DEF BaselineExists
<1>3. ASSUME NEW p \in Paths, ScanPath(p) PROVE Effect
  <2>1. UNCHANGED <<fileVars, attributing, ready>>
    BY <1>3 DEF ScanPath
  <2>2. CASE Advanced(p)
    BY <1>3, <2>1, <2>2 DEF ScanPath, Looks
  <2>3. CASE ~Advanced(p) /\ atimeCache[p] = Absent
    BY <1>3, <2>1, <2>3 DEF ScanPath, Looks
  <2>4. CASE ~Advanced(p) /\ atimeCache[p] # Absent
    BY <1>3, <2>1, <2>4 DEF ScanPath
  <2> QED
    BY <2>2, <2>3, <2>4
<1>4. CASE BaselineStat
  <2>1. /\ UNCHANGED <<fileVars, attributing, ready, queue>>
        /\ Present(cur) /\ atimeCache' = [atimeCache EXCEPT ![cur] = atime[cur]]
    BY <1>4 DEF BaselineStat
  <2>2. CASE cur \in Paths
    BY <2>1, <2>2 DEF Looks
  <2>3. CASE cur \notin Paths
    BY <2>1, <2>3
  <2> QED
    BY <2>2, <2>3
<1>5. CASE BaselineCrash \/ BaselineDone \/ PollSleep
  BY <1>5 DEF BaselineCrash, BaselineDone, PollSleep
<1> QED
  BY <1>1, <1>2, <1>3, <1>4, <1>5 DEF PollStep

\* A step of a call moves that call only, and it has not ended before.
LEMMA CallEffect ==
  ASSUME CallTypes, CallInv, NEW c \in Calls, CallStep(c)
  PROVE  /\ pc[c] # "new" /\ pc' = [pc EXCEPT ![c] = pc'[c]] /\ pc'[c] # "new"
         /\ outcome[c] = "pending" /\ outcome' = [outcome EXCEPT ![c] = outcome'[c]]
         /\ UNCHANGED <<system, owner, gen>>
         /\ \A q \in Pids : Alive(q)' <=> Alive(q)
BY DEF CallStep, CheckOwner, Acquire, VerifyOwnership, KillDenied, KillMissed, Kill, Snapshot,
   Finish, Goto, CallTypes, CallsTypeOK, ProcessesTypeOK, CallInv, procVars, Alive

\* The pid a listing is taken up at is one of it.
LEMMA LowestIsOne ==
  ASSUME NEW S, S \subseteq Pids, S # {}
  PROVE  Lowest(S) \in S
<1> DEFINE R == {ss \in Nat \X Nat : ss[1] < ss[2]}
<1>0. S \subseteq Nat
  BY ProcessAssumption
<1>1. IsWellFoundedOn(R, Nat)
  BY NatLessThanWellFounded DEF OpToRel
<1>2. PICK x \in S : \A y \in S : <<y, x>> \notin R
  <2> HIDE DEF R
  <2> QED
    BY <1>0, <1>1, WFMin
<1>3. ASSUME NEW y \in S PROVE x <= y
  <2>1. x \in Nat /\ y \in Nat /\ <<y, x>> \notin R
    BY <1>0, <1>2
  <2>2. ~(y < x)
    BY <2>1
  <2> QED
    BY <2>1, <2>2
<1> QED
  BY <1>3 DEF Lowest

-----------------------------------------------------------------------------
(* Each part is kept by every step.                                        *)

\* The types of the pipeline.
LEMMA PipeTypeStep == PipeTypes /\ [RunNext]_runVars => PipeTypes'
<1> SUFFICES ASSUME PipeTypes, [RunNext]_runVars PROVE PipeTypes'
  OBVIOUS
<1> USE TimeAssumption DEF PipeTypes, FilesTypeOK, fileVars, Absent
<1>1. CASE PollTask
  <2>1. ASSUME NEW p \in Paths, Looks(p)
        PROVE  /\ atimeCache' \in [Paths -> Nat \cup {Absent}]
               /\ queue' \in Seq(Paths)
    <3>1. Append(queue, p) \in Seq(Paths)
      BY AppendProperties
    <3> QED
      BY <2>1, <3>1 DEF Looks
  <2> QED
    BY <1>1, <2>1, PollEffect
<1>2. CASE ProcessTask
  <2>1. queue # <<>> => Tail(queue) \in Seq(Paths)
    BY HeadTailProperties
  <2> QED
    BY <1>2, <2>1 DEF ProcessTask, ProcessResume, Suppress, ProcessWait, monitorVars,
       pollVars, processVars
<1>3. CASE StartSearch
  BY <1>3, HeadTailProperties DEF StartSearch, LetThrough, pollVars
<1>4. CASE Search
  BY <1>4 DEF Search, vars, monitorVars
<1>5. CASE Attribute
  <2>1. PICK q \in Pids : Dispatch(q)
    BY <1>5 DEF Attribute
  <2>2. [pid |-> q, path |-> attributing] \in [pid : Pids, path : Paths]
    BY <2>1 DEF Dispatch
  <2>3. ready' \in Seq([pid : Pids, path : Paths])
    BY <2>1, <2>2, AppendProperties DEF Dispatch
  <2> QED
    BY <2>1, <2>3 DEF Dispatch, pollVars
<1>6. CASE GiveUp
  BY <1>6 DEF GiveUp, Unattributed, pollVars
<1>7. ASSUME NEW c \in Calls, CallbackStart(c) PROVE PipeTypes'
  BY <1>7, HeadTailProperties DEF CallbackStart, pollVars, processVars
<1>8. ASSUME NEW c \in Calls, CallbackStep(c) \/ Post(c) PROVE PipeTypes'
  BY <1>8 DEF CallbackStep, Post, vars, monitorVars
<1>9. CASE CtrlC \/ TimePasses
  BY <1>9 DEF CtrlC, Cancel, TimePasses, Tick, vars, monitorVars, pollVars,
     processVars
<1>10. ASSUME NEW p \in Paths, CanaryRemoved(p) \/ CanaryCreated(p) PROVE PipeTypes'
  BY <1>10 DEF CanaryRemoved, RemoveCanary, Remove, CanaryCreated, Create, monitorVars,
     pollVars, processVars
<1>11. ASSUME NEW p \in Paths, NEW q \in Pids, ReaderReads(q, p) \/ ReaderCloses(q, p)
       PROVE  PipeTypes'
  BY <1>11 DEF ReaderReads, ReadCanary, Read, ReaderCloses, vars, monitorVars, pollVars,
     processVars
<1>12. ASSUME NEW q \in Pids, ProcessChanges(q) PROVE PipeTypes'
  BY <1>12 DEF ProcessChanges, vars, monitorVars
<1>13. CASE UNCHANGED runVars
  BY <1>13 DEF runVars, vars, monitorVars
<1> QED
  BY <1>1, <1>2, <1>3, <1>4, <1>5, <1>6, <1>7, <1>8, <1>9, <1>10, <1>11, <1>12, <1>13
  DEF RunNext

\* Files, cache and clock stay in their order.
LEMMA ClockStep == PipeTypes /\ ClockInv /\ [RunNext]_runVars => ClockInv'
<1> SUFFICES ASSUME PipeTypes, ClockInv, [RunNext]_runVars PROVE ClockInv'
  OBVIOUS
<1> USE TimeAssumption DEF PipeTypes, FilesTypeOK, fileVars, Absent, ClockInv, Present
<1>1. CASE PollTask
  <2>1. ASSUME NEW p \in Paths, Looks(p), UNCHANGED <<fileVars, touches>> PROVE ClockInv'
    BY <2>1 DEF Looks
  <2>2. CASE UNCHANGED <<fileVars, touches, atimeCache>>
    BY <2>2
  <2> QED
    BY <1>1, <2>1, <2>2, PollEffect
<1>2. CASE ProcessTask
  BY <1>2 DEF ProcessTask, ProcessResume, Suppress, ProcessWait,
     monitorVars, pollVars, historyVars
<1>3. CASE StartSearch \/ Search \/ Attribute \/ GiveUp
  BY <1>3 DEF StartSearch, LetThrough, Search, Attribute, Dispatch, GiveUp, Unattributed, vars,
     monitorVars, pollVars, historyVars
<1>4. ASSUME NEW c \in Calls, CallbackStart(c) \/ CallbackStep(c) \/ Post(c) PROVE ClockInv'
  BY <1>4 DEF CallbackStart, CallbackStep, Post, vars, monitorVars, pollVars, historyVars
<1>5. CASE CtrlC
  BY <1>5 DEF CtrlC, Cancel, vars, monitorVars, pollVars, historyVars
<1>6. CASE TimePasses
  BY <1>6 DEF TimePasses, Tick, monitorVars, historyVars
<1>7. ASSUME NEW p \in Paths, CanaryRemoved(p) PROVE ClockInv'
  BY <1>7 DEF CanaryRemoved, RemoveCanary, Remove, pollVars, historyVars
<1>8. ASSUME NEW p \in Paths, UNCHANGED <<clock, atimeCache>>,
             touches' = touches \cup {<<p, clock>>},
             \A r \in Paths : atime'[r] = atime[r] \/ (r = p /\ atime'[r] = clock)
      PROVE  ClockInv'
  <2>1. touches' \subseteq Paths \X Nat
    BY <1>8
  <2>2. IsFiniteSet(touches')
    BY <1>8, FS_AddElement
  <2>3. touches \subseteq touches' /\ <<p, clock>> \in touches'
    BY <1>8
  <2>4. ASSUME NEW r \in Paths, Present(r)'
        PROVE  /\ StartTime <= atime'[r] /\ atime'[r] <= clock'
               /\ atime'[r] = StartTime \/ <<r, atime'[r]>> \in touches'
    BY <1>8, <2>3, <2>4
  <2>5. ASSUME NEW r \in Paths, atimeCache'[r] # Absent
        PROVE  /\ StartTime <= atimeCache'[r] /\ atimeCache'[r] <= clock'
               /\ Present(r)' => atimeCache'[r] <= atime'[r]
    BY <1>8, <2>5
  <2> QED
    BY <1>8, <2>1, <2>2, <2>4, <2>5
<1>9. ASSUME NEW p \in Paths, CanaryCreated(p) PROVE ClockInv'
  <2>1. /\ UNCHANGED <<clock, atimeCache>> /\ touches' = touches \cup {<<p, clock>>}
        /\ \A r \in Paths : atime'[r] = atime[r] \/ (r = p /\ atime'[r] = clock)
    BY <1>9 DEF CanaryCreated, Create, monitorVars
  <2> QED
    BY <1>8, <2>1
<1>10. ASSUME NEW p \in Paths, NEW q \in Pids, ReaderReads(q, p) PROVE ClockInv'
  <2>1. /\ UNCHANGED <<clock, atimeCache>> /\ touches' = touches \cup {<<p, clock>>}
        /\ \A r \in Paths : atime'[r] = atime[r] \/ (r = p /\ atime'[r] = clock)
    BY <1>10 DEF ReaderReads, ReadCanary, Read, pollVars
  <2> QED
    BY <1>8, <2>1
<1>11. ASSUME NEW p \in Paths, NEW q \in Pids, ReaderCloses(q, p) PROVE ClockInv'
  BY <1>11 DEF ReaderCloses, vars, monitorVars, historyVars
<1>12. ASSUME NEW q \in Pids, ProcessChanges(q) PROVE ClockInv'
  BY <1>12 DEF ProcessChanges, vars, monitorVars, historyVars
<1>13. CASE UNCHANGED runVars
  BY <1>13 DEF runVars, vars, monitorVars, historyVars
<1> QED
  BY <1>1, <1>2, <1>3, <1>4, <1>5, <1>6, <1>7, <1>9, <1>10, <1>11, <1>12, <1>13
  DEF RunNext

\* What there is to count is finite.
LEMMA Counts ==
  ASSUME PipeTypes, ClockInv, PipelineInv
  PROVE  /\ IsFiniteSet(Known) /\ Cardinality(Known) \in Nat
         /\ Cardinality(Started) \in Nat
         /\ Len(ready) \in Nat /\ Len(queue) \in Nat /\ InHand \in Nat
<1>1. IsFiniteSet(Known)
  <2>1. Known \subseteq touches /\ IsFiniteSet(touches)
    BY DEF Known, ClockInv
  <2> QED
    BY <2>1, FS_Subset
<1>2. Cardinality(Known) \in Nat /\ Cardinality(Started) \in Nat
  BY <1>1, FS_CardinalityType DEF PipelineInv
<1>3. Len(ready) \in Nat /\ Len(queue) \in Nat
  BY LenProperties DEF PipeTypes
<1> QED
  BY <1>1, <1>2, <1>3 DEF InHand

\* No access is forgotten once the cache has caught up with it.
LEMMA KnownGrows ==
  ASSUME PipeTypes, ClockInv, ClockInv', touches \subseteq touches',
         UNCHANGED atimeCache \/ \E p \in Paths : Looks(p)
  PROVE  /\ Known \subseteq Known' /\ IsFiniteSet(Known')
         /\ Cardinality(Known) <= Cardinality(Known') /\ Cardinality(Known') \in Nat
<1>1. ASSUME NEW p \in Paths, atimeCache[p] # Absent
      PROVE  /\ atimeCache'[p] # Absent /\ atimeCache'[p] \in Nat
             /\ atimeCache[p] <= atimeCache'[p]
  <2>1. ASSUME NEW r \in Paths, Looks(r)
        PROVE  /\ atimeCache'[p] # Absent /\ atimeCache'[p] \in Nat
               /\ atimeCache[p] <= atimeCache'[p]
    <3> USE DEF PipeTypes, FilesTypeOK, Absent
    <3>1. atimeCache[p] \in Nat /\ atimeCache' = [atimeCache EXCEPT ![r] = atime[r]]
      BY <1>1, <2>1 DEF Looks
    <3>2. CASE r # p
      BY <3>1, <3>2
    <3>3. CASE r = p
      <4>1. atimeCache'[p] = atime[p] /\ Present(p)
        BY <1>1, <2>1, <3>1, <3>3 DEF Looks, Advanced
      <4>2. atimeCache[p] <= atime[p] /\ atime[p] \in Nat
        BY <1>1, <4>1 DEF ClockInv, Present
      <4> QED
        BY <4>1, <4>2
    <3> QED
      BY <3>2, <3>3
  <2> QED
    BY <1>1, <2>1 DEF PipeTypes, Absent
<1>2. Known \subseteq Known'
  <2> SUFFICES ASSUME NEW e \in Known PROVE e \in Known'
    OBVIOUS
  <2>1. e[1] \in Paths /\ e[2] \in Nat /\ atimeCache[e[1]] \in Nat
    BY DEF Known, ClockInv, PipeTypes, Absent
  <2>2. atimeCache'[e[1]] # Absent /\ e[2] <= atimeCache'[e[1]]
    BY <1>1, <2>1 DEF Known
  <2> QED
    BY <2>2 DEF Known
<1>3. IsFiniteSet(Known')
  <2>1. Known' \subseteq touches' /\ IsFiniteSet(touches')
    BY DEF Known, ClockInv
  <2> QED
    BY <2>1, FS_Subset
<1> QED
  BY <1>2, <1>3, FS_Subset, FS_CardinalityType

\* An access that is queued was not known before.
LEMMA QueuedIsNew ==
  ASSUME PipeTypes, ClockInv, ClockInv', UNCHANGED touches, NEW p \in Paths, Looks(p),
         Advanced(p)
  PROVE  Cardinality(Known) + 1 <= Cardinality(Known')
<1> DEFINE e == <<p, atime[p]>>
<1> USE DEF PipeTypes, FilesTypeOK, Present, Advanced, Absent
<1>1. atime[p] \in Nat /\ atimeCache[p] \in Nat /\ atimeCache[p] < atime[p]
      /\ StartTime <= atimeCache[p]
  BY DEF ClockInv
<1>2. e \in touches
  BY <1>1, TimeAssumption DEF ClockInv
<1>3. e \notin Known
  BY <1>1 DEF Known
<1>4. e \in Known'
  <2>1. atimeCache'[p] = atime[p]
    BY DEF Looks
  <2> QED
    BY <1>1, <1>2, <2>1 DEF Known
<1>5. /\ Known \subseteq Known' /\ IsFiniteSet(Known')
  BY KnownGrows
<1>6. Known \cup {e} \subseteq Known'
  BY <1>4, <1>5
<1>7. IsFiniteSet(Known) /\ IsFiniteSet(Known \cup {e})
  BY <1>5, <1>6, FS_Subset
<1>8. Cardinality(Known \cup {e}) = Cardinality(Known) + 1
  BY <1>3, <1>7, FS_AddElement
<1>9. Cardinality(Known \cup {e}) <= Cardinality(Known')
  BY <1>5, <1>6, FS_Subset
<1> QED
  BY <1>8, <1>9

\* Events move on, are dropped, or become a call; none comes from nowhere.
LEMMA PipelineStep ==
  /\ PipeTypes /\ ClockInv /\ ClockInv' /\ CallTypes /\ CallInv
  /\ PipelineInv /\ [RunNext]_runVars
  => PipelineInv'
<1> SUFFICES ASSUME PipeTypes, ClockInv, ClockInv', CallTypes, CallInv, PipelineInv,
                    [RunNext]_runVars
             PROVE  PipelineInv'
  OBVIOUS
<1> USE MonitorAssumption
<1>c. /\ IsFiniteSet(Started) /\ Cardinality(Started) \in Nat /\ Cardinality(Known) \in Nat
      /\ Len(ready) \in Nat /\ Len(queue) \in Nat /\ InHand \in Nat
      /\ Cardinality(Started) + Len(ready) + InHand + Len(queue) <= Cardinality(Known)
  BY Counts DEF PipelineInv
\* Whatever leaves calls and pipeline alone, or shortens it.
<1>q. ASSUME UNCHANGED <<atimeCache, Started>>, touches \subseteq touches',
             InHand' \in Nat, Len(ready') \in Nat, Len(queue') \in Nat,
             Len(ready') + InHand' + Len(queue') <= Len(ready) + InHand + Len(queue)
      PROVE  PipelineInv'
  <2>1. Cardinality(Known) <= Cardinality(Known') /\ Cardinality(Known') \in Nat
    BY <1>q, KnownGrows
  <2>2. Started' = Started
    BY <1>q
  <2>3. Cardinality(Started) + Len(ready') + InHand' + Len(queue') <= Cardinality(Known')
    <3> DEFINE i == InHand
               j == InHand'
               k == Cardinality(Known)
               l == Cardinality(Known')
               n == Cardinality(Started)
               a == Len(ready)
               b == Len(ready')
               x == Len(queue)
               y == Len(queue')
    <3>1. /\ n \in Nat /\ a \in Nat /\ i \in Nat /\ x \in Nat /\ k \in Nat
          /\ b \in Nat /\ j \in Nat /\ y \in Nat /\ l \in Nat
          /\ n + a + i + x <= k /\ b + j + y <= a + i + x /\ k <= l
      BY <1>q, <1>c, <2>1
    <3> HIDE DEF i, j, k, l, n, a, b, x, y
    <3>2. n + b + j + y <= l
      BY <3>1
    <3> QED
      BY <3>2 DEF n, b, j, y, l
  <2> QED
    BY <1>c, <2>2, <2>3 DEF PipelineInv
<1>s. ASSUME UNCHANGED <<atimeCache, queue, attributing, ready, Started>>,
             touches \subseteq touches'
      PROVE  PipelineInv'
  <2>1. InHand' = InHand
    BY <1>s DEF InHand
  <2> QED
    BY <1>c, <1>q, <1>s, <2>1
<1>1. CASE PollTask
  <2>1. UNCHANGED <<fileVars, attributing, ready, touches, Started, InHand>>
    BY <1>1, PollEffect DEF Started, InHand
  <2>2. CASE UNCHANGED <<atimeCache, queue>>
    BY <1>s, <2>1, <2>2
  <2>3. ASSUME NEW p \in Paths, Looks(p) PROVE PipelineInv'
    <3>1. Cardinality(Known) <= Cardinality(Known') /\ Cardinality(Known') \in Nat
      BY <2>1, <2>3, KnownGrows
    <3>2. CASE Advanced(p) /\ queue' = Append(queue, p)
      <4>1. Len(queue') = Len(queue) + 1
        BY <3>2, AppendProperties DEF PipeTypes
      <4>2. Cardinality(Known) + 1 <= Cardinality(Known')
        BY <2>1, <2>3, <3>2, QueuedIsNew
      <4> QED
        BY <1>c, <2>1, <3>1, <4>1, <4>2 DEF PipelineInv
    <3>3. CASE UNCHANGED queue
      BY <1>c, <2>1, <3>1, <3>3 DEF PipelineInv
    <3> QED
      BY <2>3, <3>2, <3>3 DEF Looks
  <2> QED
    BY <1>1, <2>2, <2>3, PollEffect
<1>2. CASE ProcessTask
  <2>1. UNCHANGED <<atimeCache, attributing, ready, touches, Started, InHand>>
    BY <1>2 DEF ProcessTask, ProcessResume, Suppress, ProcessWait, monitorVars, pollVars,
       processVars, callVars, historyVars, Started, InHand
  <2>2. CASE UNCHANGED queue
    BY <1>s, <2>1, <2>2
  <2>3. CASE queue # <<>> /\ queue' = Tail(queue)
    <3>1. Len(queue') = Len(queue) - 1 /\ Len(queue') \in Nat
      BY <2>3, HeadTailProperties, EmptySeq, LenProperties DEF PipeTypes
    <3> QED
      BY <1>c, <1>q, <2>1, <3>1
  <2> QED
    BY <1>2, <2>2, <2>3 DEF ProcessTask, ProcessResume, Suppress, ProcessWait, monitorVars
<1>3. CASE StartSearch
  <2>1. /\ UNCHANGED <<atimeCache, ready, touches, Started>>
        /\ queue # <<>> /\ queue' = Tail(queue) /\ attributing = NoPath
    BY <1>3 DEF StartSearch, LetThrough, pollVars, callVars, historyVars, Started
  <2>2. Len(queue') = Len(queue) - 1 /\ Len(queue') \in Nat
    BY <2>1, HeadTailProperties, EmptySeq, LenProperties DEF PipeTypes
  <2>3. InHand = 0 /\ InHand' \in {0, 1}
    BY <2>1 DEF InHand
  <2> QED
    BY <1>c, <1>q, <2>1, <2>2, <2>3
<1>4. CASE Search
  BY <1>4, <1>s DEF Search, vars, monitorVars, callVars, historyVars, Started
<1>5. CASE Attribute
  <2>1. PICK q \in Pids : Dispatch(q)
    BY <1>5 DEF Attribute
  <2>2. /\ UNCHANGED <<atimeCache, queue, touches, Started>>
        /\ attributing # NoPath /\ attributing' = NoPath
        /\ ready' = Append(ready, [pid |-> q, path |-> attributing])
    BY <1>5, <2>1 DEF Attribute, Dispatch, pollVars, callVars, historyVars, Started
  <2>3. [pid |-> q, path |-> attributing] \in [pid : Pids, path : Paths]
    BY <2>2 DEF PipeTypes
  <2>4. Len(ready') = Len(ready) + 1
    BY <2>2, <2>3, AppendProperties DEF PipeTypes
  <2>5. InHand = 1 /\ InHand' = 0
    BY <2>2 DEF InHand
  <2> QED
    BY <1>c, <1>q, <2>2, <2>4, <2>5
<1>6. CASE GiveUp
  <2>1. /\ UNCHANGED <<atimeCache, queue, ready, touches, Started>>
        /\ attributing # NoPath /\ attributing' = NoPath
    BY <1>6 DEF GiveUp, Unattributed, pollVars, callVars, historyVars, Started
  <2>2. InHand = 1 /\ InHand' = 0
    BY <2>1 DEF InHand
  <2> QED
    BY <1>c, <1>q, <2>1, <2>2
<1>7. ASSUME NEW c \in Calls, CallbackStart(c) PROVE PipelineInv'
  <2>1. UNCHANGED <<atimeCache, queue, touches, InHand>> /\ ready # <<>> /\ ready' = Tail(ready)
    BY <1>7 DEF CallbackStart, pollVars, processVars, historyVars, InHand
  <2>2. Len(ready') = Len(ready) - 1
    BY <2>1, HeadTailProperties, EmptySeq, LenProperties DEF PipeTypes
  <2>3. Cardinality(Known) <= Cardinality(Known') /\ Cardinality(Known') \in Nat
    BY <2>1, KnownGrows
  <2>4. Started' = Started \cup {c} /\ c \notin Started
    BY <1>7 DEF CallbackStart, Call, Started, CallTypes, CallsTypeOK
  <2>5. IsFiniteSet(Started') /\ Cardinality(Started') = Cardinality(Started) + 1
    BY <1>c, <2>4, FS_AddElement
  <2> QED
    BY <1>c, <2>1, <2>2, <2>3, <2>5 DEF PipelineInv
<1>8. ASSUME NEW c \in Calls, CallbackStep(c) PROVE PipelineInv'
  <2>1. Started' = Started
    BY <1>8, CallEffect DEF CallbackStep, Started, CallTypes, CallsTypeOK
  <2> QED
    BY <1>8, <1>s, <2>1 DEF CallbackStep, monitorVars, historyVars
<1>9. ASSUME NEW c \in Calls, Post(c) PROVE PipelineInv'
  BY <1>9, <1>s DEF Post, vars, monitorVars, callVars, historyVars, Started
<1>10. CASE CtrlC \/ TimePasses
  BY <1>10, <1>s DEF CtrlC, Cancel, TimePasses, vars, monitorVars, pollVars, processVars, callVars,
     historyVars, Started
<1>11. ASSUME NEW p \in Paths, CanaryRemoved(p) \/ CanaryCreated(p) PROVE PipelineInv'
  BY <1>11, <1>s DEF CanaryRemoved, RemoveCanary, CanaryCreated, monitorVars, pollVars,
     processVars, callVars, historyVars, Started
<1>12. ASSUME NEW p \in Paths, NEW q \in Pids, ReaderReads(q, p) \/ ReaderCloses(q, p)
       PROVE  PipelineInv'
  BY <1>12, <1>s DEF ReaderReads, ReadCanary, ReaderCloses, vars, monitorVars, pollVars,
     processVars, callVars, historyVars, Started
<1>13. ASSUME NEW q \in Pids, ProcessChanges(q) PROVE PipelineInv'
  BY <1>13, <1>s DEF ProcessChanges, vars, monitorVars, callVars, historyVars, Started
<1>14. CASE UNCHANGED runVars
  BY <1>14, <1>s DEF runVars, vars, monitorVars, callVars, historyVars, Started
<1> QED
  BY <1>1, <1>2, <1>3, <1>4, <1>5, <1>6, <1>7, <1>8, <1>9, <1>10, <1>11, <1>12, <1>13, <1>14
  DEF RunNext

\* A report is counted, and given to a thread, in the step that makes it.
LEMMA RecordStep ==
  /\ CallTypes /\ CallInv /\ RunTypeOK /\ RecordInv /\ [RunNext]_runVars => RecordInv'
<1> SUFFICES ASSUME CallTypes, CallInv, RunTypeOK, RecordInv, [RunNext]_runVars
             PROVE  RecordInv'
  OBVIOUS
<1>s. ASSUME UNCHANGED <<threats, posting, posted, unprinted, outcome>> PROVE RecordInv'
  BY <1>s DEF RecordInv, Reported
<1>1. CASE PollTask \/ ProcessTask
  BY <1>1, <1>s DEF PollTask, ProcessTask, callVars, cliVars
<1>2. CASE StartSearch \/ Search \/ Attribute \/ GiveUp
  BY <1>2, <1>s DEF StartSearch, Search, Attribute, GiveUp, callVars, cliVars
<1>3. ASSUME NEW c \in Calls, CallbackStart(c) PROVE RecordInv'
  <2>1. Reported' = Reported
    BY <1>3 DEF CallbackStart, Call, Reported, CallTypes, CallsTypeOK, CallInv
  <2> QED
    BY <1>3, <2>1 DEF CallbackStart, RecordInv
<1>4. ASSUME NEW c \in Calls, CallbackStep(c) PROVE RecordInv'
  <2>1. outcome[c] = "pending" /\ outcome' = [outcome EXCEPT ![c] = outcome'[c]]
    BY <1>4, CallEffect DEF CallbackStep
  <2>2. CASE outcome'[c] = "report"
    <3>1. Reported' = Reported \cup {c} /\ c \notin Reported
      BY <2>1, <2>2 DEF Reported, CallTypes, CallsTypeOK
    <3>2. /\ threats' = threats + 1 /\ UNCHANGED posted
          /\ \/ posting' = posting \cup {c} /\ UNCHANGED unprinted
             \/ unprinted' = unprinted \cup {c} /\ UNCHANGED posting
      BY <1>4, <2>2 DEF CallbackStep, Counted, Notify, PrintFails
    <3>3. /\ IsFiniteSet(Reported \cup {c})
          /\ Cardinality(Reported \cup {c}) = Cardinality(Reported) + 1
      BY <3>1, FS_AddElement DEF RecordInv
    <3> QED
      BY <3>1, <3>2, <3>3 DEF RecordInv
  <2>3. CASE outcome'[c] # "report"
    <3>1. Reported' = Reported
      BY <2>1, <2>3 DEF Reported, CallTypes, CallsTypeOK
    <3> QED
      BY <1>4, <2>3, <3>1 DEF CallbackStep, RecordInv
  <2> QED
    BY <2>2, <2>3
<1>5. ASSUME NEW c \in Calls, Post(c) PROVE RecordInv'
  <2>1. UNCHANGED <<threats, unprinted, Reported>>
    BY <1>5 DEF Post, callVars, Reported
  <2>2. posting' \cup posted' = posting \cup posted
    BY <1>5 DEF Post
  <2> QED
    BY <2>1, <2>2 DEF RecordInv
<1>6. CASE CtrlC \/ TimePasses
  BY <1>6, <1>s DEF CtrlC, TimePasses, callVars, cliVars
<1>7. ASSUME NEW p \in Paths, CanaryRemoved(p) \/ CanaryCreated(p) PROVE RecordInv'
  BY <1>7, <1>s DEF CanaryRemoved, CanaryCreated, callVars, cliVars
<1>8. ASSUME NEW p \in Paths, NEW q \in Pids, ReaderReads(q, p) \/ ReaderCloses(q, p)
      PROVE  RecordInv'
  BY <1>8, <1>s DEF ReaderReads, ReaderCloses, callVars, cliVars
<1>9. ASSUME NEW q \in Pids, ProcessChanges(q) PROVE RecordInv'
  BY <1>9, <1>s DEF ProcessChanges, callVars, cliVars
<1>10. CASE UNCHANGED runVars
  BY <1>10, <1>s DEF runVars, callVars, cliVars
<1> QED
  BY <1>1, <1>2, <1>3, <1>4, <1>5, <1>6, <1>7, <1>8, <1>9, <1>10 DEF RunNext

\* The types of the search, the counters and the loop.
LEMMA RunTypeStep ==
  PipeTypes /\ CallTypes /\ RunTypeOK /\ [RunNext]_runVars => RunTypeOK'
<1> SUFFICES ASSUME PipeTypes, CallTypes, RunTypeOK, [RunNext]_runVars PROVE RunTypeOK'
  OBVIOUS
<1> USE ProcessAssumption DEF RunTypeOK, AttributionTypeOK, NoBest
<1>1. CASE PollTask \/ ProcessTask
  BY <1>1 DEF PollTask, ProcessTask, PollResume, PollStep, BaselineExists, BaselineStat,
     BaselineCrash, BaselineDone, ScanPath, PollSleep, ProcessResume, Suppress, ProcessWait,
     Resume, Suspend, tableVars, searchVars, cliVars
<1>2. CASE StartSearch
  <2>1. Listing \subseteq Pids /\ \A p \in Paths : Holders(p) \subseteq Pids
    BY DEF Listing, Holders
  <2>2. walk' \in SUBSET Pids /\ steady' \in SUBSET Pids
    BY <1>2, <2>1 DEF StartSearch, BeginSearch, Listing, Holders
  <2> QED
    BY <1>2, <2>2 DEF StartSearch, LetThrough, BeginSearch, tableVars, cliVars
<1>3. CASE Search
  <2>1. UNCHANGED <<running, cliVars>> /\ SearchStep(attributing)
    BY <1>3 DEF Search, vars
  <2>2. ASSUME BeginFallback, steady' \subseteq steady PROVE AttributionTypeOK'
    BY <2>2 DEF BeginFallback, Listing, tableVars, PipeTypes, FilesTypeOK
  <2>3. ASSUME Tier1Skip(attributing) \/ Tier1Refused PROVE AttributionTypeOK'
    BY <2>3 DEF Tier1Skip, Tier1Refused, tableVars
  <2>4. ASSUME \/ Tier1Abort \/ Tier1Exhausted \/ HoldersNotListed(attributing)
               \/ FirstHolderForeign \/ FirstHolderRefused \/ Tier1Fails
        PROVE  AttributionTypeOK'
    BY <2>2, <2>4 DEF Tier1Abort, Tier1Exhausted, HoldersNotListed, FirstHolderForeign,
       FirstHolderRefused, Tier1Fails
  <2>5. ASSUME HoldersListed(attributing) PROVE AttributionTypeOK'
    BY <2>5 DEF HoldersListed, Holders, tableVars
  <2>6. ASSUME Tier2Visit PROVE AttributionTypeOK'
    <3>1. Lowest(walk) \in Pids
      BY <2>6, LowestIsOne DEF Tier2Visit
    <3>2. [pid |-> Lowest(walk), time |-> born[Lowest(walk)]] \in [pid : Pids \cup {0}, time : Nat]
      BY <3>1
    <3>3. best' \in [pid : Pids \cup {0}, time : Nat]
      BY <2>6, <3>2 DEF Tier2Visit
    <3> QED
      BY <2>6, <3>3 DEF Tier2Visit, tableVars
  <2>7. AttributionTypeOK'
    BY <2>1, <2>3, <2>4, <2>5, <2>6, <2>2 DEF SearchStep
  <2> QED
    BY <2>1, <2>7 DEF cliVars
<1>4. CASE Attribute \/ GiveUp
  <2>1. EndSearch
    BY <1>4 DEF Attribute, GiveUp, SearchNames, SearchNamesNobody, Tier1Found, FirstHolderOurs,
       Tier2Done, ManagerFails
  <2>2. UNCHANGED <<running, cliVars>>
    BY <1>4 DEF Attribute, GiveUp, Dispatch, Unattributed
  <2> QED
    BY <2>1, <2>2 DEF EndSearch, tableVars, cliVars
<1>5. ASSUME NEW c \in Calls, CallbackStart(c) PROVE RunTypeOK'
  BY <1>5 DEF CallbackStart, Call, tableVars, searchVars
<1>6. ASSUME NEW c \in Calls, CallbackStep(c) PROVE RunTypeOK'
  <2>1. running' \in {"loop", "poll", "process"} \cup Calls
    BY <1>6 DEF CallbackStep, CallStep, CheckOwner, Acquire, VerifyOwnership, KillDenied,
       KillMissed, Kill, Snapshot, Finish, Goto, Suspend
  <2> QED
    BY <1>6, <2>1 DEF CallbackStep, Counted, Notify, PrintFails, tableVars, searchVars
<1>7. ASSUME NEW c \in Calls, Post(c) PROVE RunTypeOK'
  BY <1>7 DEF Post, vars, tableVars, searchVars
<1>8. CASE CtrlC \/ TimePasses
  BY <1>8 DEF CtrlC, Cancel, TimePasses, vars, tableVars, searchVars, cliVars
<1>9. ASSUME NEW p \in Paths, CanaryRemoved(p) \/ CanaryCreated(p) PROVE RunTypeOK'
  BY <1>9 DEF CanaryRemoved, RemoveCanary, Unlinked, CanaryCreated, tableVars, searchVars, cliVars
<1>10. ASSUME NEW p \in Paths, NEW q \in Pids, ReaderReads(q, p) \/ ReaderCloses(q, p)
       PROVE  RunTypeOK'
  <2>1. holds' \in [Pids -> SUBSET Paths]
    BY <1>10 DEF ReaderReads, Open, ReaderCloses, Close
  <2>2. UNCHANGED <<running, born, tier, walk, best, since, cliVars>>
    BY <1>10 DEF ReaderReads, ReadCanary, Open, ReaderCloses, Close, vars, searchVars
  <2>3. steady' \in SUBSET Pids
    BY <1>10 DEF ReaderReads, Open, ReaderCloses, Close, searchVars
  <2> QED
    BY <2>1, <2>2, <2>3 DEF cliVars
<1>11. ASSUME NEW q \in Pids, ProcessChanges(q) PROVE RunTypeOK'
  BY <1>11 DEF ProcessChanges, TableFollows, vars, cliVars, PipeTypes, FilesTypeOK
<1>12. CASE UNCHANGED runVars
  BY <1>12 DEF runVars, vars, tableVars, searchVars, cliVars
<1> QED
  BY <1>1, <1>2, <1>3, <1>4, <1>5, <1>6, <1>7, <1>8, <1>9, <1>10, <1>11, <1>12 DEF RunNext

\* Nobody who keeps the canary open is passed over.
LEMMA HolderStep ==
  /\ PipeTypes /\ CallTypes /\ CallInv /\ RunTypeOK /\ HolderInv /\ [RunNext]_runVars
  => HolderInv'
<1> SUFFICES ASSUME PipeTypes, CallTypes, CallInv, RunTypeOK, HolderInv, [RunNext]_runVars,
                    tier' = 1
             PROVE  /\ steady' \subseteq walk'
                    /\ \A q \in steady' : HasOpen(q, attributing)' /\ owner'[q] = User
                    /\ best' = NoBest \/ best'.pid \in Pids
  BY DEF HolderInv
<1> DEFINE Kept ==
      /\ steady' \subseteq walk'
      /\ \A q \in steady' : HasOpen(q, attributing)' /\ owner'[q] = User
      /\ best' = NoBest \/ best'.pid \in Pids
<1> USE DEF HolderInv, RunTypeOK, AttributionTypeOK
\* Nothing the search is about has changed, or holders have only become fewer.
<1>q. ASSUME UNCHANGED <<attributing, tier, walk, best>>, steady' \subseteq steady,
             \A q \in steady' : Alive(q)' /\ owner'[q] = owner[q]
                                /\ (attributing \in holds[q] => attributing \in holds'[q])
      PROVE  Kept
  BY <1>q DEF HasOpen
<1>s. ASSUME UNCHANGED <<attributing, searchVars, state, owner, holds>> PROVE Kept
  BY <1>s, <1>q DEF searchVars, HasOpen, Alive
<1>1. CASE PollTask
  BY <1>1, <1>s, PollEffect DEF PollTask, procVars, tableVars
<1>2. CASE ProcessTask
  BY <1>2, <1>s DEF ProcessTask, ProcessResume, Suppress, ProcessWait, monitorVars, processVars,
     procVars, tableVars
<1>3. CASE StartSearch
  <2>1. /\ UNCHANGED <<procVars, tableVars>> /\ attributing' = Head(queue)
        /\ BeginSearch(Head(queue))
    BY <1>3 DEF StartSearch, LetThrough, BeginSearch
  <2>2. /\ walk' = IF system = "win32" THEN Holders(Head(queue)) ELSE Listing
        /\ steady' = {q \in Listing : Alive(q) /\ Head(queue) \in holds[q] /\ owner[q] = User}
        /\ best' = NoBest
    BY <2>1 DEF BeginSearch
  <2>3. steady' \subseteq walk'
    BY <2>2 DEF Holders, HasOpen, Listing
  <2>4. \A q \in steady' : HasOpen(q, attributing)' /\ owner'[q] = User
    BY <2>1, <2>2 DEF HasOpen, Alive, procVars, tableVars
  <2> QED
    BY <2>2, <2>3, <2>4
<1>4. CASE Search
  <2>1. /\ UNCHANGED <<attributing, state, owner, holds>> /\ SearchStep(attributing)
    BY <1>4 DEF Search, SearchStep, Tier1Skip, Tier1Refused, Tier1Abort, Tier1Exhausted,
       HoldersListed, HoldersNotListed, FirstHolderForeign, FirstHolderRefused, Tier1Fails,
       Tier2Visit, BeginFallback, vars, monitorVars, procVars, tableVars
  <2>2. CASE Tier1Skip(attributing)
    <3>1. /\ UNCHANGED <<best, steady, tier>> /\ walk' = walk \ {Lowest(walk)}
          /\ ~(HasOpen(Lowest(walk), attributing) /\ owner[Lowest(walk)] = User)
      BY <2>2 DEF Tier1Skip
    <3>2. Lowest(walk) \notin steady
      BY <3>1
    <3> QED
      BY <2>1, <3>1, <3>2 DEF HasOpen, Alive
  <2>3. CASE HoldersListed(attributing)
    <3>1. UNCHANGED <<tier, walk, steady>> /\ best'.pid \in Pids
      BY <2>3 DEF HoldersListed, Holders
    <3> QED
      BY <2>1, <3>1 DEF HasOpen, Alive
  <2>4. CASE \/ Tier1Abort \/ Tier1Exhausted \/ HoldersNotListed(attributing)
             \/ FirstHolderForeign \/ FirstHolderRefused \/ Tier1Fails \/ Tier2Visit
    <3>1. tier' = 2
      BY <2>4 DEF Tier1Abort, Tier1Exhausted, HoldersNotListed, FirstHolderForeign,
         FirstHolderRefused, Tier1Fails, Tier2Visit, BeginFallback
    <3> QED
      BY <3>1
  <2>5. CASE Tier1Refused
    <3>1. /\ UNCHANGED <<best, tier>> /\ walk' = walk \ {Lowest(walk)}
          /\ steady' = steady \ {Lowest(walk)}
      BY <2>5 DEF Tier1Refused
    <3> QED
      BY <2>1, <3>1 DEF HasOpen, Alive
  <2> QED
    BY <2>1, <2>2, <2>3, <2>4, <2>5 DEF SearchStep
<1>5. CASE Attribute \/ GiveUp
  <2>1. tier' = 0
    BY <1>5 DEF Attribute, GiveUp, SearchNames, SearchNamesNobody, Tier1Found, FirstHolderOurs,
       Tier2Done, ManagerFails, EndSearch
  <2> QED
    BY <2>1
<1>6. ASSUME NEW c \in Calls, CallbackStart(c) PROVE Kept
  BY <1>6, <1>s DEF CallbackStart, Call, processVars, procVars, tableVars
<1>7. ASSUME NEW c \in Calls, CallbackStep(c) PROVE Kept
  <2>1. UNCHANGED owner /\ \A q \in Pids : Alive(q)' <=> Alive(q)
    BY <1>7, CallEffect DEF CallbackStep
  <2>2. UNCHANGED <<attributing, tier, walk, best, steady, holds>>
    BY <1>7 DEF CallbackStep, monitorVars, searchVars, tableVars
  <2> QED
    BY <1>q, <2>1, <2>2 DEF HasOpen
<1>8. ASSUME NEW c \in Calls, Post(c) PROVE Kept
  BY <1>8, <1>s DEF Post, vars, monitorVars, procVars, tableVars
<1>9. CASE CtrlC \/ TimePasses
  BY <1>9, <1>s DEF CtrlC, Cancel, TimePasses, vars, monitorVars, processVars, procVars, tableVars
<1>10. ASSUME NEW p \in Paths, CanaryRemoved(p) PROVE Kept
  <2>1. /\ UNCHANGED <<attributing, tier, walk, best>> /\ steady' = {}
    BY <1>10 DEF CanaryRemoved, RemoveCanary, Unlinked, processVars
  <2> QED
    BY <1>q, <2>1
<1>11. ASSUME NEW p \in Paths, CanaryCreated(p) PROVE Kept
  BY <1>11, <1>s DEF CanaryCreated, monitorVars, procVars, tableVars
<1>12. ASSUME NEW p \in Paths, NEW q \in Pids, ReaderReads(q, p) PROVE Kept
  <2>1. UNCHANGED <<attributing, searchVars, state, owner>>
    BY <1>12 DEF ReaderReads, ReadCanary, Open, processVars, procVars
  <2>2. holds' = [holds EXCEPT ![q] = holds[q] \cup {p}]
    BY <1>12 DEF ReaderReads, Open
  <2> QED
    BY <1>q, <2>1, <2>2 DEF searchVars, HasOpen, Alive
<1>13. ASSUME NEW p \in Paths, NEW q \in Pids, ReaderCloses(q, p) PROVE Kept
  <2>1. UNCHANGED <<attributing, tier, walk, best, state, owner>> /\ steady' = steady \ {q}
    BY <1>13 DEF ReaderCloses, Close, vars, monitorVars, procVars
  <2>2. holds' = [holds EXCEPT ![q] = holds[q] \ {p}]
    BY <1>13 DEF ReaderCloses, Close
  <2> QED
    BY <1>q, <2>1, <2>2 DEF HasOpen, Alive
<1>14. ASSUME NEW r \in Pids, ProcessChanges(r) PROVE Kept
  <2>1. UNCHANGED <<attributing, tier, walk, best>> /\ ProcessEvent(r)
    BY <1>14 DEF ProcessChanges, TableFollows, vars, monitorVars
  <2>2. steady' \subseteq steady
    BY <1>14 DEF ProcessChanges, TableFollows
  <2>3. ASSUME NEW q \in steady' PROVE /\ Alive(q)' /\ owner'[q] = owner[q] /\ holds'[q] = holds[q]
    <3>1. q \in steady /\ Alive(q) /\ q \in Pids
      BY <2>1, <2>2 DEF HasOpen
    <3>2. CASE q # r
      BY <1>14, <2>1, <3>1, <3>2 DEF ProcessChanges, TableFollows, ProcessEvent, Spawn, Exit,
         Reap, Continue, Alive, CallTypes, ProcessesTypeOK
    <3>3. CASE q = r
      BY <1>14, <2>1, <2>3, <3>1, <3>3 DEF ProcessChanges, TableFollows, ProcessEvent, Spawn, Exit,
         Reap, Continue, Alive, Exists, CallTypes, ProcessesTypeOK
    <3> QED
      BY <3>2, <3>3
  <2> QED
    BY <1>q, <2>1, <2>2, <2>3
<1>15. CASE UNCHANGED runVars
  BY <1>15, <1>s DEF runVars, vars, monitorVars, procVars, tableVars
<1> QED
  BY <1>1, <1>2, <1>3, <1>4, <1>5, <1>6, <1>7, <1>8, <1>9, <1>10, <1>11, <1>12, <1>13, <1>14, <1>15
  DEF RunNext

-----------------------------------------------------------------------------
(* The invariant holds, and with it the properties.                        *)

\* Every reachable state of the program satisfies the inductive invariant.
THEOREM RunInvariance == RunSpec => []RunInv
<1>1. RunInit => RunInv
  <2> SUFFICES ASSUME RunInit PROVE RunInv
    OBVIOUS
  <2> USE DEF RunInit, Init
  <2>1. PipeTypes
    BY TimeAssumption, EmptySeq DEF PipeTypes, FilesInit, FilesTypeOK, Absent
  <2>2. MitigatorInv
    <3>1. MitigatorInit
      BY DEF MitigatorInit
    <3> QED
      BY <3>1, MitigatorInvInit
  <2>3. RunTypeOK
    <3>1. AttributionTypeOK
      BY DEF AttributionInit, AttributionTypeOK, NoBest
    <3> QED
      BY <3>1 DEF RunTypeOK
  <2>4. ClockInv
    BY TimeAssumption, FS_EmptySet DEF ClockInv, FilesInit, Present, Absent
  <2>5. PipelineInv
    <3>1. Started = {} /\ Known = {}
      BY DEF CallsInit, Started, Known
    <3>2. Len(ready) = 0 /\ Len(queue) = 0 /\ InHand = 0
      BY DEF InHand
    <3> QED
      BY <3>1, <3>2, FS_EmptySet DEF PipelineInv
  <2>6. RecordInv
    <3>1. Reported = {}
      BY DEF CallsInit, Reported
    <3> QED
      BY <3>1, FS_EmptySet DEF RecordInv
  <2>7. HolderInv
    BY DEF AttributionInit, HolderInv
  <2> QED
    BY <2>1, <2>2, <2>3, <2>4, <2>5, <2>6, <2>7 DEF RunInv
<1>2. RunInv /\ [RunNext]_runVars => RunInv'
  <2> SUFFICES ASSUME RunInv, [RunNext]_runVars PROVE RunInv'
    OBVIOUS
  <2>1. PipeTypes' /\ MitigatorInv'
    BY PipeTypeStep, CallsSee, MitigatorStep DEF RunInv
  <2>2. ClockInv'
    BY ClockStep DEF RunInv
  <2>3. CallTypes /\ CallInv
    BY DEF RunInv, MitigatorInv
  <2> QED
    BY <2>1, <2>2, <2>3, PipelineStep, RecordStep, RunTypeStep, HolderStep DEF RunInv
<1> QED
  BY <1>1, <1>2, PTL DEF RunSpec

\* The composition's own variables keep their types.
THEOREM RunTypeCorrect == RunSpec => []RunTypeOK
BY RunInvariance, PTL DEF RunInv

\* The engine sends at most one SIGSTOP for each canary access there was.
THEOREM OneStopForAnAccess == RunSpec => []OneStopPerAccess
<1>1. RunInv => OneStopPerAccess
  <2> SUFFICES ASSUME RunInv PROVE OneStopPerAccess
    OBVIOUS
  <2>1. /\ IsFiniteSet(Started) /\ Cardinality(Started) \in Nat /\ Cardinality(Known) \in Nat
        /\ Len(ready) \in Nat /\ Len(queue) \in Nat /\ InHand \in Nat
        /\ Cardinality(Started) + Len(ready) + InHand + Len(queue) <= Cardinality(Known)
    BY Counts DEF RunInv, PipelineInv
  <2>2. Signalling \subseteq Started
    BY DEF RunInv, MitigatorInv, CallInv, Signalling, Started
  <2>3. Cardinality(Signalling) <= Cardinality(Started) /\ Cardinality(Signalling) \in Nat
    BY <2>1, <2>2, FS_Subset, FS_CardinalityType
  <2>4. Known \subseteq touches /\ IsFiniteSet(touches)
    BY DEF RunInv, ClockInv, Known
  <2>5. Cardinality(Known) <= Cardinality(touches) /\ Cardinality(touches) \in Nat
    BY <2>4, FS_Subset, FS_CardinalityType
  <2> QED
    BY <2>1, <2>3, <2>5 DEF OneStopPerAccess
<1> QED
  BY <1>1, RunInvariance, PTL

\* A stopped process is counted, and its incident is at the notifier or could
\* not be printed, unless its snapshot is pending or failed.
THEOREM StopsAreOnRecord == RunSpec => []StopsOnRecord
<1>1. RunInv => StopsOnRecord
  <2> SUFFICES ASSUME RunInv PROVE StopsOnRecord
    OBVIOUS
  <2>1. posting \cup posted \cup unprinted = Reported /\ threats = Cardinality(Reported)
    BY DEF RunInv, RecordInv
  <2>2. ASSUME NEW q \in Pids, state[q] = "stopped"
        PROVE  \E c \in Calls :
                 /\ target[c] = q /\ signalled[c] = gen[q]
                 /\ \/ pc[c] = "snapshot"
                    \/ outcome[c] = "SnapshotError"
                    \/ c \in posting \cup posted \cup unprinted
    <3>1. PICK c \in Calls : AnswersFor(c, q)
      BY <2>2 DEF RunInv, MitigatorInv, StopsInv
    <3>2. gen[q] # Nobody
      BY DEF RunInv, MitigatorInv, CallTypes, ProcessesTypeOK, Nobody
    <3>3. outcome[c] = "pending" => pc[c] = "snapshot"
      BY <3>1, <3>2 DEF RunInv, MitigatorInv, CallInv, CallTypes, CallsTypeOK, AnswersFor
    <3> QED
      BY <2>1, <3>1, <3>3 DEF AnswersFor, Reported
  <2> QED
    BY <2>1, <2>2 DEF StopsOnRecord
<1> QED
  BY <1>1, RunInvariance, PTL

\* Tier 1 does not give up on a canary that a process of ours keeps open and the
\* system shows to it, but in the cases HolderNotMissed names.
THEOREM HoldersAreNotMissed == RunSpec => HolderNotMissed
<1> DEFINE Excused ==
      \/ steady' = {}
      \/ system = "linux" /\ walk # {}
      \/ system = "win32" /\ \E q \in Pids \ steady' : Interferes(q)
<1>1. RunInv /\ [RunNext]_runVars => [tier = 1 /\ tier' = 2 => Excused]_runVars
  <2> SUFFICES ASSUME RunInv, RunNext, tier = 1, tier' = 2 PROVE Excused
    BY DEF RunInv
  <2> USE DEF RunInv, HolderInv
  <2>1. Search
    BY DEF RunNext, PollTask, ProcessTask, StartSearch, BeginSearch, Attribute, GiveUp,
       SearchNames, SearchNamesNobody, Tier1Found, FirstHolderOurs, Tier2Done, ManagerFails,
       EndSearch, CallbackStart, CallbackStep, Post, CtrlC, TimePasses, CanaryRemoved, Unlinked,
       CanaryCreated, ReaderReads, Open, ReaderCloses, Close, ProcessChanges, TableFollows,
       searchVars
  <2>2. /\ steady \subseteq walk /\ walk \subseteq Pids
        /\ \A q \in steady : HasOpen(q, attributing) /\ owner[q] = User
        /\ best = NoBest \/ best.pid \in Pids
    BY DEF RunTypeOK, AttributionTypeOK
  <2>3. CASE Tier1Abort
    BY <2>3 DEF Tier1Abort
  <2>4. CASE Tier1Exhausted
    BY <2>2, <2>4 DEF Tier1Exhausted
  <2>5. CASE HoldersNotListed(attributing)
    <3>1. CASE walk = {} \/ Holders(attributing) = {}
      <4>1. steady' = steady
        BY <2>5 DEF HoldersNotListed
      <4> QED
        BY <2>2, <3>1, <4>1 DEF Holders
    <3>2. CASE Cardinality(Holders(attributing)) > Cardinality(walk)
      <4>1. IsFiniteSet(walk) /\ Holders(attributing) \subseteq Pids
        BY <2>2, AttributionAssumption, FS_Subset DEF Holders
      <4>2. Holders(attributing) \subseteq walk
              => Cardinality(Holders(attributing)) <= Cardinality(walk)
        BY <4>1, FS_Subset
      <4>3. Cardinality(Holders(attributing)) \in Nat /\ Cardinality(walk) \in Nat
        BY <4>1, AttributionAssumption, FS_Subset, FS_CardinalityType
      <4>4. PICK q \in Holders(attributing) : q \notin walk
        BY <3>2, <4>2, <4>3
      <4>5. q \in Pids \ steady' /\ Interferes(q)
        BY <2>2, <2>5, <4>1, <4>4 DEF Interferes, Holders, HoldersNotListed
      <4> QED
        BY <2>5, <4>5 DEF HoldersNotListed, Asking
    <3> QED
      BY <2>5, <3>1, <3>2 DEF HoldersNotListed
  <2>6. CASE FirstHolderForeign
    <3>1. best.pid \in Pids \ steady' /\ Interferes(best.pid)
      BY <2>2, <2>6 DEF FirstHolderForeign, HasOpen, Interferes
    <3> QED
      BY <2>6, <3>1 DEF FirstHolderForeign, Asking
  <2>7. CASE FirstHolderRefused
    <3>1. best.pid \in Pids \ steady' /\ Interferes(best.pid)
      BY <2>2, <2>7 DEF FirstHolderRefused, Interferes
    <3> QED
      BY <2>7, <3>1 DEF FirstHolderRefused, Asking
  <2>8. CASE Tier1Fails
    BY <2>8 DEF Tier1Fails
  <2>9. CASE \/ Tier1Skip(attributing) \/ Tier1Refused \/ HoldersListed(attributing)
             \/ Tier2Visit
    BY <2>9 DEF Tier1Skip, Tier1Refused, HoldersListed, Tier2Visit
  <2> QED
    BY <2>1, <2>3, <2>4, <2>5, <2>6, <2>7, <2>8, <2>9 DEF Search, SearchStep
<1> QED
  BY <1>1, RunInvariance, PTL DEF RunSpec, HolderNotMissed

\* In the whole program, too, the daemon and its shell are never stopped, each
\* stopped process has its call, and no living reader is given up.
THEOREM RunIsSafe == RunSpec => [](NoSelfHarm /\ FreezesAccounted /\ LiveTargetsSignalled)
<1>1. RunInv => NoSelfHarm /\ FreezesAccounted /\ LiveTargetsSignalled
  BY DEF RunInv, MitigatorInv, FreezesAccounted, CallInv, StopsInv, AnswersFor
<1> QED
  BY <1>1, RunInvariance, PTL

\* In the whole program, too, freeze_threat() does what FreezePromise says.
THEOREM RunKeepsPromise == RunSpec => KeepsFreezePromise
<1>1. RunInit => Promise!Init
  BY PromiseInit DEF RunInit, MitigatorInit, Init
<1>2. RunInv /\ [RunNext]_runVars => [Promise!Next]_(Promise!promiseVars)
  BY CallsSee, PromiseStep DEF RunInv
<1> QED
  BY <1>1, <1>2, RunInvariance, PTL DEF RunSpec, KeepsFreezePromise, Promise!Spec

=============================================================================
