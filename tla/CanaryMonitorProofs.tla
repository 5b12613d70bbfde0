------------------------ MODULE CanaryMonitorProofs ------------------------
(* Proofs about CanaryMonitor, for all paths, times and debounce windows.  *)
EXTENDS CanaryMonitor, TLAPS, SequenceTheorems

-----------------------------------------------------------------------------
(* The inductive invariant.                                                *)

\* Control: only the baseline's stat() has a path in hand, only the process
\* task attributes, and nothing is armed before the baseline has run.
ControlInv ==
  /\ pollPc = "stat" => cur \in Paths
  /\ pollPc = "stat" /\ Up => running = "poll"
  /\ running = "poll" => pollPc # "asleep"
  /\ attributing # NoPath => running = "process"

BaselineInv ==
  /\ pollPc \in {"baseline", "stat"} => \A p \in todo : atimeCache[p] = Absent
  /\ pollPc = "stat" => cur \notin todo /\ atimeCache[cur] = Absent
  /\ pollPc = "baseline" /\ running # "poll" =>
       \A p \in Paths : atimeCache[p] = Absent

\* The wall clock, and what the debouncer remembers of it and of real time.
ClockInv ==
  /\ clock >= StartTime
  /\ "back" \notin ClockSteps => \A p \in Paths : atime[p] <= clock

DebounceInv ==
  \A p \in Paths :
    /\ handledAt[p] = Never => debouncer[p] = 0
    /\ handledAt[p] # Never =>
         /\ clock - debouncer[p] <= elapsed - handledAt[p] + leapt[p]
         /\ "back" \notin ClockSteps =>
              elapsed - handledAt[p] <= clock - debouncer[p]

\* A read of an armed canary shows in its access time until it is scanned.
ReadsInv ==
  ~RelAtime /\ "back" \notin ClockSteps => \A p \in unscanned : Advanced(p)

MonitorInv ==
  TypeOK /\ ControlInv /\ BaselineInv /\ ClockInv /\ DebounceInv /\ ReadsInv

\* Every step keeps the types.
LEMMA TypeStep == TypeOK /\ [Next]_vars => TypeOK'
<1> SUFFICES ASSUME TypeOK, [Next]_vars PROVE TypeOK'
  OBVIOUS
<1> USE TimeAssumption, MonitorAssumption
<1> USE DEF TypeOK, FilesTypeOK, fileVars, pollVars, processVars, Absent, Callback
<1>1. ASSUME PollResume PROVE TypeOK'
  BY <1>1 DEF PollResume, Resume, Idle
<1>2. ASSUME NEW p \in Paths, BaselineExists(p) PROVE TypeOK'
  BY <1>2 DEF BaselineExists, Present
<1>3. ASSUME NEW p \in Paths, ScanPath(p) PROVE TypeOK'
  BY <1>3 DEF ScanPath, Present
<1>4. ASSUME BaselineStat PROVE TypeOK'
  BY <1>4 DEF BaselineStat, Present
<1>5. ASSUME BaselineCrash PROVE TypeOK'
  BY <1>5 DEF BaselineCrash, Suspend
<1>6. ASSUME BaselineDone PROVE TypeOK'
  BY <1>6 DEF BaselineDone
<1>7. ASSUME PollSleep PROVE TypeOK'
  BY <1>7 DEF PollSleep, Suspend
<1>8. ASSUME ProcessResume PROVE TypeOK'
  BY <1>8 DEF ProcessResume, Resume, Idle, monitorVars
<1>9. ASSUME Suppress PROVE TypeOK'
  BY <1>9 DEF Suppress
<1>10. ASSUME LetThrough PROVE TypeOK'
  <2>1. Head(queue) \in Paths /\ Tail(queue) \in Seq(Paths)
    BY <1>10, HeadTailProperties DEF LetThrough
  <2>2. /\ queue' = Tail(queue) /\ attributing' = Head(queue)
        /\ debouncer' = [debouncer EXCEPT ![Head(queue)] = clock]
        /\ handledAt' = [handledAt EXCEPT ![Head(queue)] = elapsed]
        /\ leapt' = [leapt EXCEPT ![Head(queue)] = 0]
        /\ UNCHANGED <<running, fileVars, phase, pollVars, ready, unscanned>>
    BY <1>10 DEF LetThrough
  <2> DEFINE h == Head(queue)
             t == Tail(queue)
  <2> HIDE DEF h, t
  <2> QED
    BY <2>1, <2>2 DEF h, t
<1>11. ASSUME Unattributed PROVE TypeOK'
  BY <1>11 DEF Unattributed
<1>12. ASSUME ProcessWait PROVE TypeOK'
  BY <1>12 DEF ProcessWait, Suspend, monitorVars
<1>13. ASSUME NEW pid \in Suspects, Dispatch(pid) PROVE TypeOK'
  BY <1>13 DEF Dispatch
<1>14. ASSUME RunCallback PROVE TypeOK'
  BY <1>14 DEF RunCallback, Idle
<1>15. ASSUME Cancel PROVE TypeOK'
  BY <1>15 DEF Cancel, Idle
<1>16. ASSUME NEW p \in Paths, ReadCanary(p) PROVE TypeOK'
  BY <1>16 DEF ReadCanary, Read, Records, Present
<1>17. ASSUME NEW p \in Paths, RemoveCanary(p) PROVE TypeOK'
  BY <1>17 DEF RemoveCanary, Remove, Present
<1>18. ASSUME Tick /\ UNCHANGED <<running, monitorVars>> PROVE TypeOK'
  BY <1>18 DEF Tick, monitorVars
<1>19. ASSUME StepBack /\ UNCHANGED <<running, monitorVars>> PROVE TypeOK'
  BY <1>19 DEF StepBack, monitorVars
<1>20. ASSUME NEW p \in Paths, Create(p), UNCHANGED <<running, monitorVars>> PROVE TypeOK'
  BY <1>20 DEF Create, Present, monitorVars
<1>21. ASSUME NEW p \in Paths, Rewrite(p), UNCHANGED <<running, monitorVars>> PROVE TypeOK'
  BY <1>21 DEF Rewrite, monitorVars
<1>22. ASSUME UNCHANGED vars PROVE TypeOK'
  BY <1>22 DEF vars, monitorVars
<1>23. ASSUME ClockSetForward PROVE TypeOK'
  BY <1>23 DEF ClockSetForward, StepForward
<1> QED
  BY <1>1, <1>2, <1>3, <1>4, <1>5, <1>6, <1>7, <1>8, <1>9, <1>10, <1>11,
     <1>12, <1>13, <1>14, <1>15, <1>16, <1>17, <1>18, <1>19, <1>20, <1>21, <1>22,
     <1>23
  DEF Next, PollStep, ProcessStep, World

\* Who runs and where the poll task stands fit together.
LEMMA ControlStep == TypeOK /\ ControlInv /\ [Next]_vars => ControlInv'
<1> SUFFICES ASSUME TypeOK, ControlInv, [Next]_vars PROVE ControlInv'
  OBVIOUS
<1> USE MonitorAssumption
<1> USE DEF TypeOK, FilesTypeOK, ControlInv, Up, fileVars, pollVars, processVars, Absent, Never
<1>1. ASSUME PollResume PROVE ControlInv'
  BY <1>1 DEF PollResume, Resume, Idle
<1>2. ASSUME NEW p \in Paths, BaselineExists(p) PROVE ControlInv'
  BY <1>2 DEF BaselineExists, Present
<1>3. ASSUME NEW p \in Paths, ScanPath(p) PROVE ControlInv'
  BY <1>3 DEF ScanPath, Present
<1>4. ASSUME BaselineStat PROVE ControlInv'
  BY <1>4 DEF BaselineStat, Present
<1>5. ASSUME BaselineCrash PROVE ControlInv'
  BY <1>5 DEF BaselineCrash, Suspend
<1>6. ASSUME BaselineDone PROVE ControlInv'
  BY <1>6 DEF BaselineDone
<1>7. ASSUME PollSleep PROVE ControlInv'
  BY <1>7 DEF PollSleep, Suspend
<1>8. ASSUME ProcessResume PROVE ControlInv'
  BY <1>8 DEF ProcessResume, Resume, Idle, monitorVars
<1>9. ASSUME Suppress PROVE ControlInv'
  BY <1>9 DEF Suppress
<1>10. ASSUME LetThrough PROVE ControlInv'
  BY <1>10 DEF LetThrough, Debounced
<1>11. ASSUME Unattributed PROVE ControlInv'
  BY <1>11 DEF Unattributed
<1>12. ASSUME ProcessWait PROVE ControlInv'
  BY <1>12 DEF ProcessWait, Suspend, monitorVars
<1>13. ASSUME NEW pid \in Suspects, Dispatch(pid) PROVE ControlInv'
  BY <1>13 DEF Dispatch
<1>14. ASSUME RunCallback PROVE ControlInv'
  BY <1>14 DEF RunCallback, Idle
<1>15. ASSUME Cancel PROVE ControlInv'
  BY <1>15 DEF Cancel, Idle
<1>16. ASSUME NEW p \in Paths, ReadCanary(p) PROVE ControlInv'
  BY <1>16 DEF ReadCanary, Read, Records, Present
<1>17. ASSUME NEW p \in Paths, RemoveCanary(p) PROVE ControlInv'
  BY <1>17 DEF RemoveCanary, Remove, Present
<1>18. ASSUME Tick /\ UNCHANGED <<running, monitorVars>> PROVE ControlInv'
  BY <1>18 DEF Tick, monitorVars
<1>19. ASSUME StepBack /\ UNCHANGED <<running, monitorVars>> PROVE ControlInv'
  BY <1>19 DEF StepBack, monitorVars
<1>20. ASSUME NEW p \in Paths, Create(p), UNCHANGED <<running, monitorVars>> PROVE ControlInv'
  BY <1>20 DEF Create, Present, monitorVars
<1>21. ASSUME NEW p \in Paths, Rewrite(p), UNCHANGED <<running, monitorVars>> PROVE ControlInv'
  BY <1>21 DEF Rewrite, monitorVars
<1>22. ASSUME UNCHANGED vars PROVE ControlInv'
  BY <1>22 DEF vars, monitorVars
<1>23. ASSUME ClockSetForward PROVE ControlInv'
  BY <1>23 DEF ClockSetForward, StepForward
<1> QED
  BY <1>1, <1>2, <1>3, <1>4, <1>5, <1>6, <1>7, <1>8, <1>9, <1>10, <1>11,
     <1>12, <1>13, <1>14, <1>15, <1>16, <1>17, <1>18, <1>19, <1>20, <1>21, <1>22,
     <1>23
  DEF Next, PollStep, ProcessStep, World

\* The baseline arms each path once, from nothing.
LEMMA BaselineStep == TypeOK /\ ControlInv /\ BaselineInv /\ [Next]_vars => BaselineInv'
<1> SUFFICES ASSUME TypeOK, ControlInv, BaselineInv, [Next]_vars PROVE BaselineInv'
  OBVIOUS
<1> USE MonitorAssumption
<1> USE DEF TypeOK, FilesTypeOK, ControlInv, BaselineInv, Advanced, Up, fileVars, pollVars, processVars, Absent, Never
<1>1. ASSUME PollResume PROVE BaselineInv'
  BY <1>1 DEF PollResume, Resume, Idle
<1>2. ASSUME NEW p \in Paths, BaselineExists(p) PROVE BaselineInv'
  BY <1>2 DEF BaselineExists, Present
<1>3. ASSUME NEW p \in Paths, ScanPath(p) PROVE BaselineInv'
  BY <1>3 DEF ScanPath, Present
<1>4. ASSUME BaselineStat PROVE BaselineInv'
  BY <1>4 DEF BaselineStat, Present
<1>5. ASSUME BaselineCrash PROVE BaselineInv'
  BY <1>5 DEF BaselineCrash, Suspend
<1>6. ASSUME BaselineDone PROVE BaselineInv'
  BY <1>6 DEF BaselineDone
<1>7. ASSUME PollSleep PROVE BaselineInv'
  BY <1>7 DEF PollSleep, Suspend
<1>8. ASSUME ProcessResume PROVE BaselineInv'
  BY <1>8 DEF ProcessResume, Resume, Idle, monitorVars
<1>9. ASSUME Suppress PROVE BaselineInv'
  BY <1>9 DEF Suppress
<1>10. ASSUME LetThrough PROVE BaselineInv'
  BY <1>10 DEF LetThrough, Debounced
<1>11. ASSUME Unattributed PROVE BaselineInv'
  BY <1>11 DEF Unattributed
<1>12. ASSUME ProcessWait PROVE BaselineInv'
  BY <1>12 DEF ProcessWait, Suspend, monitorVars
<1>13. ASSUME NEW pid \in Suspects, Dispatch(pid) PROVE BaselineInv'
  BY <1>13 DEF Dispatch
<1>14. ASSUME RunCallback PROVE BaselineInv'
  BY <1>14 DEF RunCallback, Idle
<1>15. ASSUME Cancel PROVE BaselineInv'
  BY <1>15 DEF Cancel, Idle
<1>16. ASSUME NEW p \in Paths, ReadCanary(p) PROVE BaselineInv'
  BY <1>16 DEF ReadCanary, Read, Records, Present
<1>17. ASSUME NEW p \in Paths, RemoveCanary(p) PROVE BaselineInv'
  BY <1>17 DEF RemoveCanary, Remove, Present
<1>18. ASSUME Tick /\ UNCHANGED <<running, monitorVars>> PROVE BaselineInv'
  BY <1>18 DEF Tick, monitorVars
<1>19. ASSUME StepBack /\ UNCHANGED <<running, monitorVars>> PROVE BaselineInv'
  BY <1>19 DEF StepBack, monitorVars
<1>20. ASSUME NEW p \in Paths, Create(p), UNCHANGED <<running, monitorVars>> PROVE BaselineInv'
  BY <1>20 DEF Create, Present, monitorVars
<1>21. ASSUME NEW p \in Paths, Rewrite(p), UNCHANGED <<running, monitorVars>> PROVE BaselineInv'
  BY <1>21 DEF Rewrite, monitorVars
<1>22. ASSUME UNCHANGED vars PROVE BaselineInv'
  BY <1>22 DEF vars, monitorVars
<1>23. ASSUME ClockSetForward PROVE BaselineInv'
  BY <1>23 DEF ClockSetForward, StepForward
<1> QED
  BY <1>1, <1>2, <1>3, <1>4, <1>5, <1>6, <1>7, <1>8, <1>9, <1>10, <1>11,
     <1>12, <1>13, <1>14, <1>15, <1>16, <1>17, <1>18, <1>19, <1>20, <1>21, <1>22,
     <1>23
  DEF Next, PollStep, ProcessStep, World

\* Never set back, the wall clock is never behind an access time.
LEMMA ClockStep == TypeOK /\ ClockInv /\ [Next]_vars => ClockInv'
<1> SUFFICES ASSUME TypeOK, ClockInv, [Next]_vars PROVE ClockInv'
  OBVIOUS
<1> USE TimeAssumption, MonitorAssumption
<1> USE DEF TypeOK, FilesTypeOK, ClockInv, Advanced, fileVars, pollVars, processVars, Absent, Never
<1>1. ASSUME PollResume PROVE ClockInv'
  BY <1>1 DEF PollResume, Resume, Idle
<1>2. ASSUME NEW p \in Paths, BaselineExists(p) PROVE ClockInv'
  BY <1>2 DEF BaselineExists, Present
<1>3. ASSUME NEW p \in Paths, ScanPath(p) PROVE ClockInv'
  BY <1>3 DEF ScanPath, Present
<1>4. ASSUME BaselineStat PROVE ClockInv'
  BY <1>4 DEF BaselineStat, Present
<1>5. ASSUME BaselineCrash PROVE ClockInv'
  BY <1>5 DEF BaselineCrash, Suspend
<1>6. ASSUME BaselineDone PROVE ClockInv'
  BY <1>6 DEF BaselineDone
<1>7. ASSUME PollSleep PROVE ClockInv'
  BY <1>7 DEF PollSleep, Suspend
<1>8. ASSUME ProcessResume PROVE ClockInv'
  BY <1>8 DEF ProcessResume, Resume, Idle, monitorVars
<1>9. ASSUME Suppress PROVE ClockInv'
  BY <1>9 DEF Suppress
<1>10. ASSUME LetThrough PROVE ClockInv'
  BY <1>10 DEF LetThrough, Debounced
<1>11. ASSUME Unattributed PROVE ClockInv'
  BY <1>11 DEF Unattributed
<1>12. ASSUME ProcessWait PROVE ClockInv'
  BY <1>12 DEF ProcessWait, Suspend, monitorVars
<1>13. ASSUME NEW pid \in Suspects, Dispatch(pid) PROVE ClockInv'
  BY <1>13 DEF Dispatch
<1>14. ASSUME RunCallback PROVE ClockInv'
  BY <1>14 DEF RunCallback, Idle
<1>15. ASSUME Cancel PROVE ClockInv'
  BY <1>15 DEF Cancel, Idle
<1>16. ASSUME NEW p \in Paths, ReadCanary(p) PROVE ClockInv'
  BY <1>16 DEF ReadCanary, Read, Records, Present
<1>17. ASSUME NEW p \in Paths, RemoveCanary(p) PROVE ClockInv'
  BY <1>17 DEF RemoveCanary, Remove, Present
<1>18. ASSUME Tick /\ UNCHANGED <<running, monitorVars>> PROVE ClockInv'
  <2>1. clock' = clock + 1 /\ UNCHANGED atime
    BY <1>18 DEF Tick
  <2>2. ASSUME NEW p \in Paths, atime[p] <= clock PROVE atime'[p] <= clock'
    <3>1. atime[p] \in Int /\ clock \in Int
      OBVIOUS
    <3> QED
      BY <2>1, <2>2, <3>1
  <2> QED
    BY <2>1, <2>2
<1>19. ASSUME StepBack /\ UNCHANGED <<running, monitorVars>> PROVE ClockInv'
  BY <1>19 DEF StepBack, monitorVars
<1>20. ASSUME NEW p \in Paths, Create(p), UNCHANGED <<running, monitorVars>> PROVE ClockInv'
  BY <1>20 DEF Create, Present, monitorVars
<1>21. ASSUME NEW p \in Paths, Rewrite(p), UNCHANGED <<running, monitorVars>> PROVE ClockInv'
  BY <1>21 DEF Rewrite, monitorVars
<1>22. ASSUME UNCHANGED vars PROVE ClockInv'
  BY <1>22 DEF vars, monitorVars
<1>23. ASSUME ClockSetForward PROVE ClockInv'
  <2>1. clock' \in Nat /\ clock < clock' /\ UNCHANGED atime
    BY <1>23 DEF ClockSetForward, StepForward
  <2>2. ASSUME NEW p \in Paths, atime[p] <= clock PROVE atime'[p] <= clock'
    <3>1. atime[p] \in Int /\ clock \in Int
      OBVIOUS
    <3> QED
      BY <2>1, <2>2, <3>1
  <2> QED
    BY <2>1, <2>2
<1> QED
  BY <1>1, <1>2, <1>3, <1>4, <1>5, <1>6, <1>7, <1>8, <1>9, <1>10, <1>11,
     <1>12, <1>13, <1>14, <1>15, <1>16, <1>17, <1>18, <1>19, <1>20, <1>21, <1>22,
     <1>23
  DEF Next, PollStep, ProcessStep, World

\* The debouncer's memory stays tied to the time that really passed.
LEMMA DebounceStep == TypeOK /\ ClockInv /\ DebounceInv /\ [Next]_vars => DebounceInv'
<1> SUFFICES ASSUME TypeOK, ClockInv, DebounceInv, [Next]_vars PROVE DebounceInv'
  OBVIOUS
<1> USE TimeAssumption, MonitorAssumption
<1> USE DEF TypeOK, FilesTypeOK, ClockInv, DebounceInv, Advanced, fileVars, pollVars, processVars, Absent, Never
<1>1. ASSUME PollResume PROVE DebounceInv'
  BY <1>1 DEF PollResume, Resume, Idle
<1>2. ASSUME NEW p \in Paths, BaselineExists(p) PROVE DebounceInv'
  BY <1>2 DEF BaselineExists, Present
<1>3. ASSUME NEW p \in Paths, ScanPath(p) PROVE DebounceInv'
  BY <1>3 DEF ScanPath, Present
<1>4. ASSUME BaselineStat PROVE DebounceInv'
  BY <1>4 DEF BaselineStat, Present
<1>5. ASSUME BaselineCrash PROVE DebounceInv'
  BY <1>5 DEF BaselineCrash, Suspend
<1>6. ASSUME BaselineDone PROVE DebounceInv'
  BY <1>6 DEF BaselineDone
<1>7. ASSUME PollSleep PROVE DebounceInv'
  BY <1>7 DEF PollSleep, Suspend
<1>8. ASSUME ProcessResume PROVE DebounceInv'
  BY <1>8 DEF ProcessResume, Resume, Idle, monitorVars
<1>9. ASSUME Suppress PROVE DebounceInv'
  BY <1>9 DEF Suppress
<1>10. ASSUME LetThrough PROVE DebounceInv'
  <2> DEFINE h == Head(queue)
  <2>1. h \in Paths
    BY <1>10, HeadTailProperties DEF LetThrough
  <2>2. /\ debouncer' = [debouncer EXCEPT ![h] = clock]
        /\ handledAt' = [handledAt EXCEPT ![h] = elapsed]
        /\ leapt' = [leapt EXCEPT ![h] = 0]
        /\ UNCHANGED <<clock, elapsed>>
    BY <1>10 DEF LetThrough
  <2> HIDE DEF h
  <2> SUFFICES ASSUME NEW p \in Paths
               PROVE  /\ handledAt'[p] = Never => debouncer'[p] = 0
                      /\ handledAt'[p] # Never =>
                           /\ clock - debouncer'[p]
                                <= elapsed - handledAt'[p] + leapt'[p]
                           /\ "back" \notin ClockSteps =>
                                elapsed - handledAt'[p] <= clock - debouncer'[p]
    BY <2>2
  <2>3. CASE p = h
    BY <2>1, <2>2, <2>3
  <2>4. CASE p # h
    BY <2>1, <2>2, <2>4
  <2> QED
    BY <2>3, <2>4
<1>11. ASSUME Unattributed PROVE DebounceInv'
  BY <1>11 DEF Unattributed
<1>12. ASSUME ProcessWait PROVE DebounceInv'
  BY <1>12 DEF ProcessWait, Suspend, monitorVars
<1>13. ASSUME NEW pid \in Suspects, Dispatch(pid) PROVE DebounceInv'
  BY <1>13 DEF Dispatch
<1>14. ASSUME RunCallback PROVE DebounceInv'
  BY <1>14 DEF RunCallback, Idle
<1>15. ASSUME Cancel PROVE DebounceInv'
  BY <1>15 DEF Cancel, Idle
<1>16. ASSUME NEW p \in Paths, ReadCanary(p) PROVE DebounceInv'
  BY <1>16 DEF ReadCanary, Read, Records, Present
<1>17. ASSUME NEW p \in Paths, RemoveCanary(p) PROVE DebounceInv'
  BY <1>17 DEF RemoveCanary, Remove, Present
<1>18. ASSUME Tick /\ UNCHANGED <<running, monitorVars>> PROVE DebounceInv'
  <2>1. /\ clock' = clock + 1 /\ elapsed' = elapsed + 1
        /\ UNCHANGED <<debouncer, handledAt, leapt>>
    BY <1>18 DEF Tick, monitorVars
  <2>2. ASSUME NEW p \in Paths, handledAt[p] # Never
        PROVE  /\ clock' - debouncer[p] <= elapsed' - handledAt[p] + leapt[p]
               /\ "back" \notin ClockSteps =>
                    elapsed' - handledAt[p] <= clock' - debouncer[p]
    <3>1. handledAt[p] \in Int /\ debouncer[p] \in Int /\ leapt[p] \in Int
          /\ clock \in Int /\ elapsed \in Int
      OBVIOUS
    <3> QED
      BY <2>1, <2>2, <3>1
  <2> QED
    BY <2>1, <2>2
<1>19. ASSUME StepBack /\ UNCHANGED <<running, monitorVars>> PROVE DebounceInv'
  BY <1>19 DEF StepBack, monitorVars
<1>20. ASSUME NEW p \in Paths, Create(p), UNCHANGED <<running, monitorVars>> PROVE DebounceInv'
  BY <1>20 DEF Create, Present, monitorVars
<1>21. ASSUME NEW p \in Paths, Rewrite(p), UNCHANGED <<running, monitorVars>> PROVE DebounceInv'
  BY <1>21 DEF Rewrite, monitorVars
<1>22. ASSUME UNCHANGED vars PROVE DebounceInv'
  BY <1>22 DEF vars, monitorVars
<1>23. ASSUME ClockSetForward PROVE DebounceInv'
  <2>1. /\ clock' \in Nat /\ clock < clock'
        /\ leapt' = [p \in Paths |-> leapt[p] + (clock' - clock)]
        /\ UNCHANGED <<elapsed, debouncer, handledAt>>
    BY <1>23 DEF ClockSetForward, StepForward
  <2>2. ASSUME NEW p \in Paths, handledAt[p] # Never
        PROVE  /\ clock' - debouncer[p] <= elapsed - handledAt[p] + leapt'[p]
               /\ "back" \notin ClockSteps =>
                    elapsed - handledAt[p] <= clock' - debouncer[p]
    <3>1. handledAt[p] \in Int /\ debouncer[p] \in Int /\ leapt[p] \in Int
          /\ clock \in Int /\ elapsed \in Int /\ clock' \in Int
      BY <2>1
    <3>2. leapt'[p] = leapt[p] + (clock' - clock) /\ clock < clock'
      BY <2>1
    <3>3. /\ clock - debouncer[p] <= elapsed - handledAt[p] + leapt[p]
          /\ "back" \notin ClockSteps =>
               elapsed - handledAt[p] <= clock - debouncer[p]
      BY <2>2
    <3> DEFINE c == clock
               d == clock'
               b == debouncer[p]
               h == handledAt[p]
               k == leapt[p]
               m == leapt'[p]
    <3>4. /\ c \in Int /\ d \in Int /\ b \in Int /\ h \in Int /\ k \in Int
          /\ elapsed \in Int /\ m = k + (d - c) /\ c < d
      BY <3>1, <3>2
    <3>5. /\ c - b <= elapsed - h + k
          /\ "back" \notin ClockSteps => elapsed - h <= c - b
      BY <3>3
    <3> HIDE DEF c, d, b, h, k, m
    <3>6. /\ d - b <= elapsed - h + m
          /\ "back" \notin ClockSteps => elapsed - h <= d - b
      BY <3>4, <3>5
    <3> QED
      BY <3>6 DEF d, b, h, m
  <2> QED
    BY <2>1, <2>2
<1> QED
  BY <1>1, <1>2, <1>3, <1>4, <1>5, <1>6, <1>7, <1>8, <1>9, <1>10, <1>11,
     <1>12, <1>13, <1>14, <1>15, <1>16, <1>17, <1>18, <1>19, <1>20, <1>21, <1>22,
     <1>23
  DEF Next, PollStep, ProcessStep, World

\* No step but its scan or its removal takes a read out of sight.
LEMMA ReadsStep == TypeOK /\ ControlInv /\ BaselineInv /\ ClockInv /\ ReadsInv /\ [Next]_vars => ReadsInv'
<1> SUFFICES ASSUME TypeOK, ControlInv, BaselineInv, ClockInv, ReadsInv, [Next]_vars PROVE ReadsInv'
  OBVIOUS
<1> USE TimeAssumption, MonitorAssumption
<1> USE DEF TypeOK, FilesTypeOK, ControlInv, BaselineInv, ClockInv, ReadsInv, Advanced, Present, Up, fileVars, pollVars, processVars, Absent, Never
<1>1. ASSUME PollResume PROVE ReadsInv'
  BY <1>1 DEF PollResume, Resume, Idle
<1>2. ASSUME NEW p \in Paths, BaselineExists(p) PROVE ReadsInv'
  BY <1>2 DEF BaselineExists, Present
<1>3. ASSUME NEW p \in Paths, ScanPath(p) PROVE ReadsInv'
  BY <1>3 DEF ScanPath, Present
<1>4. ASSUME BaselineStat PROVE ReadsInv'
  BY <1>4 DEF BaselineStat, Present
<1>5. ASSUME BaselineCrash PROVE ReadsInv'
  BY <1>5 DEF BaselineCrash, Suspend
<1>6. ASSUME BaselineDone PROVE ReadsInv'
  BY <1>6 DEF BaselineDone
<1>7. ASSUME PollSleep PROVE ReadsInv'
  BY <1>7 DEF PollSleep, Suspend
<1>8. ASSUME ProcessResume PROVE ReadsInv'
  BY <1>8 DEF ProcessResume, Resume, Idle, monitorVars
<1>9. ASSUME Suppress PROVE ReadsInv'
  BY <1>9 DEF Suppress
<1>10. ASSUME LetThrough PROVE ReadsInv'
  BY <1>10 DEF LetThrough, Debounced
<1>11. ASSUME Unattributed PROVE ReadsInv'
  BY <1>11 DEF Unattributed
<1>12. ASSUME ProcessWait PROVE ReadsInv'
  BY <1>12 DEF ProcessWait, Suspend, monitorVars
<1>13. ASSUME NEW pid \in Suspects, Dispatch(pid) PROVE ReadsInv'
  BY <1>13 DEF Dispatch
<1>14. ASSUME RunCallback PROVE ReadsInv'
  BY <1>14 DEF RunCallback, Idle
<1>15. ASSUME Cancel PROVE ReadsInv'
  BY <1>15 DEF Cancel, Idle
<1>16. ASSUME NEW p \in Paths, ReadCanary(p) PROVE ReadsInv'
  BY <1>16 DEF ReadCanary, Read, Records, Present
<1>17. ASSUME NEW p \in Paths, RemoveCanary(p) PROVE ReadsInv'
  BY <1>17 DEF RemoveCanary, Remove, Present
<1>18. ASSUME Tick /\ UNCHANGED <<running, monitorVars>> PROVE ReadsInv'
  BY <1>18 DEF Tick, monitorVars
<1>19. ASSUME StepBack /\ UNCHANGED <<running, monitorVars>> PROVE ReadsInv'
  BY <1>19 DEF StepBack, monitorVars
<1>20. ASSUME NEW p \in Paths, Create(p), UNCHANGED <<running, monitorVars>> PROVE ReadsInv'
  BY <1>20 DEF Create, Present, monitorVars
<1>21. ASSUME NEW p \in Paths, Rewrite(p), UNCHANGED <<running, monitorVars>> PROVE ReadsInv'
  BY <1>21 DEF Rewrite, monitorVars
<1>22. ASSUME UNCHANGED vars PROVE ReadsInv'
  BY <1>22 DEF vars, monitorVars
<1>23. ASSUME ClockSetForward PROVE ReadsInv'
  BY <1>23 DEF ClockSetForward, StepForward
<1> QED
  BY <1>1, <1>2, <1>3, <1>4, <1>5, <1>6, <1>7, <1>8, <1>9, <1>10, <1>11,
     <1>12, <1>13, <1>14, <1>15, <1>16, <1>17, <1>18, <1>19, <1>20, <1>21, <1>22,
     <1>23
  DEF Next, PollStep, ProcessStep, World

-----------------------------------------------------------------------------
(* The invariant holds, and with it the properties.                        *)

\* Every reachable state satisfies the inductive invariant.
THEOREM MonitorInvariance == Spec => []MonitorInv
<1>1. Init => MonitorInv
  <2> SUFFICES ASSUME Init PROVE MonitorInv
    OBVIOUS
  <2> USE TimeAssumption, MonitorAssumption
  <2> USE DEF Init, FilesInit, Absent, Never
  <2>1. TypeOK
    BY DEF TypeOK, FilesTypeOK
  <2>2. ControlInv /\ BaselineInv
    BY DEF ControlInv, BaselineInv
  <2>3. ClockInv
    BY DEF ClockInv
  <2>4. DebounceInv /\ ReadsInv
    BY DEF DebounceInv, ReadsInv
  <2> QED
    BY <2>1, <2>2, <2>3, <2>4 DEF MonitorInv
<1>2. MonitorInv /\ [Next]_vars => MonitorInv'
  BY TypeStep, ControlStep, BaselineStep, ClockStep, DebounceStep, ReadsStep
     DEF MonitorInv
<1> QED
  BY <1>1, <1>2, PTL DEF Spec

\* Every variable keeps its type.
THEOREM TypeCorrect == Spec => []TypeOK
BY MonitorInvariance, PTL DEF MonitorInv

\* Taking the head off a queue is not leaving it alone or appending to it.
LEMMA TailIsNew ==
  ASSUME NEW S, NEW s \in Seq(S), s # <<>>
  PROVE  /\ Tail(s) # s
         /\ \A e \in S : Tail(s) # Append(s, e)
<1> DEFINE n == Len(s)
           m == Len(Tail(s))
<1>1. n \in Nat /\ m = n - 1
  BY HeadTailProperties, LenProperties
<1>2. m # n
  <2> HIDE DEF n, m
  <2> QED
    BY <1>1
<1>3. ASSUME NEW e \in S PROVE Tail(s) # Append(s, e)
  <2> DEFINE k == Len(Append(s, e))
  <2>1. k = n + 1
    BY AppendProperties
  <2>2. k # m
    <3> HIDE DEF k, n, m
    <3> QED
      BY <1>1, <2>1
  <2> QED
    BY <2>2
<1> QED
  BY <1>2, <1>3

\* Only the debouncer takes an event off the queue without attributing it.
LEMMA DroppedIsDebounced ==
  ASSUME TypeOK, [Next]_vars, NEW p \in Paths, Dropped(p)
  PROVE  Debounced(p) /\ UNCHANGED <<clock, elapsed>>
<1>1. queue # <<>> /\ p = Head(queue) /\ queue' = Tail(queue)
      /\ attributing' = NoPath /\ queue \in Seq(Paths)
  BY DEF Dropped, TypeOK
<1>2. queue' # queue /\ \A e \in Paths : queue' # Append(queue, e)
  BY <1>1, TailIsNew
<1>3. ~PollStep
  BY <1>2 DEF PollStep, BaselineExists, ScanPath, BaselineStat, BaselineCrash,
              BaselineDone, PollSleep
<1>4. ~LetThrough
  BY <1>1, MonitorAssumption DEF LetThrough
<1>5. ~PollResume /\ ~ProcessResume /\ ~RunCallback /\ ~Cancel /\ ~World
  BY <1>2 DEF PollResume, ProcessResume, RunCallback, Cancel, World, ReadCanary,
              RemoveCanary, ClockSetForward, monitorVars
<1>6. ~Unattributed /\ ~ProcessWait /\ \A pid \in Suspects : ~Dispatch(pid)
  BY <1>2 DEF Unattributed, ProcessWait, Dispatch, monitorVars
<1>7. Suppress
  BY <1>2, <1>3, <1>4, <1>5, <1>6 DEF Next, ProcessStep, vars, monitorVars
<1> QED
  BY <1>1, <1>7 DEF Suppress, fileVars

\* Unless the wall clock is stepped back, the debouncer drops only events of a
\* path that was let through less than debounce_seconds of real time before.
THEOREM DebounceSound == "back" \notin ClockSteps /\ Spec => DropsOnlyDuplicates
<1> SUFFICES ASSUME "back" \notin ClockSteps PROVE Spec => DropsOnlyDuplicates
  OBVIOUS
<1>1. MonitorInv /\ [Next]_vars =>
        [\A p \in Paths :
           Dropped(p) => /\ handledAt[p] # Never
                         /\ elapsed - handledAt[p] < DebounceSeconds]_vars
  <2> SUFFICES ASSUME MonitorInv, [Next]_vars, NEW p \in Paths, Dropped(p)
               PROVE  /\ handledAt[p] # Never
                      /\ elapsed - handledAt[p] < DebounceSeconds
    OBVIOUS
  <2>1. Debounced(p)
    BY DroppedIsDebounced DEF MonitorInv
  <2> QED
    BY <2>1, TimeAssumption, MonitorAssumption
    DEF MonitorInv, TypeOK, FilesTypeOK, ClockInv, DebounceInv, Debounced, Never
<1> QED
  BY <1>1, MonitorInvariance, PTL DEF Spec, DropsOnlyDuplicates

\* Two events of one path are let through at least debounce_seconds of real
\* time apart, less what the wall clock was set forward in between, however
\* often it is set back.
THEOREM DebounceComplete == Spec => RateLimited
<1>1. MonitorInv /\ [Next]_vars =>
        [\A p \in Paths :
           attributing' = p /\ attributing # p
             => \/ handledAt[p] = Never
                \/ elapsed - handledAt[p] + leapt[p] >= DebounceSeconds]_vars
  <2> SUFFICES ASSUME MonitorInv, [Next]_vars, NEW p \in Paths,
                      attributing' = p, attributing # p, handledAt[p] # Never
               PROVE  elapsed - handledAt[p] + leapt[p] >= DebounceSeconds
    OBVIOUS
  <2> USE MonitorAssumption
  <2>1. attributing' # attributing /\ attributing' # NoPath
    OBVIOUS
  <2>2. ~PollStep /\ ~PollResume /\ ~ProcessResume
    BY <2>1 DEF PollStep, BaselineExists, ScanPath, BaselineStat, BaselineCrash,
                BaselineDone, PollSleep, PollResume, ProcessResume, processVars,
                monitorVars
  <2>3. ~RunCallback /\ ~Cancel /\ ~World
    BY <2>1 DEF RunCallback, Cancel, World, ReadCanary, RemoveCanary,
                ClockSetForward, processVars, monitorVars
  <2>4. ~Suppress /\ ~Unattributed /\ ~ProcessWait
        /\ \A pid \in Suspects : ~Dispatch(pid)
    BY <2>1 DEF Suppress, Unattributed, ProcessWait, Dispatch, processVars,
                monitorVars
  <2>5. LetThrough
    BY <2>1, <2>2, <2>3, <2>4 DEF Next, ProcessStep, vars, monitorVars
  <2>6. ~Debounced(p)
    BY <2>5 DEF LetThrough
  <2> QED
    BY <2>6, TimeAssumption
    DEF MonitorInv, TypeOK, FilesTypeOK, ClockInv, DebounceInv, Debounced, Never
<1> QED
  BY <1>1, MonitorInvariance, PTL DEF Spec, RateLimited

\* On a strictatime mount, and unless the wall clock is stepped back, every
\* read of an armed canary is put on the queue by the next scan of the file.
THEOREM ReadsReported == ~RelAtime /\ "back" \notin ClockSteps /\ Spec => NoLostRead
<1> SUFFICES ASSUME ~RelAtime, "back" \notin ClockSteps PROVE Spec => NoLostRead
  OBVIOUS
<1>1. MonitorInv /\ [Next]_vars =>
        [\A p \in unscanned :
           /\ running = "poll" /\ pollPc = "scan"
           /\ p \in todo /\ p \notin todo'
           => queue' = Append(queue, p)]_vars
  <2> SUFFICES ASSUME MonitorInv, [Next]_vars, NEW p \in unscanned,
                      running = "poll", pollPc = "scan",
                      p \in todo, p \notin todo'
               PROVE  queue' = Append(queue, p)
    OBVIOUS
  <2>1. Advanced(p)
    BY DEF MonitorInv, ReadsInv
  <2>2. todo' # todo /\ ~Idle /\ running # "process"
    BY DEF Idle
  <2>3. ~PollResume /\ ~ProcessResume /\ ~RunCallback /\ ~Cancel /\ ~World
    BY <2>2 DEF PollResume, Resume, ProcessResume, RunCallback, Cancel, World,
                ReadCanary, RemoveCanary, ClockSetForward, pollVars, monitorVars
  <2>4. ~ProcessStep
    BY <2>2 DEF ProcessStep, Suppress, LetThrough, Unattributed, ProcessWait,
                Dispatch, pollVars
  <2>5. PICK r \in Paths : ScanPath(r)
    BY <2>2, <2>3, <2>4
    DEF Next, PollStep, BaselineExists, BaselineStat, BaselineCrash,
        BaselineDone, PollSleep, pollVars, vars, monitorVars
  <2>6. r = p
    BY <2>5 DEF ScanPath
  <2> QED
    BY <2>1, <2>5, <2>6 DEF ScanPath
<1> QED
  BY <1>1, MonitorInvariance, PTL DEF Spec, NoLostRead
-----------------------------------------------------------------------------
(* The monitor implements AccessFeed.                                      *)

FilesOnDisk == {p \in Paths : Present(p)}
Unreported == {p \in Paths : Advanced(p)}

\* A step of the monitor that leaves files, cache and queue alone is invisible.
LEMMA FeedStutter ==
  ASSUME UNCHANGED <<atime, atimeCache, queue>>
  PROVE  UNCHANGED Feed!feedVars
<1>1. Unreported' = Unreported /\ FilesOnDisk' = FilesOnDisk
  BY DEF Unreported, Advanced, FilesOnDisk, Present
<1> QED
  BY <1>1 DEF Feed!feedVars, Unreported, FilesOnDisk

\* Each scanned path is reported if it was accessed, and left alone if not.
LEMMA FeedScan ==
  ASSUME TypeOK, NEW p \in Paths, ScanPath(p)
  PROVE  Feed!Next \/ UNCHANGED Feed!feedVars
<1> USE DEF TypeOK, FilesTypeOK, ScanPath, Present, Absent, fileVars
<1>1. FilesOnDisk' = FilesOnDisk
  BY DEF FilesOnDisk
<1>2. CASE Advanced(p)
  <2>1. Unreported' = Unreported \ {p} /\ p \in Unreported
    BY <1>2 DEF Unreported, Advanced
  <2>2. queue' = Append(queue, p)
    BY <1>2
  <2>3. Feed!Report(p)
    BY <1>1, <2>1, <2>2 DEF Feed!Report, Unreported, FilesOnDisk
  <2> QED
    BY <2>3 DEF Feed!Next
<1>3. CASE ~Advanced(p)
  <2>1. Unreported' = Unreported /\ queue' = queue
    BY <1>3 DEF Unreported, Advanced
  <2> QED
    BY <1>1, <2>1 DEF Feed!feedVars, Unreported, FilesOnDisk
<1> QED
  BY <1>2, <1>3

\* A read adds its canary to the accesses to report, or shows nothing new.
LEMMA FeedRead ==
  ASSUME TypeOK, ClockInv, "back" \notin ClockSteps, NEW p \in Paths, ReadCanary(p)
  PROVE  Feed!Next \/ UNCHANGED Feed!feedVars
<1> USE DEF TypeOK, FilesTypeOK, ReadCanary, Read, Present, Absent, pollVars
<1>1. FilesOnDisk' = FilesOnDisk /\ p \in FilesOnDisk /\ queue' = queue
  BY DEF FilesOnDisk
<1>2. Unreported' = Unreported \/ Unreported' = Unreported \cup {p}
  <2>1. \A r \in Paths \ {p} : Advanced(r)' <=> Advanced(r)
    BY DEF Advanced
  <2>2. Advanced(p) => Advanced(p)'
    BY TimeAssumption DEF Advanced, ClockInv
  <2> QED
    BY <2>1, <2>2 DEF Unreported
<1>3. Feed!Touch(p) \/ UNCHANGED Feed!feedVars
  BY <1>1, <1>2 DEF Feed!Touch, Feed!feedVars, Unreported, FilesOnDisk
<1> QED
  BY <1>3 DEF Feed!Next

\* Removing and creating canaries are what the feed says they are.
LEMMA FeedFiles ==
  ASSUME TypeOK, NEW p \in Paths,
         RemoveCanary(p) \/ (Create(p) /\ UNCHANGED <<running, monitorVars>>)
  PROVE  Feed!Next
<1> USE DEF TypeOK, FilesTypeOK, Present, Absent
<1>1. CASE RemoveCanary(p)
  <2> USE <1>1 DEF RemoveCanary, Remove, pollVars
  <2>1. FilesOnDisk' = FilesOnDisk \ {p} /\ Unreported' = Unreported \ {p}
    BY DEF FilesOnDisk, Unreported, Advanced
  <2>2. Feed!Remove(p)
    BY <2>1 DEF Feed!Remove, Unreported, FilesOnDisk
  <2> QED
    BY <2>2 DEF Feed!Next
<1>2. CASE Create(p) /\ UNCHANGED <<running, monitorVars>>
  <2> USE <1>2 DEF Create, monitorVars
  <2>1. FilesOnDisk' = FilesOnDisk \cup {p} /\ p \notin FilesOnDisk
    BY DEF FilesOnDisk
  <2>2. Unreported' = Unreported \/ Unreported' = Unreported \cup {p}
    BY DEF Unreported, Advanced
  <2>3. Feed!Create(p)
    BY <2>1, <2>2 DEF Feed!Create, Unreported, FilesOnDisk
  <2> QED
    BY <2>3 DEF Feed!Next
<1> QED
  BY <1>1, <1>2

\* The baseline arms a path with the access time it has: nothing to report.
LEMMA FeedBaseline ==
  ASSUME TypeOK, BaselineInv, BaselineStat
  PROVE  UNCHANGED Feed!feedVars
<1> USE DEF TypeOK, FilesTypeOK, BaselineStat, Present, Absent, fileVars
<1>1. FilesOnDisk' = FilesOnDisk
  BY DEF FilesOnDisk
<1>2. Unreported' = Unreported
  BY DEF Unreported, Advanced, BaselineInv
<1> QED
  BY <1>1, <1>2 DEF Feed!feedVars, Unreported, FilesOnDisk

\* Unless the wall clock is stepped back, the poll loop and the queue implement
\* the access feed: no access is reported twice, out of thin air, or dropped
\* while its file is there.
THEOREM FeedImplemented == "back" \notin ClockSteps /\ Spec => FeedSpec
<1> SUFFICES ASSUME "back" \notin ClockSteps PROVE Spec => FeedSpec
  OBVIOUS
<1>1. Init => Feed!Init
  BY DEF Init, FilesInit, Feed!Init, Advanced, Absent
<1>2. MonitorInv /\ [Next]_vars => [Feed!Next]_Feed!feedVars
  <2> SUFFICES ASSUME MonitorInv, [Next]_vars
               PROVE  Feed!Next \/ UNCHANGED Feed!feedVars
    OBVIOUS
  <2> USE DEF MonitorInv
  <2>1. CASE PollResume \/ BaselineCrash \/ BaselineDone \/ PollSleep
             \/ \E p \in Paths : BaselineExists(p)
    BY <2>1, FeedStutter
    DEF PollResume, BaselineCrash, BaselineDone, PollSleep, BaselineExists,
        fileVars, pollVars
  <2>2. CASE ProcessResume \/ ProcessWait \/ Unattributed \/ RunCallback
             \/ Cancel \/ \E pid \in Suspects : Dispatch(pid)
    BY <2>2, FeedStutter
    DEF ProcessResume, ProcessWait, Unattributed, RunCallback, Cancel, Dispatch,
        fileVars, pollVars, monitorVars
  <2>3. CASE Suppress \/ LetThrough
    <3>1. UNCHANGED <<atime, atimeCache>> /\ queue # <<>> /\ queue' = Tail(queue)
      BY <2>3 DEF Suppress, LetThrough, fileVars, pollVars
    <3>2. Feed!Consume
      BY <3>1 DEF Feed!Consume, Advanced, Present
    <3> QED
      BY <3>2 DEF Feed!Next
  <2>4. CASE \E p \in Paths : ScanPath(p)
    BY <2>4, FeedScan
  <2>5. CASE BaselineStat
    BY <2>5, FeedBaseline
  <2>6. CASE \E p \in Paths : ReadCanary(p)
    BY <2>6, FeedRead
  <2>7. CASE \E p \in Paths :
               RemoveCanary(p) \/ (Create(p) /\ UNCHANGED <<running, monitorVars>>)
    BY <2>7, FeedFiles
  <2>8. CASE \/ ClockSetForward
             \/ /\ Tick \/ StepBack \/ \E p \in Paths : Rewrite(p)
                /\ UNCHANGED <<running, monitorVars>>
    BY <2>8, FeedStutter
    DEF ClockSetForward, StepForward, Tick, StepBack, Rewrite, pollVars,
        monitorVars
  <2>9. CASE UNCHANGED vars
    BY <2>9, FeedStutter DEF vars, fileVars, monitorVars
  <2> QED
    BY <2>1, <2>2, <2>3, <2>4, <2>5, <2>6, <2>7, <2>8, <2>9
    DEF Next, PollStep, ProcessStep, World
<1> QED
  BY <1>1, <1>2, MonitorInvariance, PTL DEF Spec, FeedSpec, Feed!Spec
=============================================================================
