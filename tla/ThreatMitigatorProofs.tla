----------------------- MODULE ThreatMitigatorProofs -----------------------
(* Proofs about ThreatMitigator, for any processes, users and calls.       *)
EXTENDS ThreatMitigator, TLAPS

CallTypes == ProcessesTypeOK /\ CallsTypeOK

\* What the calls see of a step of the whole program: one of theirs, one of the
\* processes, or some other task at work, as in `deceptenv run`.
Elsewhere ==
  /\ UNCHANGED <<procVars, callVars>>
  /\ running \notin Calls /\ running' \notin Calls

MitigatorAct == [MitigatorNext]_mitigatorVars \/ Elsewhere

\* Control: the loop runs exactly the call that has started and not ended,
\* and the lock is held exactly from its acquisition to the end of the call.
InCall == {"owner", "acquire", "verify", "kill", "snapshot"}
InLock == {"verify", "kill", "snapshot"}

ControlInv ==
  \A c \in Calls :
    /\ pc[c] \in InCall <=> running = c
    /\ pc[c] \in InLock <=> lock = c

\* What a call has done so far, from where it stands.
CallInv ==
  \A c \in Calls :
    /\ pc[c] # "done" <=> outcome[c] = "pending"
    /\ pc[c] \in {"new", "owner", "acquire", "verify", "kill"} =>
         signalled[c] = Nobody
    /\ pc[c] = "snapshot" => signalled[c] # Nobody
    /\ outcome[c] \in {"None", "OSPrimitiveError", "NotOwned", "Vanished"} =>
         signalled[c] = Nobody
    /\ outcome[c] = "report" => signalled[c] # Nobody

\* A target past the guards is neither the daemon nor the shell: the parent
\* is looked up, and a shell that is not the parent any more has ended.
TargetInv ==
  /\ Shell \in Pids /\ ppid # Shell => gen[Shell] > 0 \/ ~Alive(Shell)
  /\ \A c \in Calls :
       pc[c] \in InCall =>
         /\ target[c] \in Pids \ {Self}
         /\ target[c] = Shell => ppid # Shell

\* The process a call aimed at and the one it signalled had its target's pid
\* in this order, no later than the one that has it now.
GenOrder(c) ==
  /\ pc[c] # "new" /\ target[c] \in Pids => aimed[c] \in 0 .. gen[target[c]]
  /\ signalled[c] # Nobody =>
       /\ target[c] \in Pids
       /\ signalled[c] \in aimed[c] .. gen[target[c]]

GenInv == \A c \in Calls : GenOrder(c)

\* Call c sent the process that now has pid q its SIGSTOP, and does not deny it.
AnswersFor(c, q) ==
  /\ target[c] = q /\ signalled[c] = gen[q]
  /\ outcome[c] \in {"pending", "report", "SnapshotError"}

StopsInv ==
  \A q \in Pids : state[q] = "stopped" => \E c \in Calls : AnswersFor(c, q)

\* Past the first owner check, a target that is not ours any more has ended: a
\* process keeps its owner, so only a later one with its pid can have another.
EndedInv ==
  \A c \in Calls :
    /\ pc[c] \in {"acquire", "verify"} => owner[target[c]] = User \/ TargetEnded(c)
    /\ outcome[c] \in {"NotOwned", "Vanished"} => target[c] \in Pids /\ TargetEnded(c)

MitigatorInv ==
  /\ CallTypes /\ ControlInv /\ CallInv /\ TargetInv /\ GenInv
  /\ NoSelfHarm /\ StopsInv /\ LiveTargetsSignalled /\ EndedInv

-----------------------------------------------------------------------------
\* A living process of ours is known for one, on each system.
LEMMA OurProcess ==
  ASSUME ProcessesTypeOK, NEW q \in Pids, Alive(q), owner[q] = User
  PROVE  OwnerAnswers(q) = {User} /\ Suspendable(q) /\ ~Denied(q)
<1> USE SystemsAssumption DEF Supported, ProcessesTypeOK, Alive, Exists
<1>1. system \in {"linux", "darwin", "win32"}
  OBVIOUS
<1>2. /\ LinuxOwner(q) = {User}
      /\ DarwinOwner(q) = {User}
      /\ WindowsOwner(q) = {User}
  BY DEF LinuxOwner, DarwinOwner, WindowsOwner
<1>3. Suspendable(q) /\ ~Denied(q)
  BY DEF Suspendable, Denied
<1> QED
  BY <1>1, <1>2, <1>3 DEF OwnerAnswers

\* No system takes a process of someone else for ours.
LEMMA OwnAnswer ==
  ASSUME ProcessesTypeOK, NEW q \in Pids, User \in OwnerAnswers(q)
  PROVE  owner[q] = User
<1> USE SystemsAssumption, ProcessAssumption
<1>1. system \in {"linux", "darwin", "win32"}
  BY DEF ProcessesTypeOK, Supported
<1>2. User \notin {"-1", "NoSID", "ESRCH"}
  OBVIOUS
<1>3. /\ User \in LinuxOwner(q) => owner[q] = User
      /\ User \in DarwinOwner(q) => owner[q] = User
      /\ User \in WindowsOwner(q) => owner[q] = User
  BY <1>2 DEF LinuxOwner, DarwinOwner, WindowsOwner, Alive, Exists
<1> QED
  BY <1>1, <1>3 DEF OwnerAnswers

\* Every step keeps the types.
LEMMA TypeStep == CallTypes /\ TargetInv /\ MitigatorAct => CallTypes'
<1> SUFFICES ASSUME CallTypes, TargetInv, MitigatorAct
             PROVE  CallTypes'
  OBVIOUS
<1> USE ProcessAssumption, MitigatorAssumption
<1> USE DEF CallTypes, CallsTypeOK, ProcessesTypeOK, TargetInv, InCall, Outcomes, Reaper,
           procVars, Finish, Goto, Suspend, Alive, Exists, Nobody
<1>1. ASSUME NEW c \in Calls, NEW q \in Pids \cup {0}, Call(c, q) PROVE CallTypes'
  BY <1>1 DEF Call, Refused, Idle
<1>2. ASSUME NEW c \in Calls, CheckOwner(c) PROVE CallTypes'
  BY <1>2 DEF CheckOwner
<1>3. ASSUME NEW c \in Calls, Acquire(c) PROVE CallTypes'
  BY <1>3 DEF Acquire
<1>4. ASSUME NEW c \in Calls, VerifyOwnership(c) PROVE CallTypes'
  BY <1>4 DEF VerifyOwnership
<1>5. ASSUME NEW c \in Calls, KillDenied(c) PROVE CallTypes'
  BY <1>5 DEF KillDenied
<1>6. ASSUME NEW c \in Calls, KillMissed(c) PROVE CallTypes'
  BY <1>6 DEF KillMissed
<1>7. ASSUME NEW c \in Calls, Kill(c) PROVE CallTypes'
  BY <1>7 DEF Kill
<1>8. ASSUME NEW c \in Calls, Snapshot(c) PROVE CallTypes'
  BY <1>8 DEF Snapshot
<1>9. ASSUME NEW q \in Pids, ProcessEvent(q), UNCHANGED <<running, callVars>> PROVE CallTypes'
  BY <1>9 DEF ProcessEvent, Spawn, Exit, Reap, Continue, callVars
<1>10. CASE UNCHANGED mitigatorVars
  BY <1>10 DEF mitigatorVars, callVars
<1>11. CASE Elsewhere
  BY <1>11 DEF Elsewhere, callVars
<1> QED
  BY <1>1, <1>2, <1>3, <1>4, <1>5, <1>6, <1>7, <1>8, <1>9, <1>10, <1>11
  DEF MitigatorAct, MitigatorNext, CallStep

\* One call at a time has the loop, and the lock while it needs it.
LEMMA ControlStep == CallTypes /\ ControlInv /\ MitigatorAct => ControlInv'
<1> SUFFICES ASSUME CallTypes, ControlInv, MitigatorAct
             PROVE  ControlInv'
  OBVIOUS
<1> USE ProcessAssumption, MitigatorAssumption
<1> USE DEF CallTypes, CallsTypeOK, ProcessesTypeOK, ControlInv, InCall, InLock, procVars, Finish, Goto, Suspend, Alive, Exists, Nobody
<1>1. ASSUME NEW c \in Calls, NEW q \in Pids \cup {0}, Call(c, q) PROVE ControlInv'
  BY <1>1 DEF Call, Refused, Idle
<1>2. ASSUME NEW c \in Calls, CheckOwner(c) PROVE ControlInv'
  BY <1>2 DEF CheckOwner
<1>3. ASSUME NEW c \in Calls, Acquire(c) PROVE ControlInv'
  BY <1>3 DEF Acquire
<1>4. ASSUME NEW c \in Calls, VerifyOwnership(c) PROVE ControlInv'
  BY <1>4 DEF VerifyOwnership
<1>5. ASSUME NEW c \in Calls, KillDenied(c) PROVE ControlInv'
  BY <1>5 DEF KillDenied
<1>6. ASSUME NEW c \in Calls, KillMissed(c) PROVE ControlInv'
  BY <1>6 DEF KillMissed
<1>7. ASSUME NEW c \in Calls, Kill(c) PROVE ControlInv'
  BY <1>7 DEF Kill
<1>8. ASSUME NEW c \in Calls, Snapshot(c) PROVE ControlInv'
  BY <1>8 DEF Snapshot
<1>9. ASSUME NEW q \in Pids, ProcessEvent(q), UNCHANGED <<running, callVars>> PROVE ControlInv'
  BY <1>9 DEF ProcessEvent, Spawn, Exit, Reap, Continue, callVars
<1>10. CASE UNCHANGED mitigatorVars
  BY <1>10 DEF mitigatorVars, callVars
<1>11. CASE Elsewhere
  BY <1>11 DEF Elsewhere, callVars
<1> QED
  BY <1>1, <1>2, <1>3, <1>4, <1>5, <1>6, <1>7, <1>8, <1>9, <1>10, <1>11
  DEF MitigatorAct, MitigatorNext, CallStep

\* Outcome, history and position of a call go together.
LEMMA CallInvStep == CallTypes /\ TargetInv /\ CallInv /\ MitigatorAct => CallInv'
<1> SUFFICES ASSUME CallTypes, TargetInv, CallInv, MitigatorAct
             PROVE  CallInv'
  OBVIOUS
<1> USE ProcessAssumption, MitigatorAssumption
<1> USE DEF CallTypes, CallsTypeOK, ProcessesTypeOK, TargetInv, InCall, CallInv, Outcomes,
           procVars, Finish, Goto, Suspend, Alive, Exists, Nobody
<1>1. ASSUME NEW c \in Calls, NEW q \in Pids \cup {0}, Call(c, q) PROVE CallInv'
  BY <1>1 DEF Call, Refused, Idle
<1>2. ASSUME NEW c \in Calls, CheckOwner(c) PROVE CallInv'
  BY <1>2 DEF CheckOwner
<1>3. ASSUME NEW c \in Calls, Acquire(c) PROVE CallInv'
  BY <1>3 DEF Acquire
<1>4. ASSUME NEW c \in Calls, VerifyOwnership(c) PROVE CallInv'
  BY <1>4 DEF VerifyOwnership
<1>5. ASSUME NEW c \in Calls, KillDenied(c) PROVE CallInv'
  BY <1>5 DEF KillDenied
<1>6. ASSUME NEW c \in Calls, KillMissed(c) PROVE CallInv'
  BY <1>6 DEF KillMissed
<1>7. ASSUME NEW c \in Calls, Kill(c) PROVE CallInv'
  <2>1. target[c] \in Pids /\ gen[target[c]] \in Nat
    BY <1>7 DEF Kill
  <2>2. signalled' = [signalled EXCEPT ![c] = gen[target[c]]]
    BY <1>7 DEF Kill
  <2>3. pc' = [pc EXCEPT ![c] = "snapshot"] /\ UNCHANGED outcome
    BY <1>7 DEF Kill
  <2>4. outcome[c] = "pending"
    BY <1>7 DEF Kill
  <2> QED
    BY <2>1, <2>2, <2>3, <2>4
<1>8. ASSUME NEW c \in Calls, Snapshot(c) PROVE CallInv'
  BY <1>8 DEF Snapshot
<1>9. ASSUME NEW q \in Pids, ProcessEvent(q), UNCHANGED <<running, callVars>> PROVE CallInv'
  BY <1>9 DEF ProcessEvent, Spawn, Exit, Reap, Continue, callVars
<1>10. CASE UNCHANGED mitigatorVars
  BY <1>10 DEF mitigatorVars, callVars
<1>11. CASE Elsewhere
  BY <1>11 DEF Elsewhere, callVars
<1> QED
  BY <1>1, <1>2, <1>3, <1>4, <1>5, <1>6, <1>7, <1>8, <1>9, <1>10, <1>11
  DEF MitigatorAct, MitigatorNext, CallStep

\* The guards of a call still hold when it comes to the signal.
LEMMA TargetStep == CallTypes /\ TargetInv /\ MitigatorAct => TargetInv'
<1> SUFFICES ASSUME CallTypes, TargetInv, MitigatorAct
             PROVE  TargetInv'
  OBVIOUS
<1> USE ProcessAssumption, MitigatorAssumption
<1> USE DEF CallTypes, CallsTypeOK, ProcessesTypeOK, TargetInv, InCall, Reaper, procVars, Finish, Goto, Suspend, Alive, Exists, Nobody
<1>1. ASSUME NEW c \in Calls, NEW q \in Pids \cup {0}, Call(c, q) PROVE TargetInv'
  BY <1>1 DEF Call, Refused, Idle
<1>2. ASSUME NEW c \in Calls, CheckOwner(c) PROVE TargetInv'
  BY <1>2 DEF CheckOwner
<1>3. ASSUME NEW c \in Calls, Acquire(c) PROVE TargetInv'
  BY <1>3 DEF Acquire
<1>4. ASSUME NEW c \in Calls, VerifyOwnership(c) PROVE TargetInv'
  BY <1>4 DEF VerifyOwnership
<1>5. ASSUME NEW c \in Calls, KillDenied(c) PROVE TargetInv'
  BY <1>5 DEF KillDenied
<1>6. ASSUME NEW c \in Calls, KillMissed(c) PROVE TargetInv'
  BY <1>6 DEF KillMissed
<1>7. ASSUME NEW c \in Calls, Kill(c) PROVE TargetInv'
  BY <1>7 DEF Kill
<1>8. ASSUME NEW c \in Calls, Snapshot(c) PROVE TargetInv'
  BY <1>8 DEF Snapshot
<1>9. ASSUME NEW q \in Pids, ProcessEvent(q), UNCHANGED <<running, callVars>> PROVE TargetInv'
  BY <1>9 DEF ProcessEvent, Spawn, Exit, Reap, Continue, callVars
<1>10. CASE UNCHANGED mitigatorVars
  BY <1>10 DEF mitigatorVars, callVars
<1>11. CASE Elsewhere
  BY <1>11 DEF Elsewhere, callVars
<1> QED
  BY <1>1, <1>2, <1>3, <1>4, <1>5, <1>6, <1>7, <1>8, <1>9, <1>10, <1>11
  DEF MitigatorAct, MitigatorNext, CallStep

\* Pids are only ever handed on.
LEMMA GenStep == CallTypes /\ CallInv /\ TargetInv /\ GenInv /\ MitigatorAct => GenInv'
<1> SUFFICES ASSUME CallTypes, CallInv, TargetInv, GenInv, MitigatorAct
             PROVE  GenInv'
  OBVIOUS
<1> USE ProcessAssumption, MitigatorAssumption
<1> USE DEF CallTypes, CallsTypeOK, ProcessesTypeOK, CallInv, TargetInv, GenInv, GenOrder, InCall,
           procVars, Finish, Goto, Suspend, Alive, Exists, Nobody
<1>1. ASSUME NEW c \in Calls, NEW q \in Pids \cup {0}, Call(c, q) PROVE GenInv'
  <2> SUFFICES ASSUME NEW d \in Calls PROVE GenOrder(d)'
    OBVIOUS
  <2> USE <1>1 DEF Call
  <2>1. signalled[c] = Nobody
    BY DEF CallInv
  <2>2. CASE d = c
    BY <2>1, <2>2
  <2>3. CASE d # c
    <3>1. GenOrder(d)
      BY DEF GenInv
    <3> QED
      BY <2>3, <3>1
  <2> QED
    BY <2>2, <2>3
<1>2. ASSUME NEW c \in Calls, CheckOwner(c) PROVE GenInv'
  BY <1>2 DEF CheckOwner
<1>3. ASSUME NEW c \in Calls, Acquire(c) PROVE GenInv'
  BY <1>3 DEF Acquire
<1>4. ASSUME NEW c \in Calls, VerifyOwnership(c) PROVE GenInv'
  BY <1>4 DEF VerifyOwnership
<1>5. ASSUME NEW c \in Calls, KillDenied(c) PROVE GenInv'
  BY <1>5 DEF KillDenied
<1>6. ASSUME NEW c \in Calls, KillMissed(c) PROVE GenInv'
  BY <1>6 DEF KillMissed
<1>7. ASSUME NEW c \in Calls, Kill(c) PROVE GenInv'
  <2> SUFFICES ASSUME NEW d \in Calls PROVE GenOrder(d)'
    OBVIOUS
  <2> USE <1>7 DEF Kill
  <2>1. target[c] \in Pids /\ aimed[c] \in 0 .. gen[target[c]]
    BY DEF TargetInv, InCall, GenInv
  <2>2. UNCHANGED <<target, aimed, gen>> /\ (pc'[d] = "new" => pc[d] = "new")
    OBVIOUS
  <2>3. signalled' = [signalled EXCEPT ![c] = gen[target[c]]]
    OBVIOUS
  <2>4. CASE d = c
    <3> DEFINE a == aimed'[d]
               g == gen'[target'[d]]
               s == signalled'[d]
    <3>1. target'[d] \in Pids /\ a \in 0 .. g /\ g \in Nat
      BY <2>1, <2>2, <2>4
    <3>2. s = g
      BY <2>2, <2>3, <2>4
    <3>3. s \in a .. g
      <4> HIDE DEF a, g, s
      <4> QED
        BY <3>1, <3>2
    <3> QED
      BY <3>1, <3>3
  <2>5. CASE d # c
    <3>1. GenOrder(d) /\ signalled'[d] = signalled[d] /\ pc'[d] = pc[d]
      BY <2>3, <2>5
    <3> HIDE <1>7 DEF Kill
    <3> QED
      BY <2>2, <3>1
  <2> QED
    BY <2>4, <2>5
<1>8. ASSUME NEW c \in Calls, Snapshot(c) PROVE GenInv'
  BY <1>8 DEF Snapshot
<1>9. ASSUME NEW q \in Pids, ProcessEvent(q), UNCHANGED <<running, callVars>> PROVE GenInv'
  <2>1. \A r \in Pids : gen'[r] \in Nat /\ gen[r] <= gen'[r]
    BY <1>9 DEF ProcessEvent, Spawn, Exit, Reap, Continue
  <2> SUFFICES ASSUME NEW d \in Calls PROVE GenOrder(d)'
    OBVIOUS
  <2>2. GenOrder(d) /\ UNCHANGED <<pc, target, aimed, signalled>>
    BY <1>9 DEF callVars
  <2>3. CASE target[d] \in Pids
    <3> DEFINE a == aimed[d]
               s == signalled[d]
               g == gen[target[d]]
               h == gen'[target[d]]
    <3>1. g \in Nat /\ h \in Nat /\ g <= h /\ a \in Int /\ s \in Int
      <4>1. g \in Nat /\ h \in Nat /\ g <= h
        BY <2>1, <2>3
      <4>2. aimed[d] \in Nat \cup {-1} /\ signalled[d] \in Nat \cup {-1}
        OBVIOUS
      <4> QED
        BY <4>1, <4>2
    <3>2. (a \in 0 .. g => a \in 0 .. h) /\ (s \in a .. g => s \in a .. h)
      <4> HIDE DEF a, s, g, h
      <4> QED
        BY <3>1
    <3> QED
      BY <2>2, <2>3, <3>2
  <2>4. CASE target[d] \notin Pids
    BY <2>2, <2>4
  <2> QED
    BY <2>3, <2>4
<1>10. CASE UNCHANGED mitigatorVars
  BY <1>10 DEF mitigatorVars, callVars
<1>11. CASE Elsewhere
  BY <1>11 DEF Elsewhere, callVars
<1> QED
  BY <1>1, <1>2, <1>3, <1>4, <1>5, <1>6, <1>7, <1>8, <1>9, <1>10, <1>11
  DEF MitigatorAct, MitigatorNext, CallStep

\* Neither the daemon nor its shell is ever the process signalled.
LEMMA SelfStep == CallTypes /\ TargetInv /\ NoSelfHarm /\ MitigatorAct => NoSelfHarm'
<1> SUFFICES ASSUME CallTypes, TargetInv, NoSelfHarm, MitigatorAct
             PROVE  NoSelfHarm'
  OBVIOUS
<1> USE ProcessAssumption, MitigatorAssumption
<1> USE DEF CallTypes, CallsTypeOK, ProcessesTypeOK, TargetInv, InCall, NoSelfHarm,
           procVars, Finish, Goto, Suspend, Alive, Exists, Nobody
<1>1. ASSUME NEW c \in Calls, NEW q \in Pids \cup {0}, Call(c, q) PROVE NoSelfHarm'
  BY <1>1 DEF Call, Refused, Idle
<1>2. ASSUME NEW c \in Calls, CheckOwner(c) PROVE NoSelfHarm'
  BY <1>2 DEF CheckOwner
<1>3. ASSUME NEW c \in Calls, Acquire(c) PROVE NoSelfHarm'
  BY <1>3 DEF Acquire
<1>4. ASSUME NEW c \in Calls, VerifyOwnership(c) PROVE NoSelfHarm'
  BY <1>4 DEF VerifyOwnership
<1>5. ASSUME NEW c \in Calls, KillDenied(c) PROVE NoSelfHarm'
  BY <1>5 DEF KillDenied
<1>6. ASSUME NEW c \in Calls, KillMissed(c) PROVE NoSelfHarm'
  BY <1>6 DEF KillMissed
<1>7. ASSUME NEW c \in Calls, Kill(c) PROVE NoSelfHarm'
  BY <1>7 DEF Kill
<1>8. ASSUME NEW c \in Calls, Snapshot(c) PROVE NoSelfHarm'
  BY <1>8 DEF Snapshot
<1>9. ASSUME NEW q \in Pids, ProcessEvent(q), UNCHANGED <<running, callVars>> PROVE NoSelfHarm'
  BY <1>9 DEF ProcessEvent, Spawn, Exit, Reap, Continue, callVars
<1>10. CASE UNCHANGED mitigatorVars
  BY <1>10 DEF mitigatorVars, callVars
<1>11. CASE Elsewhere
  BY <1>11 DEF Elsewhere, callVars
<1> QED
  BY <1>1, <1>2, <1>3, <1>4, <1>5, <1>6, <1>7, <1>8, <1>9, <1>10, <1>11
  DEF MitigatorAct, MitigatorNext, CallStep

\* A stopped process keeps the call that answers for it.
LEMMA StopsStep == CallTypes /\ CallInv /\ TargetInv /\ GenInv /\ StopsInv /\ MitigatorAct => StopsInv'
<1> SUFFICES ASSUME CallTypes, CallInv, TargetInv, GenInv, StopsInv, MitigatorAct
             PROVE  StopsInv'
  OBVIOUS
<1> USE ProcessAssumption, MitigatorAssumption
<1> USE DEF CallTypes, CallsTypeOK, ProcessesTypeOK, CallInv, TargetInv, InCall, Outcomes,
           StopsInv, AnswersFor, procVars, Finish, Goto, Suspend, Alive, Exists, Nobody
<1>1. ASSUME NEW c \in Calls, NEW q \in Pids \cup {0}, Call(c, q) PROVE StopsInv'
  BY <1>1 DEF Call, Refused, Idle
<1>2. ASSUME NEW c \in Calls, CheckOwner(c) PROVE StopsInv'
  BY <1>2 DEF CheckOwner
<1>3. ASSUME NEW c \in Calls, Acquire(c) PROVE StopsInv'
  BY <1>3 DEF Acquire
<1>4. ASSUME NEW c \in Calls, VerifyOwnership(c) PROVE StopsInv'
  BY <1>4 DEF VerifyOwnership
<1>5. ASSUME NEW c \in Calls, KillDenied(c) PROVE StopsInv'
  BY <1>5 DEF KillDenied
<1>6. ASSUME NEW c \in Calls, KillMissed(c) PROVE StopsInv'
  BY <1>6 DEF KillMissed
<1>7. ASSUME NEW c \in Calls, Kill(c) PROVE StopsInv'
  BY <1>7 DEF Kill
<1>8. ASSUME NEW c \in Calls, Snapshot(c) PROVE StopsInv'
  BY <1>8 DEF Snapshot
<1>9. ASSUME NEW q \in Pids, ProcessEvent(q), UNCHANGED <<running, callVars>> PROVE StopsInv'
  BY <1>9 DEF ProcessEvent, Spawn, Exit, Reap, Continue, callVars
<1>10. CASE UNCHANGED mitigatorVars
  BY <1>10 DEF mitigatorVars, callVars
<1>11. CASE Elsewhere
  BY <1>11 DEF Elsewhere, callVars
<1> QED
  BY <1>1, <1>2, <1>3, <1>4, <1>5, <1>6, <1>7, <1>8, <1>9, <1>10, <1>11
  DEF MitigatorAct, MitigatorNext, CallStep

\* A process that is alive, and not younger than the one that had its pid
\* before the step, was that one, and was alive.
LEMMA AliveBefore ==
  ASSUME ProcessesTypeOK, NEW q \in Pids, NEW r \in Pids, ProcessEvent(q),
         Alive(r)', NEW g \in 0 .. gen[r], gen'[r] = g
  PROVE  gen[r] = g /\ owner'[r] = owner[r] /\ Alive(r)
<1> USE DEF ProcessesTypeOK, Alive, Exists
<1>1. ASSUME NEW u \in Owners, Spawn(q, u)
      PROVE  gen[r] = g /\ owner'[r] = owner[r] /\ Alive(r)
  <2>1. q = r => gen'[r] = gen[r] + 1
    BY <1>1 DEF Spawn
  <2>2. gen[r] \in Nat /\ g <= gen[r] /\ g \in Int
    OBVIOUS
  <2>3. q # r
    BY <2>1, <2>2
  <2> QED
    BY <1>1, <2>3 DEF Spawn
<1>2. CASE Exit(q)
  BY <1>2 DEF Exit
<1>3. CASE Reap(q)
  BY <1>3 DEF Reap
<1>4. CASE Continue(q)
  BY <1>4 DEF Continue
<1> QED
  BY <1>1, <1>2, <1>3, <1>4 DEF ProcessEvent

\* A call that ends without a signal leaves no living target behind.
LEMMA LiveStep == CallTypes /\ CallInv /\ TargetInv /\ GenInv /\ LiveTargetsSignalled /\ MitigatorAct => LiveTargetsSignalled'
<1> SUFFICES ASSUME CallTypes, CallInv, TargetInv, GenInv, LiveTargetsSignalled, MitigatorAct
             PROVE  LiveTargetsSignalled'
  OBVIOUS
<1> USE ProcessAssumption, MitigatorAssumption
<1> USE DEF CallTypes, CallsTypeOK, ProcessesTypeOK, CallInv, TargetInv, GenInv, GenOrder, InCall,
           LiveTargetsSignalled, TargetEnded, Outcomes, procVars, Finish, Goto, Suspend, Alive, Exists, Nobody
<1>1. ASSUME NEW c \in Calls, NEW q \in Pids \cup {0}, Call(c, q) PROVE LiveTargetsSignalled'
  BY <1>1 DEF Call, Refused, Idle, Reaper
<1>2. ASSUME NEW c \in Calls, CheckOwner(c) PROVE LiveTargetsSignalled'
  <2>1. target[c] \in Pids /\ owner[target[c]] = User /\ Alive(target[c])
          => OwnerAnswers(target[c]) = {User}
    BY OurProcess
  <2>2. target[c] \in Pids
    BY <1>2 DEF CheckOwner
  <2>3. UNCHANGED <<procVars, target, aimed, signalled>> /\ pc[c] = "owner"
    BY <1>2 DEF CheckOwner
  <2>4. CASE Goto(c, "acquire")
    BY <2>3, <2>4
  <2>5. ASSUME NEW a \in OwnerAnswers(target[c]), a # User, Finish(c, "None")
        PROVE  LiveTargetsSignalled'
    <3>1. ~(owner[target[c]] = User /\ Alive(target[c]))
      BY <2>1, <2>2, <2>5
    <3> QED
      BY <2>3, <2>5, <3>1
  <2> QED
    BY <1>2, <2>4, <2>5 DEF CheckOwner
<1>3. ASSUME NEW c \in Calls, Acquire(c) PROVE LiveTargetsSignalled'
  BY <1>3 DEF Acquire
<1>4. ASSUME NEW c \in Calls, VerifyOwnership(c) PROVE LiveTargetsSignalled'
  <2>1. owner[target[c]] = User /\ Alive(target[c]) => OwnerAnswers(target[c]) = {User}
    BY <1>4, OurProcess DEF VerifyOwnership
  <2> QED
    BY <1>4, <2>1 DEF VerifyOwnership
<1>5. ASSUME NEW c \in Calls, KillDenied(c) PROVE LiveTargetsSignalled'
  BY <1>5, OurProcess DEF KillDenied
<1>6. ASSUME NEW c \in Calls, KillMissed(c) PROVE LiveTargetsSignalled'
  <2>1. owner[target[c]] = User /\ Alive(target[c]) => Suspendable(target[c])
    BY <1>6, OurProcess DEF KillMissed
  <2> QED
    BY <1>6, <2>1 DEF KillMissed
<1>7. ASSUME NEW c \in Calls, Kill(c) PROVE LiveTargetsSignalled'
  BY <1>7 DEF Kill
<1>8. ASSUME NEW c \in Calls, Snapshot(c) PROVE LiveTargetsSignalled'
  BY <1>8 DEF Snapshot
<1>9. ASSUME NEW q \in Pids, ProcessEvent(q), UNCHANGED <<running, callVars>> PROVE LiveTargetsSignalled'
  <2> SUFFICES ASSUME NEW d \in Calls,
                      pc[d] = "done", target[d] \in Pids \ {Self, Shell},
                      owner'[target[d]] = User,
                      gen'[target[d]] = aimed[d], Alive(target[d])'
               PROVE  signalled[d] = aimed[d]
    BY <1>9 DEF callVars
  <2>1. target[d] \in Pids /\ gen[target[d]] \in Nat
    OBVIOUS
  <2>2. aimed[d] \in 0 .. gen[target[d]]
    BY <2>1
  <2>3. gen[target[d]] = aimed[d] /\ owner[target[d]] = User /\ Alive(target[d])
    <3>1. PICK r \in Pids : r = target[d]
      BY <2>1
    <3>2. Alive(r)' /\ owner'[r] = User /\ gen'[r] = aimed[d]
      BY <1>9, <3>1 DEF callVars
    <3>3. ProcessesTypeOK
      OBVIOUS
    <3>4. gen[r] = aimed[d] /\ owner'[r] = owner[r] /\ Alive(r)
      <4> HIDE DEF Alive, ProcessesTypeOK, CallTypes, CallsTypeOK, CallInv, TargetInv, GenInv, GenOrder,
                   LiveTargetsSignalled
      <4> QED
        BY <1>9, <2>2, <3>1, <3>2, <3>3, AliveBefore
    <3> QED
      BY <3>1, <3>2, <3>4
  <2> QED
    BY <2>3
<1>10. CASE UNCHANGED mitigatorVars
  BY <1>10 DEF mitigatorVars, callVars
<1>11. CASE Elsewhere
  BY <1>11 DEF Elsewhere, callVars
<1> QED
  BY <1>1, <1>2, <1>3, <1>4, <1>5, <1>6, <1>7, <1>8, <1>9, <1>10, <1>11
  DEF MitigatorAct, MitigatorNext, CallStep

\* What has ended stays so, and what has not keeps its owner.
LEMMA EndedStep == CallTypes /\ CallInv /\ TargetInv /\ GenInv /\ EndedInv /\ MitigatorAct => EndedInv'
<1> SUFFICES ASSUME CallTypes, CallInv, TargetInv, GenInv, EndedInv, MitigatorAct
             PROVE  EndedInv'
  OBVIOUS
<1> USE ProcessAssumption, MitigatorAssumption
<1> USE DEF CallTypes, CallsTypeOK, ProcessesTypeOK, CallInv, TargetInv, InCall, EndedInv,
           TargetEnded, Outcomes, procVars, Finish, Goto, Suspend, Alive, Exists
<1>1. ASSUME NEW c \in Calls, NEW q \in Pids \cup {0}, Call(c, q) PROVE EndedInv'
  BY <1>1 DEF Call
<1>2. ASSUME NEW c \in Calls, CheckOwner(c) PROVE EndedInv'
  <2>1. User \in OwnerAnswers(target[c]) => owner[target[c]] = User
    BY <1>2, OwnAnswer DEF CheckOwner
  <2> QED
    BY <1>2, <2>1 DEF CheckOwner
<1>3. ASSUME NEW c \in Calls, Acquire(c) PROVE EndedInv'
  BY <1>3 DEF Acquire
<1>4. ASSUME NEW c \in Calls, VerifyOwnership(c) PROVE EndedInv'
  <2>1. target[c] \in Pids
    BY <1>4 DEF VerifyOwnership
  <2>2. owner[target[c]] = User /\ Alive(target[c]) => OwnerAnswers(target[c]) = {User}
    BY <2>1, OurProcess
  <2>3. owner[target[c]] = User \/ TargetEnded(c)
    BY <1>4 DEF VerifyOwnership
  <2>4. User # "ESRCH"
    OBVIOUS
  <2> QED
    BY <1>4, <2>1, <2>2, <2>3, <2>4 DEF VerifyOwnership
<1>5. ASSUME NEW c \in Calls, KillDenied(c) PROVE EndedInv'
  BY <1>5 DEF KillDenied
<1>6. ASSUME NEW c \in Calls, KillMissed(c) PROVE EndedInv'
  BY <1>6 DEF KillMissed
<1>7. ASSUME NEW c \in Calls, Kill(c) PROVE EndedInv'
  BY <1>7 DEF Kill
<1>8. ASSUME NEW c \in Calls, Snapshot(c) PROVE EndedInv'
  BY <1>8 DEF Snapshot
<1>9. ASSUME NEW q \in Pids, ProcessEvent(q), UNCHANGED <<running, callVars>> PROVE EndedInv'
  <2>1. ASSUME NEW d \in Calls, pc[d] # "new", NEW r \in Pids, target[d] = r,
               Alive(r)', gen'[r] = aimed[d]
        PROVE  gen[r] = aimed[d] /\ owner'[r] = owner[r] /\ Alive(r)
    <3>1. aimed[d] \in 0 .. gen[r]
      BY <2>1 DEF GenInv, GenOrder
    <3>2. ProcessesTypeOK
      OBVIOUS
    <3> HIDE DEF Alive, ProcessesTypeOK, CallTypes, CallsTypeOK, CallInv, TargetInv, EndedInv
    <3> QED
      BY <1>9, <2>1, <3>1, <3>2, AliveBefore
  <2> SUFFICES ASSUME NEW d \in Calls
               PROVE  /\ pc[d] \in {"acquire", "verify"} =>
                           owner'[target[d]] = User \/ TargetEnded(d)'
                      /\ outcome[d] \in {"NotOwned", "Vanished"} =>
                           target[d] \in Pids /\ TargetEnded(d)'
    BY <1>9 DEF callVars
  <2>2. UNCHANGED <<target, aimed>>
    BY <1>9 DEF callVars
  <2>3. pc[d] \in {"acquire", "verify"} \/ outcome[d] \in {"NotOwned", "Vanished"} =>
          target[d] \in Pids /\ pc[d] # "new"
    OBVIOUS
  <2>4. TargetEnded(d)' <=> ~(Alive(target[d])' /\ gen'[target[d]] = aimed[d])
    BY <2>2
  <2>5. ASSUME pc[d] # "new", target[d] \in Pids, ~TargetEnded(d)'
        PROVE  owner'[target[d]] = owner[target[d]] /\ ~TargetEnded(d)
    <3>1. PICK r \in Pids : r = target[d]
      BY <2>5
    <3>2. gen[r] = aimed[d] /\ owner'[r] = owner[r] /\ Alive(r)
      BY <2>1, <2>2, <2>4, <2>5, <3>1
    <3> QED
      BY <3>1, <3>2
  <2>6. /\ pc[d] \in {"acquire", "verify"} => owner[target[d]] = User \/ TargetEnded(d)
        /\ outcome[d] \in {"NotOwned", "Vanished"} => TargetEnded(d)
    OBVIOUS
  <2> HIDE DEF TargetEnded, EndedInv
  <2> QED
    BY <2>3, <2>5, <2>6
<1>10. CASE UNCHANGED mitigatorVars
  BY <1>10 DEF mitigatorVars, callVars
<1>11. CASE Elsewhere
  BY <1>11 DEF Elsewhere, callVars
<1> QED
  BY <1>1, <1>2, <1>3, <1>4, <1>5, <1>6, <1>7, <1>8, <1>9, <1>10, <1>11
  DEF MitigatorAct, MitigatorNext, CallStep

\* The inductive invariant, at the start ...
LEMMA MitigatorInvInit == MitigatorInit => MitigatorInv
<1> SUFFICES ASSUME MitigatorInit PROVE MitigatorInv
  OBVIOUS
<1> USE ProcessAssumption, MitigatorAssumption
<1> USE DEF MitigatorInit, ProcessesInit, CallsInit, Nobody
<1>1. CallTypes
  BY DEF CallTypes, CallsTypeOK, ProcessesTypeOK, Outcomes, Supported
<1>2. ControlInv /\ CallInv
  BY DEF ControlInv, CallInv, InCall, InLock
<1>3. TargetInv /\ GenInv
  BY DEF TargetInv, GenInv, GenOrder, InCall
<1>4. NoSelfHarm /\ StopsInv /\ LiveTargetsSignalled /\ EndedInv
  BY DEF NoSelfHarm, StopsInv, LiveTargetsSignalled, EndedInv
<1> QED
  BY <1>1, <1>2, <1>3, <1>4 DEF MitigatorInv

\* ... and through any step the calls can see.
LEMMA MitigatorStep == MitigatorInv /\ MitigatorAct => MitigatorInv'
BY TypeStep, ControlStep, CallInvStep, TargetStep, GenStep, SelfStep,
   StopsStep, LiveStep, EndedStep
DEF MitigatorInv

-----------------------------------------------------------------------------
(* The invariant holds, and with it the properties.                        *)

\* Every reachable state satisfies the inductive invariant.
THEOREM MitigatorInvariance == MitigatorSpec => []MitigatorInv
<1>1. MitigatorInit => MitigatorInv
  BY MitigatorInvInit
<1>2. MitigatorInv /\ [MitigatorNext]_mitigatorVars => MitigatorInv'
  BY MitigatorStep DEF MitigatorAct
<1> QED
  BY <1>1, <1>2, PTL DEF MitigatorSpec

\* Every variable keeps its type.
THEOREM MitigatorTypeCorrect == MitigatorSpec => []MitigatorTypeOK
<1> DEFINE OnLoop == running \in Calls \cup {"loop"}
<1>1. MitigatorInit => OnLoop
  BY DEF MitigatorInit
<1>2. OnLoop /\ [MitigatorNext]_mitigatorVars => OnLoop'
  BY DEF MitigatorNext, mitigatorVars, CallStep, Call, CheckOwner, Acquire,
     VerifyOwnership, KillDenied, KillMissed, Kill, Snapshot, Finish, Goto, Suspend
<1>3. MitigatorInv /\ OnLoop => MitigatorTypeOK
  BY DEF MitigatorInv, CallTypes, MitigatorTypeOK
<1> QED
  BY <1>1, <1>2, <1>3, MitigatorInvariance, PTL DEF MitigatorSpec

\* freeze_threat() never stops the daemon or the shell that started it.
THEOREM SelfTargetingGuard == MitigatorSpec => []NoSelfHarm
BY MitigatorInvariance, PTL DEF MitigatorInv

\* No silent freeze: outcomes and stopped processes agree.
THEOREM FreezesAccountedFor == MitigatorSpec => []FreezesAccounted
<1>1. MitigatorInv => FreezesAccounted
  BY DEF MitigatorInv, FreezesAccounted, CallInv, StopsInv, AnswersFor
<1> QED
  BY <1>1, MitigatorInvariance, PTL

\* freeze_threat() gives up only on targets that are not to be stopped or
\* have ended.
THEOREM LiveTargetsAreSignalled == MitigatorSpec => []LiveTargetsSignalled
BY MitigatorInvariance, PTL DEF MitigatorInv

\* freeze_pid's checks raise only for a target that has ended.
THEOREM RaisesForEndedTargets == MitigatorSpec => []RaisesOnlyForEnded
<1>1. MitigatorInv => RaisesOnlyForEnded
  BY DEF MitigatorInv, EndedInv, RaisesOnlyForEnded
<1> QED
  BY <1>1, MitigatorInvariance, PTL

\* The action lock is free whenever a call comes to take it.
THEOREM LockFree == MitigatorSpec => []LockNeverContended
<1>1. MitigatorInv => LockNeverContended
  <2> SUFFICES ASSUME MitigatorInv, NEW c \in Calls, pc[c] = "acquire"
               PROVE  lock = NoCall
    BY DEF LockNeverContended
  <2>1. running = c
    BY DEF MitigatorInv, ControlInv, InCall
  <2>2. \A d \in Calls : d # c => pc[d] \notin InLock
    BY <2>1 DEF MitigatorInv, ControlInv, InCall, InLock
  <2> QED
    BY <2>2 DEF MitigatorInv, CallTypes, CallsTypeOK, ControlInv, InLock
<1> QED
  BY <1>1, MitigatorInvariance, PTL
-----------------------------------------------------------------------------
(* freeze_threat() implements FreezePromise.                               *)

Stages == [c \in Calls |-> StageOf(c)]

\* A step that gives call c the stage `to`, and no other call a new one,
\* changes the mapped stages at c.
LEMMA StagesAt ==
  ASSUME NEW c \in Calls, NEW to, StageOf(c)' = to,
         \A d \in Calls \ {c} : StageOf(d)' = StageOf(d)
  PROVE  Stages' = [Stages EXCEPT ![c] = to]
BY DEF Stages

\* A step of call c that leaves the processes as they are.
LEMMA QuietStep ==
  ASSUME CallTypes, NEW c \in Calls, NEW a, NEW b,
         pc' = [pc EXCEPT ![c] = a], outcome' = [outcome EXCEPT ![c] = b],
         UNCHANGED procVars
  PROVE  /\ Stopped' = Stopped
         /\ \A d \in Calls \ {c} : StageOf(d)' = StageOf(d)
<1>1. \A d \in Calls \ {c} : pc'[d] = pc[d] /\ outcome'[d] = outcome[d]
  BY DEF CallTypes, CallsTypeOK
<1> QED
  BY <1>1 DEF Stopped, StageOf, procVars

\* A call that goes on, without having sent its signal, does nothing yet.
LEMMA GoesOn ==
  ASSUME CallTypes, NEW c \in Calls,
         pc[c] \in {"owner", "acquire", "verify"},
         pc'[c] \in {"acquire", "verify", "kill"},
         pc' = [pc EXCEPT ![c] = pc'[c]], UNCHANGED <<procVars, target, outcome>>
  PROVE  UNCHANGED Promise!promiseVars
<1>1. outcome' = [outcome EXCEPT ![c] = outcome[c]]
  BY DEF CallTypes, CallsTypeOK
<1>2. Stopped' = Stopped /\ \A d \in Calls \ {c} : StageOf(d)' = StageOf(d)
  BY <1>1, QuietStep
<1>3. StageOf(c) = "asked" /\ StageOf(c)' = "asked"
  BY DEF StageOf
<1> QED
  BY <1>2, <1>3 DEF Promise!promiseVars

\* A call that ends moves its stage, and nothing else.
LEMMA EndsWith ==
  ASSUME CallTypes, NEW c \in Calls, NEW result, Finish(c, result),
         UNCHANGED <<procVars, target>>
  PROVE  /\ UNCHANGED <<Stopped, target>>
         /\ Stages' = [Stages EXCEPT ![c] =
                         CASE result = "report" -> "reported"
                           [] result = "SnapshotError" -> "failed"
                           [] OTHER -> "refused"]
<1>1. Stopped' = Stopped /\ \A d \in Calls \ {c} : StageOf(d)' = StageOf(d)
  BY QuietStep DEF Finish
<1>2. pc'[c] = "done" /\ outcome'[c] = result
  BY DEF Finish, CallTypes, CallsTypeOK
<1>3. StageOf(c)' = CASE result = "report" -> "reported"
                      [] result = "SnapshotError" -> "failed"
                      [] OTHER -> "refused"
  BY <1>2 DEF StageOf
<1> QED
  BY <1>1, <1>3, StagesAt

\* Before its signal, a call that ends without a report was turned away.
LEMMA TurnedAway ==
  ASSUME CallTypes, NEW c \in Calls, NEW result, Finish(c, result),
         pc[c] \in {"owner", "acquire", "verify", "kill"},
         result \in {"None", "OSPrimitiveError", "NotOwned", "Vanished"},
         UNCHANGED <<procVars, target>>
  PROVE  Promise!TurnAway(c)
<1>1. StageOf(c) = "asked"
  BY DEF StageOf
<1>2. UNCHANGED <<Stopped, target>> /\ Stages' = [Stages EXCEPT ![c] = "refused"]
  BY EndsWith
<1> QED
  BY <1>1, <1>2 DEF Promise!TurnAway, Promise!Advance, Stages

\* Every step of freeze_threat(), and of the processes, is one of the promise.
LEMMA PromiseStep ==
  MitigatorInv /\ MitigatorAct
    => [Promise!Next]_(Promise!promiseVars)
<1> SUFFICES ASSUME MitigatorInv, MitigatorAct
             PROVE  Promise!Next \/ UNCHANGED Promise!promiseVars
  OBVIOUS
<1> USE DEF MitigatorInv
<1>t. CallTypes
  OBVIOUS
<1>1. ASSUME NEW c \in Calls, NEW q \in Pids \cup {0}, Call(c, q)
      PROVE  Promise!Ask(c, q)
  <2>1. target' = [target EXCEPT ![c] = q] /\ UNCHANGED procVars
    BY <1>1 DEF Call
  <2>2. StageOf(c) = "new"
    BY <1>1 DEF Call, StageOf
  <2>3. CASE Refused(q)
    <3>1. pc' = [pc EXCEPT ![c] = "done"] /\ outcome' = [outcome EXCEPT ![c] = "None"]
      BY <1>1, <2>3 DEF Call
    <3>2. Stopped' = Stopped /\ \A d \in Calls \ {c} : StageOf(d)' = StageOf(d)
      BY <1>t, <2>1, <3>1, QuietStep
    <3>3. StageOf(c)' = "refused"
      BY <1>t, <3>1 DEF StageOf, CallTypes, CallsTypeOK
    <3>4. Stages' = [Stages EXCEPT ![c] = "refused"]
      BY <3>2, <3>3, StagesAt
    <3> QED
      BY <2>1, <2>2, <3>2, <3>4 DEF Promise!Ask, Promise!Advance, Stages
  <2>4. CASE ~Refused(q)
    <3>1. pc' = [pc EXCEPT ![c] = "owner"] /\ outcome' = [outcome EXCEPT ![c] = outcome[c]]
      BY <1>1, <1>t, <2>4 DEF Call, CallTypes, CallsTypeOK
    <3>2. Stopped' = Stopped /\ \A d \in Calls \ {c} : StageOf(d)' = StageOf(d)
      BY <1>t, <2>1, <3>1, QuietStep
    <3>3. StageOf(c)' = "asked"
      BY <1>t, <3>1 DEF StageOf, CallTypes, CallsTypeOK
    <3>4. Stages' = [Stages EXCEPT ![c] = "asked"]
      BY <3>2, <3>3, StagesAt
    <3> QED
      BY <2>1, <2>2, <3>2, <3>4 DEF Promise!Ask, Promise!Advance, Stages
  <2> QED
    BY <2>3, <2>4
<1>2. ASSUME NEW c \in Calls, CheckOwner(c)
      PROVE  Promise!TurnAway(c) \/ UNCHANGED Promise!promiseVars
  <2>1. pc[c] = "owner" /\ UNCHANGED <<procVars, target>>
    BY <1>2 DEF CheckOwner
  <2>2. CASE Goto(c, "acquire")
    <3>1. /\ pc' = [pc EXCEPT ![c] = pc'[c]] /\ pc'[c] = "acquire"
          /\ UNCHANGED <<procVars, target, outcome>>
      BY <1>t, <2>1, <2>2 DEF Goto, CallTypes, CallsTypeOK
    <3>2. pc[c] \in {"owner", "acquire", "verify"}
      BY <2>1
    <3>3. UNCHANGED Promise!promiseVars
      BY <1>t, <3>1, <3>2, GoesOn
    <3> QED
      BY <3>3
  <2>3. CASE Finish(c, "None")
    BY <1>t, <2>1, <2>3, TurnedAway
  <2> QED
    BY <1>2, <2>2, <2>3 DEF CheckOwner
<1>3. ASSUME NEW c \in Calls, Acquire(c) PROVE UNCHANGED Promise!promiseVars
  <2>1. /\ pc[c] = "acquire" /\ pc' = [pc EXCEPT ![c] = pc'[c]] /\ pc'[c] = "verify"
        /\ UNCHANGED <<procVars, target, outcome>>
    BY <1>3, <1>t DEF Acquire, CallTypes, CallsTypeOK
  <2> QED
    BY <1>t, <2>1, GoesOn
<1>4. ASSUME NEW c \in Calls, VerifyOwnership(c)
      PROVE  Promise!TurnAway(c) \/ UNCHANGED Promise!promiseVars
  <2>1. pc[c] = "verify" /\ UNCHANGED <<procVars, target>>
    BY <1>4 DEF VerifyOwnership
  <2>2. CASE Goto(c, "kill")
    <3>1. /\ pc' = [pc EXCEPT ![c] = pc'[c]] /\ pc'[c] = "kill"
          /\ UNCHANGED <<procVars, target, outcome>>
      BY <1>t, <2>1, <2>2 DEF Goto, CallTypes, CallsTypeOK
    <3>2. pc[c] \in {"owner", "acquire", "verify"}
      BY <2>1
    <3>3. UNCHANGED Promise!promiseVars
      BY <1>t, <3>1, <3>2, GoesOn
    <3> QED
      BY <3>3
  <2>3. ASSUME NEW r \in {"Vanished", "NotOwned"}, Finish(c, r) PROVE Promise!TurnAway(c)
    BY <1>t, <2>1, <2>3, TurnedAway
  <2> QED
    BY <1>4, <2>2, <2>3 DEF VerifyOwnership
<1>5. ASSUME NEW c \in Calls, KillDenied(c) PROVE Promise!TurnAway(c)
  BY <1>5, <1>t, TurnedAway DEF KillDenied
<1>6. ASSUME NEW c \in Calls, KillMissed(c) PROVE Promise!TurnAway(c)
  BY <1>6, <1>t, TurnedAway DEF KillMissed
<1>7. ASSUME NEW c \in Calls, Kill(c) PROVE Promise!Stop(c)
  <2> DEFINE q == target[c]
  <2>1. pc[c] = "kill" /\ running = c /\ UNCHANGED <<target, outcome>>
    BY <1>7 DEF Kill, Goto
  <2>2. pc' = [pc EXCEPT ![c] = "snapshot"]
    BY <1>7 DEF Kill, Goto
  <2>3. state' = IF Alive(q) THEN [state EXCEPT ![q] = "stopped"] ELSE state
    BY <1>7 DEF Kill
  <2>4. q \in Pids \ {Self}
    BY <2>1 DEF TargetInv, InCall
  <2>5. Stopped' \in {Stopped, Stopped \cup {q}}
    BY <1>t, <2>3, <2>4 DEF Stopped, CallTypes, CallsTypeOK, ProcessesTypeOK
  <2>6. \A d \in Calls : StageOf(d) # "holding"
    <3>1. \A d \in Calls : pc[d] # "snapshot"
      BY <2>1 DEF ControlInv, InCall
    <3> QED
      BY <1>t, <3>1 DEF StageOf, CallTypes, CallsTypeOK
  <2>7. StageOf(c) = "asked"
    BY <2>1 DEF StageOf
  <2>8. Stages' = [Stages EXCEPT ![c] = "holding"]
    <3>1. pc'[c] = "snapshot" /\ \A d \in Calls \ {c} : pc'[d] = pc[d]
      BY <1>t, <2>2 DEF CallTypes, CallsTypeOK
    <3>2. StageOf(c)' = "holding"
      BY <3>1 DEF StageOf
    <3>3. \A d \in Calls \ {c} : StageOf(d)' = StageOf(d)
      BY <2>1, <3>1 DEF StageOf
    <3> QED
      BY <3>2, <3>3, StagesAt
  <2> QED
    BY <2>1, <2>4, <2>5, <2>6, <2>7, <2>8 DEF Promise!Stop, Promise!Advance, Stages
<1>8. ASSUME NEW c \in Calls, Snapshot(c) PROVE Promise!Answer(c)
  <2>1. pc[c] = "snapshot" /\ UNCHANGED <<procVars, target>>
    BY <1>8 DEF Snapshot
  <2>2. StageOf(c) = "holding"
    BY <2>1 DEF StageOf
  <2>3. CASE Finish(c, "report")
    <3>1. UNCHANGED <<Stopped, target>> /\ Stages' = [Stages EXCEPT ![c] = "reported"]
      BY <1>t, <2>1, <2>3, EndsWith
    <3> QED
      BY <2>2, <3>1 DEF Promise!Answer, Promise!Advance, Stages
  <2>4. CASE Finish(c, "SnapshotError")
    <3>1. UNCHANGED <<Stopped, target>> /\ Stages' = [Stages EXCEPT ![c] = "failed"]
      BY <1>t, <2>1, <2>4, EndsWith
    <3> QED
      BY <2>2, <3>1 DEF Promise!Answer, Promise!Advance, Stages
  <2> QED
    BY <1>8, <2>3, <2>4 DEF Snapshot
<1>9. ASSUME NEW q \in Pids, ProcessEvent(q), UNCHANGED <<running, callVars>>
      PROVE  Promise!Released(q)
  <2>1. \A r \in Pids \ {q} : state'[r] = state[r]
    BY <1>9, <1>t DEF ProcessEvent, Spawn, Exit, Reap, Continue, CallTypes, CallsTypeOK,
       ProcessesTypeOK
  <2>2. state'[q] # "stopped"
    BY <1>9, <1>t DEF ProcessEvent, Spawn, Exit, Reap, Continue, CallTypes, CallsTypeOK,
       ProcessesTypeOK
  <2>3. Stopped' = Stopped \ {q}
    BY <2>1, <2>2 DEF Stopped
  <2>4. UNCHANGED <<target, Stages>>
    BY <1>9 DEF callVars, Stages, StageOf
  <2> QED
    BY <2>3, <2>4 DEF Promise!Released, Stages
<1>10. ASSUME UNCHANGED mitigatorVars PROVE UNCHANGED Promise!promiseVars
  BY <1>10 DEF mitigatorVars, callVars, procVars, Promise!promiseVars, Stopped, StageOf
<1>11. ASSUME Elsewhere PROVE UNCHANGED Promise!promiseVars
  BY <1>11 DEF Elsewhere, callVars, procVars, Promise!promiseVars, Stopped, StageOf
<1> QED
  BY <1>1, <1>2, <1>3, <1>4, <1>5, <1>6, <1>7, <1>8, <1>9, <1>10, <1>11
  DEF MitigatorAct, MitigatorNext, CallStep, Promise!Next

\* At the start nothing has been asked or stopped.
LEMMA PromiseInit == MitigatorInit => Promise!Init
BY ProcessAssumption
DEF MitigatorInit, ProcessesInit, CallsInit, Promise!Init, Stopped, StageOf

\* freeze_threat() does what FreezePromise says, for all processes and calls.
THEOREM PromiseKept == MitigatorSpec => KeepsFreezePromise
<1>1. MitigatorInit => Promise!Init
  BY PromiseInit
<1>2. MitigatorInv /\ [MitigatorNext]_mitigatorVars => [Promise!Next]_Promise!promiseVars
  BY PromiseStep DEF MitigatorAct
<1> QED
  BY <1>1, <1>2, MitigatorInvariance, PTL
  DEF MitigatorSpec, KeepsFreezePromise, Promise!Spec

=============================================================================
