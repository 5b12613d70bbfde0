-------------------------- MODULE ThreatMitigator --------------------------
(***************************************************************************)
(* engine/mitigator.py: freeze_threat(), one call per callback task, on    *)
(* each platform adapter's get_process_owner() and freeze_pid().  Every    *)
(* step below is one question put to the operating system, so processes    *)
(* come and go between any two of them; other tasks do not, as nothing in  *)
(* freeze_threat() awaits once its lock is free.                           *)
(***************************************************************************)
EXTENDS EventLoop, OSProcesses

CONSTANTS
  Calls,     \* calls of freeze_threat
  NoCall     \* no call

ASSUME MitigatorAssumption ==
  NoCall \notin Calls /\ "loop" \notin Calls

VARIABLES
  pc,        \* where each call stands
  target,    \* its argument `pid`; 0 before the call
  outcome,   \* what it returned or raised
  lock,      \* holder of self._action_lock, or NoCall
  aimed,     \* history: gen of the target's process when the call started
  signalled  \* history: gen of the process the call sent SIGSTOP to

callVars == <<pc, target, outcome, lock, aimed, signalled>>
mitigatorVars == <<running, procVars, callVars>>

Nobody == -1

\* "None" and "report" are returned; "OSPrimitiveError" is raised on purpose;
\* "escaped" is any other exception leaving the call.
Outcomes == {"pending", "None", "report", "OSPrimitiveError",
             "NotOwned", "Vanished", "SnapshotError"}

CallsTypeOK ==
  /\ pc \in [Calls -> {"new", "owner", "acquire", "verify", "kill",
                       "snapshot", "done"}]
  /\ target \in [Calls -> Pids \cup {0}]
  /\ outcome \in [Calls -> Outcomes]
  /\ lock \in Calls \cup {NoCall}
  /\ aimed \in [Calls -> Nat \cup {Nobody}]
  /\ signalled \in [Calls -> Nat \cup {Nobody}]

MitigatorTypeOK ==
  running \in Calls \cup {"loop"} /\ ProcessesTypeOK /\ CallsTypeOK

CallsInit ==
  /\ pc = [c \in Calls |-> "new"]
  /\ target = [c \in Calls |-> 0]
  /\ outcome = [c \in Calls |-> "pending"]
  /\ lock = NoCall
  /\ aimed = [c \in Calls |-> Nobody]
  /\ signalled = [c \in Calls |-> Nobody]

MitigatorInit == running = "loop" /\ ProcessesInit /\ CallsInit

\* The results get_process_owner(q) can give now.  Linux reads the status file:
\* the uid; -1 when the file is gone; ESRCH, which is not caught, when the
\* process ends while the file is read.
LinuxOwner(q) == IF Exists(q) THEN {owner[q]} ELSE {"-1", "ESRCH"}

\* macOS asks psutil, which may not answer for a zombie; all it raises is caught.
DarwinOwner(q) ==
  CASE Alive(q) -> {owner[q]}
    [] Exists(q) /\ ~Alive(q) -> {owner[q], "-1"}
    [] ~Exists(q) -> {"-1"}

\* Windows opens the process: no SID ("") when it is gone, or not ours to open (which
\* goes for an elevated process, too).
WindowsOwner(q) ==
  CASE Alive(q) /\ owner[q] = User -> {User}
    [] Exists(q) /\ ~(Alive(q) /\ owner[q] = User) -> {owner[q], "NoSID"}
    [] ~Exists(q) -> {"NoSID"}

OwnerAnswers(q) ==
  CASE system = "linux" -> LinuxOwner(q)
    [] system = "darwin" -> DarwinOwner(q)
    [] system = "win32" -> WindowsOwner(q)

\* What freeze_pid() does to q after its ownership check.  os.kill(q, SIGSTOP)
\* works on any process of ours, a zombie included; OpenProcess() and
\* NtSuspendProcess() only on one that has not ended.
Suspendable(q) ==
  owner[q] = User /\ IF system = "win32" THEN Alive(q) ELSE Exists(q)

\* os.kill() raises PermissionError; Windows has no such answer.
Denied(q) == system # "win32" /\ Exists(q) /\ owner[q] # User

\* Fault: the lock is not released on the way out.
FinishKeepingLock(c, result) ==
  /\ pc' = [pc EXCEPT ![c] = "done"]
  /\ outcome' = [outcome EXCEPT ![c] = result]
  /\ Suspend
  /\ UNCHANGED lock

\* The call ends, with its lock released if it holds it.
Finish(c, result) ==
  /\ pc' = [pc EXCEPT ![c] = "done"]
  /\ outcome' = [outcome EXCEPT ![c] = result]
  /\ lock' = IF lock = c THEN NoCall ELSE lock
  /\ Suspend

Goto(c, label) ==
  /\ pc' = [pc EXCEPT ![c] = label]
  /\ UNCHANGED <<outcome, lock, running>>

\* Fault: only the daemon itself is refused.
RefusedSelfOnly(q) == q <= 0 \/ q = Self

\* Fault: only processes started after the daemon are taken for threats.
RefusedOlder(q) == q <= Self \/ q = ppid

\* Lines 23-34: an invalid pid, the daemon or its current parent is refused.
Refused(q) == q <= 0 \/ q = Self \/ q = ppid

\* A callback task calls freeze_threat(q).
Call(c, q) ==
  /\ pc[c] = "new"
  /\ Idle
  /\ target' = [target EXCEPT ![c] = q]
  /\ aimed' = [aimed EXCEPT ![c] = IF q \in Pids THEN gen[q] ELSE Nobody]
  /\ IF Refused(q)
     THEN /\ pc' = [pc EXCEPT ![c] = "done"]
          /\ outcome' = [outcome EXCEPT ![c] = "None"]
          /\ UNCHANGED running
     ELSE /\ pc' = [pc EXCEPT ![c] = "owner"]
          /\ running' = c
          /\ UNCHANGED outcome
  /\ UNCHANGED <<procVars, lock, signalled>>

\* Fault: a process whose owner cannot be told is left to freeze_pid's own check.
CheckOwnerIfKnown(c) ==
  /\ running = c /\ pc[c] = "owner"
  /\ \E a \in OwnerAnswers(target[c]) :
       IF a \in {User, "-1", "NoSID"} THEN Goto(c, "acquire") ELSE Finish(c, "None")
  /\ UNCHANGED <<procVars, target, aimed, signalled>>

\* Lines 42-51: any answer but our own uid ends the call.
CheckOwner(c) ==
  /\ running = c /\ pc[c] = "owner"
  /\ \E a \in OwnerAnswers(target[c]) :
       IF a = User THEN Goto(c, "acquire") ELSE Finish(c, "None")
  /\ UNCHANGED <<procVars, target, aimed, signalled>>

\* `async with self._action_lock`: a free lock is taken without suspending.
Acquire(c) ==
  /\ running = c /\ pc[c] = "acquire"
  /\ lock = NoCall
  /\ lock' = c
  /\ pc' = [pc EXCEPT ![c] = "verify"]
  /\ UNCHANGED <<running, procVars, target, outcome, aimed, signalled>>

\* freeze_pid: _verify_ownership, outside its try.
VerifyOwnership(c) ==
  /\ running = c /\ pc[c] = "verify"
  /\ \E a \in OwnerAnswers(target[c]) :
       \/ a = User /\ Goto(c, "kill")
       \/ a = "ESRCH" /\ Finish(c, "Vanished")
       \/ a \notin {User, "ESRCH"} /\ Finish(c, "NotOwned")
  /\ UNCHANGED <<procVars, target, aimed, signalled>>

\* The signal is refused: freeze_pid raises.
KillDenied(c) ==
  /\ running = c /\ pc[c] = "kill"
  /\ Denied(target[c])
  /\ Finish(c, "OSPrimitiveError")
  /\ UNCHANGED <<procVars, target, aimed, signalled>>

\* Fault: ProcessLookupError is left out of freeze_pid's handlers.
KillMissedRaises(c) ==
  /\ running = c /\ pc[c] = "kill"
  /\ ~Suspendable(target[c]) /\ ~Denied(target[c])
  /\ Finish(c, "ProcessLookupError")
  /\ UNCHANGED <<procVars, target, aimed, signalled>>

\* There is nothing to suspend: freeze_pid returns False, the race is logged.
KillMissed(c) ==
  /\ running = c /\ pc[c] = "kill"
  /\ ~Suspendable(target[c]) /\ ~Denied(target[c])
  /\ Finish(c, "None")
  /\ UNCHANGED <<procVars, target, aimed, signalled>>

\* Fault: the process is checked after the signal instead of before.
KillThenRecheck(c) ==
  /\ running = c /\ pc[c] = "kill"
  /\ LET q == target[c] IN
       /\ Suspendable(q)
       /\ state' = IF Alive(q) THEN [state EXCEPT ![q] = "stopped"] ELSE state
       /\ signalled' = [signalled EXCEPT ![c] = gen[q]]
       /\ IF gen[q] = aimed[c] THEN Goto(c, "snapshot") ELSE Finish(c, "None")
  /\ UNCHANGED <<system, owner, gen, ppid, target, aimed>>

\* Fault: the snapshot is moved to a thread and awaited under the lock.
KillThenAwait(c) ==
  /\ running = c /\ pc[c] = "kill"
  /\ LET q == target[c] IN
       /\ Suspendable(q)
       /\ state' = IF Alive(q) THEN [state EXCEPT ![q] = "stopped"] ELSE state
       /\ signalled' = [signalled EXCEPT ![c] = gen[q]]
  /\ pc' = [pc EXCEPT ![c] = "snapshot"]
  /\ Suspend
  /\ UNCHANGED <<system, owner, gen, ppid, target, aimed, outcome, lock>>

\* The process is stopped; a zombie takes the signal and stays a zombie.
Kill(c) ==
  /\ running = c /\ pc[c] = "kill"
  /\ LET q == target[c] IN
       /\ Suspendable(q)
       /\ state' = IF Alive(q) THEN [state EXCEPT ![q] = "stopped"] ELSE state
       /\ signalled' = [signalled EXCEPT ![c] = gen[q]]
  /\ Goto(c, "snapshot")
  /\ UNCHANGED <<system, owner, gen, ppid, target, aimed>>

\* capture_snapshot: a report, or an exception freeze_threat does not handle.
Snapshot(c) ==
  /\ running = c /\ pc[c] = "snapshot"
  /\ Finish(c, "report") \/ Finish(c, "SnapshotError")
  /\ UNCHANGED <<procVars, target, aimed, signalled>>

CallStep(c) ==
  \/ CheckOwner(c) \/ Acquire(c) \/ VerifyOwnership(c)
  \/ KillDenied(c) \/ KillMissed(c) \/ Kill(c) \/ Snapshot(c)

MitigatorNext ==
  \/ \E c \in Calls : CallStep(c) \/ \E q \in Pids \cup {0} : Call(c, q)
  \/ \E q \in Pids : ProcessEvent(q) /\ UNCHANGED <<running, callVars>>

MitigatorSpec ==
  /\ MitigatorInit /\ [][MitigatorNext]_mitigatorVars
  /\ \A c \in Calls : WF_mitigatorVars(CallStep(c))

-----------------------------------------------------------------------------
(* Properties.                                                             *)

\* The self-targeting guard: the daemon and the shell that started it are
\* never stopped, though the guard runs several steps before the signal and
\* the shell may end, and its pid be reused, in between.
NoSelfHarm ==
  /\ state[Self] = "running"
  /\ Shell \in Pids /\ gen[Shell] = 0 => state[Shell] # "stopped"

\* A call that returns None, or raises before the snapshot, signalled nobody;
\* a call that returns a report signalled a process; and every stopped process
\* was signalled by a call whose outcome does not deny it.
FreezesAccounted ==
  /\ \A c \in Calls :
       /\ outcome[c] \in {"None", "OSPrimitiveError", "NotOwned", "Vanished"}
            => signalled[c] = Nobody
       /\ outcome[c] = "report" => signalled[c] # Nobody
  /\ \A q \in Pids :
       state[q] = "stopped" =>
         \E c \in Calls :
           /\ target[c] = q /\ signalled[c] = gen[q]
           /\ outcome[c] \in {"pending", "report", "SnapshotError"}

\* The target of call c, as it was when the call was made, has ended since.
TargetEnded(c) ==
  gen[target[c]] # aimed[c] \/ ~Alive(target[c])

\* freeze_threat() gives up only on a process that may not be stopped or that
\* has ended: a reader that stays alive does not slip through its checks.
LiveTargetsSignalled ==
  \A c \in Calls :
    /\ pc[c] = "done"
    /\ target[c] \in Pids \ {Self, Shell}
    /\ owner[target[c]] = User
    /\ ~TargetEnded(c)
    => signalled[c] = aimed[c]

\* freeze_pid's checks raise out of freeze_threat() only for a target that has
\* ended since the call was made, and no callback task dies of a reader that is
\* alive, whoever owns it: what the second owner check can find, the first found.
RaisesOnlyForEnded ==
  \A c \in Calls : outcome[c] \in {"NotOwned", "Vanished"} => TargetEnded(c)

\* Whoever asks for the action lock finds it free: freeze_threat() never
\* suspends, so a freeze is never delayed behind another one.
LockNeverContended ==
  \A c \in Calls : pc[c] = "acquire" => lock = NoCall

\* Every freeze_threat() call ends, with the lock released for the next one.
CallsEnd ==
  \A c \in Calls : pc[c] \notin {"new", "done"} ~> pc[c] = "done"

\* The processes that are stopped, and how far the callers of freeze_threat()
\* can tell call c has come.
Stopped == {q \in Pids : state[q] = "stopped"}

StageOf(c) ==
  CASE pc[c] = "new" -> "new"
    [] pc[c] \in {"owner", "acquire", "verify", "kill"} -> "asked"
    [] pc[c] = "snapshot" -> "holding"
    [] pc[c] = "done" -> CASE outcome[c] = "report" -> "reported"
                           [] outcome[c] = "SnapshotError" -> "failed"
                           [] OTHER -> "refused"

Promise == INSTANCE FreezePromise WITH
  stopped <- Stopped, goal <- target, stage <- [c \in Calls |-> StageOf(c)]

\* freeze_threat(), in all its steps and with all that happens in between, does
\* what FreezePromise says in one: a target is turned away untouched or is
\* stopped and answered for, one at a time, and nothing else stops anything.
KeepsFreezePromise == Promise!Spec

\* A process that exits mid-inspection is handled inside the engine: the call
\* returns, it does not raise.
ExitsAreHandled ==
  \A c \in Calls : outcome[c] \notin {"NotOwned", "Vanished"}

=============================================================================
