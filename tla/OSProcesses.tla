---------------------------- MODULE OSProcesses ----------------------------
(***************************************************************************)
(* External: the processes the daemon can see and signal.  A pid is reused *)
(* once its process has been reaped, so `gen` counts the processes that    *)
(* have had it.  The daemon itself is alive throughout.                    *)
(***************************************************************************)
EXTENDS Integers

CONSTANTS
  Systems,  \* operating systems the program may be running on
  Pids,     \* process ids in play
  Self,     \* os.getpid()
  Shell,    \* the process that started the daemon; outside Pids, it lives on
  Owners,   \* users
  User,     \* os.getuid(), or the daemon's own SID
  MaxGen    \* bound: processes a pid is given to after the first

\* get_platform_adapter() raises for any other system, and the program ends.
Supported == {"linux", "darwin", "win32"}

ASSUME SystemsAssumption == Systems \subseteq Supported

ASSUME ProcessAssumption ==
  /\ Pids \subseteq Nat \ {0}
  /\ Self \in Pids
  /\ Shell \in Nat \ {0, Self}
  /\ User \in Owners
  /\ Owners \cap {"-1", "NoSID", "ESRCH"} = {}   \* answers that are no owner
  /\ MaxGen \in Nat

VARIABLES
  system,  \* sys.platform, which chooses the adapter
  state,   \* of the process that has each pid
  owner,   \* its real uid, or its SID
  gen,     \* how many processes had the pid before it
  ppid     \* what os.getppid() returns

procVars == <<system, state, owner, gen, ppid>>

\* The parent once the shell is gone: init, which is nobody's to signal.
Reaper == 0

Exists(q) == state[q] # "none"
Alive(q) == state[q] \in {"running", "stopped"}

ProcessesInit ==
  /\ system \in Systems
  /\ state = [q \in Pids |-> "running"]
  /\ owner \in [Pids -> Owners]
  /\ \A q \in Pids \cap {Self, Shell} : owner[q] = User
  /\ gen = [q \in Pids |-> 0]
  /\ ppid = Shell

ProcessesTypeOK ==
  /\ system \in Systems
  /\ state \in [Pids -> {"none", "running", "stopped", "zombie"}]
  /\ owner \in [Pids -> Owners]
  /\ gen \in [Pids -> Nat]
  /\ ppid \in {Shell, Reaper}

\* A new process, of user u, is given the free pid q.
Spawn(q, u) ==
  /\ ~Exists(q)
  /\ gen[q] < MaxGen
  /\ state' = [state EXCEPT ![q] = "running"]
  /\ owner' = [owner EXCEPT ![q] = u]
  /\ gen' = [gen EXCEPT ![q] = @ + 1]
  /\ UNCHANGED <<system, ppid>>

\* The process ends, by itself or killed.  The daemon's parent is replaced;
\* Windows goes on to name the one that started it.
Exit(q) ==
  /\ Alive(q)
  /\ q # Self
  /\ state' = [state EXCEPT ![q] = "zombie"]
  /\ ppid' = IF q = Shell /\ system # "win32" THEN Reaper ELSE ppid
  /\ UNCHANGED <<system, owner, gen>>

\* A zombie is reaped; on Windows, the last handle of an ended process closed.
Reap(q) ==
  /\ state[q] = "zombie"
  /\ state' = [state EXCEPT ![q] = "none"]
  /\ UNCHANGED <<system, owner, gen, ppid>>

\* Somebody else resumes the process: resume_pid() has no caller in the program.
Continue(q) ==
  /\ state[q] = "stopped"
  /\ state' = [state EXCEPT ![q] = "running"]
  /\ UNCHANGED <<system, owner, gen, ppid>>

ProcessEvent(q) ==
  \/ \E u \in Owners : Spawn(q, u)
  \/ Exit(q) \/ Reap(q) \/ Continue(q)

=============================================================================
