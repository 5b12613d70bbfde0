---------------------------- MODULE CanaryFiles ----------------------------
(***************************************************************************)
(* External: the canary files, as the monitor can see them through         *)
(* exists() and stat(), and the two clocks.  `clock` is what time.time()   *)
(* and the kernel's timestamps show; `elapsed` is the time that really     *)
(* passed, which no step of the program can read.                          *)
(***************************************************************************)
EXTENDS Integers

CONSTANTS
  Paths,        \* canary files
  StartTime,    \* wall-clock time when the daemon starts
  MaxElapsed,   \* bound: time that passes in a behaviour
  RelAtime,     \* mounted relatime (the Linux default) instead of strictatime
  ClockSteps    \* how the wall clock may be set (NTP, administrator, resume):
                \* any of "back" and "forward"

ASSUME TimeAssumption ==
  /\ StartTime \in Nat
  /\ MaxElapsed \in Nat
  /\ RelAtime \in BOOLEAN
  /\ ClockSteps \subseteq {"back", "forward"}

VARIABLES
  clock, elapsed,
  atime,        \* access time of each file, or Absent
  changed       \* relatime only: files modified since their access time

fileVars == <<clock, elapsed, atime, changed>>

Absent == -1
Present(p) == atime[p] # Absent

\* What init_canaries and register() leave behind: a file written before the
\* daemon started and read by register(), which hashes it.
FilesInit ==
  /\ clock = StartTime
  /\ elapsed = 0
  /\ changed = {}
  /\ atime \in [Paths -> {Absent, StartTime}]

FilesTypeOK ==
  /\ clock \in Nat
  /\ elapsed \in Nat
  /\ atime \in [Paths -> Nat \cup {Absent}]
  /\ changed \in SUBSET Paths

Tick ==
  /\ elapsed < MaxElapsed
  /\ elapsed' = elapsed + 1
  /\ clock' = clock + 1
  /\ UNCHANGED <<atime, changed>>

\* The wall clock is set, while no time passes: back to any time of the run ...
StepBack ==
  /\ "back" \in ClockSteps
  /\ clock' \in StartTime .. clock - 1
  /\ UNCHANGED <<elapsed, atime, changed>>

\* ... or forward (bound: to the end of the time a behaviour has).
StepForward ==
  /\ "forward" \in ClockSteps
  /\ clock' \in clock + 1 .. StartTime + MaxElapsed
  /\ UNCHANGED <<elapsed, atime, changed>>

\* Whether the mount records a read of p: relatime skips a file whose access
\* time is newer than its last change (its 24-hour rule is out of the bound).
Records(p) == RelAtime => p \in changed

\* Some process reads the file's contents.
Read(p) ==
  /\ Present(p)
  /\ atime' = IF Records(p) THEN [atime EXCEPT ![p] = clock] ELSE atime
  /\ changed' = changed \ {p}
  /\ UNCHANGED <<clock, elapsed>>

\* open(path, "w") on an existing canary: truncated in place, atime kept.
Rewrite(p) ==
  /\ Present(p)
  /\ changed' = IF RelAtime THEN changed \cup {p} ELSE changed
  /\ UNCHANGED <<clock, elapsed, atime>>

Create(p) ==
  /\ ~Present(p)
  /\ atime' = [atime EXCEPT ![p] = clock]
  /\ changed' = IF RelAtime THEN changed \cup {p} ELSE changed
  /\ UNCHANGED <<clock, elapsed>>

\* `deceptenv clean`, or anyone, unlinks the file.
Remove(p) ==
  /\ Present(p)
  /\ atime' = [atime EXCEPT ![p] = Absent]
  /\ changed' = changed \ {p}
  /\ UNCHANGED <<clock, elapsed>>

=============================================================================
