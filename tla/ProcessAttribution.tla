------------------------- MODULE ProcessAttribution -------------------------
(***************************************************************************)
(* find_pid_accessing_file() of the platform adapters, called by the       *)
(* process task for one path.  Tier 1 looks for a process that has the     *)
(* file open: Linux and macOS walk the processes in ascending pid order,   *)
(* Windows asks the restart manager, once for the number of holders and    *)
(* once for the list.  Tier 2, everywhere, takes the youngest process of   *)
(* ours.  Processes change between any two steps.                          *)
(***************************************************************************)
EXTENDS OSProcesses, CanaryFiles, FiniteSets

CONSTANTS
  RecentSeconds   \* 5.0, the "fast-close evasion window" of Tier 2

ASSUME AttributionAssumption ==
  RecentSeconds \in Nat \ {0} /\ IsFiniteSet(Pids)

VARIABLES
  holds,   \* canaries each process has open
  born,    \* its create_time
  tier,    \* 0 when no search is on, else the tier the search is in
  walk,    \* pids of the listing the search has not come to; on Windows,
           \* Tier 1, the holders the restart manager counted
  best,    \* Tier 2: best_pid and highest_time so far; Windows, Tier 1: the
           \* first holder of the list
  since,   \* Tier 2: current_time, read once
  steady   \* history: processes that had the file open when Tier 1 began, have
           \* closed nothing since, and were not withheld from the search

tableVars == <<holds, born>>
searchVars == <<tier, walk, best, since, steady>>

NoBest == [pid |-> 0, time |-> 0]

AttributionTypeOK ==
  /\ holds \in [Pids -> SUBSET Paths]
  /\ born \in [Pids -> Nat]
  /\ tier \in 0 .. 2
  /\ walk \in SUBSET Pids
  /\ best \in [pid : Pids \cup {0}, time : Nat]
  /\ since \in Nat
  /\ steady \in SUBSET Pids

AttributionInit ==
  /\ holds = [q \in Pids |-> {}]
  /\ born = [q \in Pids |-> 1]
  /\ tier = 0 /\ walk = {} /\ best = NoBest /\ since = 0
  /\ steady = {}

Lowest(S) == CHOOSE q \in S : \A r \in S : q <= r

\* The processes there are; Windows lists none that has ended.
Listing == {q \in Pids : IF system = "win32" THEN Alive(q) ELSE Exists(q)}

\* Fault: a process that is stopped already is left out of the search.
HasOpenRunning(q, p) == state[q] = "running" /\ p \in holds[q]

\* An open descriptor of file p, as the system shows it to its owner.
HasOpen(q, p) == Alive(q) /\ p \in holds[q]

Holders(p) == {q \in Pids : HasOpen(q, p)}

\* Fault: names that are no pid, 0 here, are not filtered out.
BeginSearchUnfiltered(p) ==
  /\ tier' = 1
  /\ walk' = Listing \cup {0}
  /\ best' = NoBest
  /\ steady' = {q \in Listing : Alive(q) /\ p \in holds[q] /\ owner[q] = User}
  /\ UNCHANGED <<tableVars, since>>

\* The listing; on Windows, the first RmGetList(), which counts the holders.
BeginSearch(p) ==
  /\ tier' = 1
  /\ walk' = IF system = "win32" THEN Holders(p) ELSE Listing
  /\ best' = NoBest
  /\ steady' = {q \in Listing : Alive(q) /\ p \in holds[q] /\ owner[q] = User}
  /\ UNCHANGED <<tableVars, since>>

\* Tier 2 starts with a clock reading and a listing of its own.
BeginFallback ==
  /\ tier' = 2
  /\ walk' = Listing
  /\ since' = clock
  /\ best' = NoBest
  /\ UNCHANGED tableVars

EndSearch ==
  /\ tier' = 0 /\ walk' = {} /\ best' = NoBest /\ since' = 0
  /\ steady' = {}
  /\ UNCHANGED tableVars

-----------------------------------------------------------------------------
(* Tier 1 on Linux and macOS.                                              *)

Walking == tier = 1 /\ system # "win32"

\* The next pid is not ours, has gone, or does not have the file open.
Tier1Skip(p) ==
  /\ Walking /\ walk # {}
  /\ LET q == Lowest(walk) IN ~(HasOpen(q, p) /\ owner[q] = User)
  /\ walk' = walk \ {Lowest(walk)}
  /\ UNCHANGED <<tableVars, tier, best, since, steady>>

\* The next process is ours, but the system withholds its descriptors (one that
\* may not be dumped, PermissionError or AccessDenied) or shows them under other
\* names (another mount namespace): both walks pass over it.
Tier1Refused ==
  /\ Walking /\ walk # {}
  /\ LET q == Lowest(walk) IN
       /\ Alive(q) /\ owner[q] = User
       /\ walk' = walk \ {q}
       /\ steady' = steady \ {q}
  /\ UNCHANGED <<tableVars, tier, best, since>>

\* The next process ends while its status is read: Linux' get_process_owner()
\* lets the ESRCH through, and the handler around the whole walk ends Tier 1.
\* On macOS the handler is inside the loop, and the walk goes on.
Tier1Abort ==
  /\ system = "linux"
  /\ tier = 1 /\ walk # {}
  /\ ~Exists(Lowest(walk))
  /\ BeginFallback
  /\ UNCHANGED steady

\* The next process is ours and has the file open: the search returns it.
Tier1Found(p, q) ==
  /\ Walking /\ walk # {}
  /\ q = Lowest(walk) /\ HasOpen(q, p) /\ owner[q] = User
  /\ EndSearch

Tier1Exhausted ==
  /\ Walking /\ walk = {}
  /\ BeginFallback
  /\ UNCHANGED steady

-----------------------------------------------------------------------------
(* Tier 1 on Windows.                                                      *)

Asking == tier = 1 /\ system = "win32"

\* No session, or no resource, at the restart manager: the search returns None.
ManagerFails ==
  /\ Asking /\ best = NoBest
  /\ EndSearch

\* The second RmGetList(): the list fits the number counted, and its first
\* entry is looked at ...
HoldersListed(p) ==
  /\ Asking /\ best = NoBest
  /\ Holders(p) # {} /\ Cardinality(Holders(p)) <= Cardinality(walk)
  /\ \E q \in Holders(p) : best' = [pid |-> q, time |-> 0]
  /\ UNCHANGED <<tableVars, tier, walk, since, steady>>

\* ... or nobody held the file, has it open any more, or the list has grown.
HoldersNotListed(p) ==
  /\ Asking /\ best = NoBest
  /\ \/ walk = {} \/ Holders(p) = {}
     \/ Cardinality(Holders(p)) > Cardinality(walk)
  /\ BeginFallback
  /\ UNCHANGED steady

\* The first entry is a process of ours: the search returns it.
FirstHolderOurs(q) ==
  /\ Asking /\ best.pid = q
  /\ Alive(q) /\ owner[q] = User
  /\ EndSearch

\* It is not, or has gone: the other entries are not looked at.
FirstHolderForeign ==
  /\ Asking /\ best # NoBest
  /\ ~(Alive(best.pid) /\ owner[best.pid] = User)
  /\ BeginFallback
  /\ UNCHANGED steady

\* It is, but may not be opened to read its owner.
FirstHolderRefused ==
  /\ Asking /\ best # NoBest
  /\ BeginFallback
  /\ steady' = steady \ {best.pid}

-----------------------------------------------------------------------------
(* Tier 1 fails as a whole.                                                *)

\* Any other error of RmGetList(), or, on Linux, of the walk itself (no more
\* descriptors for the daemon): every holder is withheld.  macOS' walk goes on.
Tier1Fails ==
  /\ tier = 1 /\ best = NoBest /\ system # "darwin"
  /\ BeginFallback
  /\ steady' = {}

-----------------------------------------------------------------------------
(* Tier 2, and the search as a whole.                                      *)

\* A process of ours, not the daemon, spawned within the window, and younger
\* than the best so far.
Younger(q) ==
  /\ Exists(q) /\ owner[q] = User /\ q # Self
  /\ since - born[q] < RecentSeconds
  /\ born[q] > best.time

\* Windows may not open a process that has ended since it was listed.
Unopenable(q) == system = "win32" /\ ~Alive(q)

Tier2Visit ==
  /\ tier = 2 /\ walk # {}
  /\ LET q == Lowest(walk) IN
       /\ walk' = walk \ {q}
       /\ \/ Younger(q) /\ best' = [pid |-> q, time |-> born[q]]
          \/ (~Younger(q) \/ Unopenable(q)) /\ UNCHANGED best
  /\ UNCHANGED <<tableVars, tier, since, steady>>

Tier2Done ==
  /\ tier = 2 /\ walk = {}
  /\ EndSearch

\* One step that leaves the search unfinished.
SearchStep(p) ==
  \/ Tier1Skip(p) \/ Tier1Refused \/ Tier1Abort \/ Tier1Exhausted
  \/ HoldersListed(p) \/ HoldersNotListed(p)
  \/ FirstHolderForeign \/ FirstHolderRefused
  \/ Tier1Fails \/ Tier2Visit

\* The search ends with process q: Tier 1's holder or Tier 2's best guess.
SearchNames(p, q) ==
  \/ Tier1Found(p, q) \/ FirstHolderOurs(q)
  \/ Tier2Done /\ best.pid = q

\* ... and with nobody.
SearchNamesNobody ==
  \/ ManagerFails
  \/ Tier2Done /\ best.pid = 0

-----------------------------------------------------------------------------
(* External: descriptors and start times of the processes.                 *)

\* Process q opens canary p (and reads it, see DeceptEnvRun).
Open(q, p) ==
  /\ state[q] = "running" /\ q # Self
  /\ holds' = [holds EXCEPT ![q] = @ \cup {p}]
  /\ UNCHANGED <<born, searchVars>>

Close(q, p) ==
  /\ state[q] = "running" /\ p \in holds[q]
  /\ holds' = [holds EXCEPT ![q] = @ \ {p}]
  /\ steady' = steady \ {q}
  /\ UNCHANGED <<born, tier, walk, best, since>>

\* Canary p is unlinked: its descriptors now read "... (deleted)".
Unlinked(p) ==
  /\ holds' = [q \in Pids |-> holds[q] \ {p}]
  /\ steady' = {}
  /\ UNCHANGED <<born, tier, walk, best, since>>

\* What a ProcessEvent of q does to its descriptors and start time.
TableFollows(q) ==
  /\ holds' = IF state'[q] = "zombie" THEN [holds EXCEPT ![q] = {}] ELSE holds
  /\ born' = IF gen'[q] # gen[q] THEN [born EXCEPT ![q] = clock] ELSE born
  /\ steady' = IF state'[q] = "zombie" THEN steady \ {q} ELSE steady
  /\ UNCHANGED <<tier, walk, best, since>>

=============================================================================
