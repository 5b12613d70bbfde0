-------------------------- MODULE ForensicsSnapshot --------------------------
(***************************************************************************)
(* engine/forensics.py: capture_snapshot() of a process freeze_threat()    *)
(* has just stopped: its lineage, then a bounded dump of its memory.  The  *)
(* snapshot asks the operating system again at every step; the target is   *)
(* stopped, but it can be killed or resumed, and its ancestors live on.    *)
(***************************************************************************)
EXTENDS OSProcesses, SequencesExt

CONSTANTS
  Root,      \* init, which outlives everybody and adopts orphans
  MaxBytes,  \* config.max_forensic_dump_size_bytes
  Layouts    \* memory maps a target can have: sequences of Regions

\* A readable line of /proc/pid/maps: its size, and whether its start is too
\* high an address for seek(), as that of a readable [vsyscall].
Region == [size : Nat \ {0}, high : BOOLEAN]

ASSUME SnapshotAssumption ==
  /\ Root \in Pids \ {Self}
  /\ MaxBytes \in Nat
  /\ Layouts \subseteq Seq(Region)

VARIABLES
  parent,   \* of each process, as the system names it: pid and gen
  target,   \* the pid the snapshot is of
  at,       \* where the snapshot stands
  cur,      \* the walk up: the process it has come to
  above,    \* ... and the parent pid it has been told, 0 for none
  todo,     \* pids found and not described yet
  lineage,  \* report.lineage: the processes described
  layout,   \* the target's memory map, once it has been read
  regions,  \* regions not read yet
  dumped,   \* len(mem_data)
  line,     \* history: target and ancestors at the start, and ...
  quiet,    \* ... none of them has ended since
  clean     \* history: no read of the target's memory went wrong

treeVars == <<procVars, parent>>
walkVars == <<cur, above, todo, lineage>>
dumpVars == <<layout, regions, dumped, clean>>
givenVars == <<target, line>>
snapVars == <<treeVars, at, walkVars, dumpVars, givenVars, quiet>>

\* psutil tells processes with the same pid apart by their start time.
Id(q) == [pid |-> q, gen |-> gen[q]]
NoParent == [pid |-> 0, gen |-> 0]
Ids == [pid : Pids \cup {0}, gen : Nat]

SnapshotTypeOK ==
  /\ ProcessesTypeOK
  /\ parent \in [Pids -> Ids]
  /\ target \in Pids
  /\ at \in {"climb", "parent", "describe", "maps", "open", "read",
             "done", "ValueError"}
  /\ cur \in Ids /\ above \in Pids \cup {0}
  /\ todo \in Seq(Pids) /\ lineage \in Seq(Ids)
  /\ layout \in Seq(Region) /\ regions \in Seq(Region)
  /\ dumped \in Nat
  /\ line \in Seq(Ids) /\ quiet \in BOOLEAN /\ clean \in BOOLEAN

\* l is the ancestry of the target: the target, then always the parent of the
\* one before, up to the root.
IsAncestry(l) ==
  /\ l[1] = Id(target)
  /\ \A i \in 1 .. Len(l) - 1 : l[i + 1] = parent[l[i].pid]
  /\ parent[l[Len(l)].pid] = NoParent

SnapshotInit ==
  /\ system \in Systems
  /\ target \in Pids \ {Self, Root}
  /\ state = [q \in Pids |-> IF q = target THEN "stopped" ELSE "running"]
  /\ \E u \in Owners : owner = [q \in Pids |-> IF q = Root THEN u ELSE User]
  /\ gen = [q \in Pids |-> 0] /\ ppid = Shell
  /\ \E up \in [Pids \ {Root} -> Pids] :
       /\ \A q \in Pids \ {Root} : up[q] < q
       /\ parent = [q \in Pids |-> IF q = Root THEN NoParent ELSE Id(up[q])]
  /\ at = "climb"
  /\ cur = Id(target) /\ above = 0 /\ todo = <<target>> /\ lineage = <<>>
  /\ layout = <<>> /\ regions = <<>> /\ dumped = 0 /\ clean = TRUE
  \* Parents are older, and have the lower pids: the line is no longer than that.
  /\ \E n \in 1 .. target :
       line \in {l \in [1 .. n -> {Id(q) : q \in Pids}] : IsAncestry(l)}
  /\ quiet = TRUE

Goto(label) == at' = label

-----------------------------------------------------------------------------
(* extract_lineage(): get_process_lineage() climbs to the root ...         *)

\* The process the walk has come to is there, and the same.
Here == Exists(cur.pid) /\ Id(cur.pid) = cur

\* proc.ppid(), if the process is not the root; NoSuchProcess ends the walk.
AskParent ==
  /\ at = "climb"
  /\ IF Here /\ cur.pid # Root
     THEN Goto("parent") /\ above' = parent[cur.pid].pid
     ELSE Goto("describe") /\ UNCHANGED above
  /\ UNCHANGED <<treeVars, cur, todo, lineage, dumpVars, givenVars, quiet>>

\* Process q is no younger than the ones the walk has come to: it was there when
\* the snapshot began.
Older(q) == Exists(q) /\ gen[q] = 0

\* Fault: a parent that has gone is asked for again.
OpenParentRetrying ==
  /\ at = "parent"
  /\ IF Older(above)
     THEN /\ cur' = Id(above)
          /\ todo' = Append(todo, above)
          /\ Goto("climb")
     ELSE Goto("climb") /\ UNCHANGED <<cur, todo>>
  /\ above' = 0
  /\ UNCHANGED <<treeVars, lineage, dumpVars, givenVars, quiet>>

\* Fault: any process that has the pid is taken for the parent.
OpenAnyParent ==
  /\ at = "parent"
  /\ IF Exists(above)
     THEN /\ cur' = Id(above)
          /\ todo' = Append(todo, above)
          /\ Goto("climb")
     ELSE Goto("describe") /\ UNCHANGED <<cur, todo>>
  /\ above' = 0
  /\ UNCHANGED <<treeVars, lineage, dumpVars, givenVars, quiet>>

\* Fault: the lineage is built from the root down.
OpenParentLast ==
  /\ at = "parent"
  /\ IF Older(above)
     THEN /\ cur' = Id(above)
          /\ todo' = <<above>> \o todo
          /\ Goto("climb")
     ELSE Goto("describe") /\ UNCHANGED <<cur, todo>>
  /\ above' = 0
  /\ UNCHANGED <<treeVars, lineage, dumpVars, givenVars, quiet>>

\* Fault: the walk is an `if` instead of a `while`.
OpenParentOnly ==
  /\ at = "parent"
  /\ IF Older(above)
     THEN /\ cur' = Id(above)
          /\ todo' = Append(todo, above)
          /\ Goto("describe")
     ELSE Goto("describe") /\ UNCHANGED <<cur, todo>>
  /\ above' = 0
  /\ UNCHANGED <<treeVars, lineage, dumpVars, givenVars, quiet>>

\* Process(ppid) is the parent, unless it has gone or is the younger one: then
\* the pid has passed to another process.
OpenParent ==
  /\ at = "parent"
  /\ IF Older(above)
     THEN /\ cur' = Id(above)
          /\ todo' = Append(todo, above)
          /\ Goto("climb")
     ELSE Goto("describe") /\ UNCHANGED <<cur, todo>>
  /\ above' = 0
  /\ UNCHANGED <<treeVars, lineage, dumpVars, givenVars, quiet>>

\* psutil describes a process that has not ended; Linux those of others, too.
Describable(q) == Alive(q) /\ (system = "linux" \/ owner[q] = User)

\* ... and each pid found is looked up again; who has gone is left out.
Describe ==
  /\ at = "describe" /\ todo # <<>>
  /\ todo' = Tail(todo)
  /\ lineage' = IF Describable(Head(todo))
                THEN Append(lineage, Id(Head(todo))) ELSE lineage
  /\ UNCHANGED <<treeVars, at, cur, above, dumpVars, givenVars, quiet>>

\* The sockets are asked for in between; dump_memory() is for Linux, as /proc
\* is, and for a process that is there.
BeginDump ==
  /\ at = "describe" /\ todo = <<>>
  /\ Goto(IF system = "linux" /\ Exists(target) THEN "maps" ELSE "done")
  /\ UNCHANGED <<treeVars, walkVars, dumpVars, givenVars, quiet>>

-----------------------------------------------------------------------------
(* dump_memory().                                                          *)

\* An OSError ends the dump; what has been read is kept.
DumpFails ==
  /\ at \in {"maps", "open", "read"}
  /\ Goto("done")
  /\ clean' = FALSE
  /\ UNCHANGED <<treeVars, walkVars, layout, regions, dumped, givenVars, quiet>>

\* /proc/pid/maps, which is empty for a zombie.
ReadMaps ==
  /\ at = "maps" /\ Exists(target)
  /\ layout' \in IF Alive(target) THEN Layouts ELSE {<<>>}
  /\ regions' = layout'
  /\ Goto("open")
  /\ UNCHANGED <<treeVars, walkVars, dumped, clean, givenVars, quiet>>

OpenMemory ==
  /\ at = "open" /\ Exists(target)
  /\ Goto("read")
  /\ UNCHANGED <<treeVars, walkVars, dumpVars, givenVars, quiet>>

\* Fault: the bytes read so far are left out of the bound.
SizeToReadEach(r) == IF r.size < MaxBytes THEN r.size ELSE MaxBytes

\* Fault: the terms of the bound are mixed up.
SizeToReadSwapped(r) == MaxBytes - r.size

\* min(end - start, max_bytes - len(mem_data))
SizeToRead(r) == IF r.size < MaxBytes - dumped THEN r.size ELSE MaxBytes - dumped

\* seek() and read(): nothing comes from a process that has ended.
ReadRegion ==
  /\ at = "read" /\ regions # <<>> /\ dumped < MaxBytes
  /\ ~Head(regions).high
  /\ regions' = Tail(regions)
  /\ IF Alive(target)
     THEN dumped' = dumped + SizeToRead(Head(regions)) /\ UNCHANGED clean
     ELSE clean' = FALSE /\ UNCHANGED dumped
  /\ UNCHANGED <<treeVars, at, walkVars, layout, givenVars, quiet>>

\* seek() raises a ValueError, which is no OSError: the snapshot is lost.
SeekTooHigh ==
  /\ at = "read" /\ regions # <<>> /\ dumped < MaxBytes
  /\ Head(regions).high
  /\ Goto("ValueError")
  /\ UNCHANGED <<treeVars, walkVars, dumpVars, givenVars, quiet>>

\* Fault: a region that does not fit as a whole ends the dump.
EndDumpEarly ==
  /\ at = "read"
  /\ IF regions = <<>> THEN TRUE ELSE dumped + Head(regions).size > MaxBytes
  /\ Goto("done")
  /\ UNCHANGED <<treeVars, walkVars, dumpVars, givenVars, quiet>>

EndDump ==
  /\ at = "read" /\ (regions = <<>> \/ dumped >= MaxBytes)
  /\ Goto("done")
  /\ UNCHANGED <<treeVars, walkVars, dumpVars, givenVars, quiet>>

-----------------------------------------------------------------------------
(* External: the processes.                                                *)

\* Process q ends.  Its children pass to Root; on Windows they keep its pid.
Ends(q) ==
  /\ q # Root
  /\ Exit(q)
  /\ parent' = IF system = "win32" THEN parent
               ELSE [r \in Pids |-> IF parent[r] = Id(q) THEN Id(Root)
                                   ELSE parent[r]]
  /\ quiet' = (quiet /\ ~Contains(line, Id(q)))

\* Process r starts a new one, which gets the free pid q.
Forks(q, r) ==
  /\ state[r] = "running"
  /\ Spawn(q, User)
  /\ parent' = [parent EXCEPT ![q] = Id(r)]
  /\ UNCHANGED quiet

TreeChanges ==
  /\ \E q \in Pids :
       \/ Ends(q) \/ \E r \in Pids : Forks(q, r)
       \/ (Reap(q) \/ Continue(q)) /\ UNCHANGED <<parent, quiet>>
  /\ UNCHANGED <<at, walkVars, dumpVars, givenVars>>

SnapshotStep ==
  \/ AskParent \/ OpenParent \/ Describe \/ BeginDump
  \/ DumpFails \/ ReadMaps \/ OpenMemory
  \/ ReadRegion \/ SeekTooHigh \/ EndDump

SnapshotNext == SnapshotStep \/ TreeChanges

\* The snapshot is straight-line code of the event loop's thread.
SnapshotSpec ==
  SnapshotInit /\ [][SnapshotNext]_snapVars /\ WF_snapVars(SnapshotStep)

-----------------------------------------------------------------------------
(* Properties.                                                             *)

\* "Bounded, safe extraction": the dump never exceeds the configured size,
\* however the map and the reads turn out.
DumpBounded == dumped <= MaxBytes

\* SizeUpTo(s)[n] is the size of the first n regions of s.
SizeUpTo(s) ==
  LET upTo[n \in 0 .. Len(s)] == IF n = 0 THEN 0 ELSE upTo[n - 1] + s[n].size
  IN  upTo

TotalSize(s) == SizeUpTo(s)[Len(s)]

\* The bound is the only reason for a short dump: when no read went wrong, the
\* dump has all that is readable, or the first MaxBytes of it.
DumpComplete ==
  at = "done" /\ system = "linux" /\ clean =>
    dumped = IF TotalSize(layout) < MaxBytes THEN TotalSize(layout)
             ELSE MaxBytes

\* The notifier names the first process of the lineage as the offender: that
\* is the target, if it has not ended.
OffenderFirst ==
  at \in {"maps", "open", "read", "done", "ValueError"}
  /\ Alive(target) /\ gen[target] = 0 =>
    lineage # <<>> /\ lineage[1] = Id(target)

\* The lineage shows no bystander: an entry is the target or an ancestor it had
\* when the snapshot began, unless the pid has passed to another process since.
LineageIsKin ==
  \A i \in DOMAIN lineage : Contains(line, lineage[i]) \/ lineage[i].gen > 0

\* s is what t has at the places in P, in order.
Selects(s, t, P) ==
  \E place \in [DOMAIN s -> P] :
    /\ \A i, j \in DOMAIN s : i < j => place[i] < place[j]
    /\ \A p \in P : \E i \in DOMAIN s : place[i] = p
    /\ \A i \in DOMAIN s : s[i] = t[place[i]]

\* While none of them ends, the lineage has all of them, child before parent,
\* that can be described.
LineageComplete ==
  at = "done" /\ quiet =>
    Selects(lineage, line,
            {i \in DOMAIN line : system = "linux" \/ owner[line[i].pid] = User})

\* The walk up, the look-ups and the dump come to an end, whatever processes
\* come and go: a snapshot does not hold up the engine for ever.
SnapshotEnds == <>(at \in {"done", "ValueError"})

=============================================================================
