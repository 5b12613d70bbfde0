--------------------------- MODULE ForensicsProofs ---------------------------
(* Proofs about ForensicsSnapshot, for any processes, memory maps and bound. *)
EXTENDS ForensicsSnapshot, TLAPS, SequenceTheorems, WellFoundedInduction

-----------------------------------------------------------------------------
(* The inductive invariant.                                                *)

\* Past the walk and the look-ups.
Dumping == {"maps", "open", "read", "done", "ValueError"}

\* The processes, and what the walk knows of them.  A process that has a parent
\* has one with a pid.
WalkTypeOK ==
  /\ ProcessesTypeOK
  /\ target \in Pids \ {Self, Root}
  /\ at \in {"climb", "parent", "describe"} \cup Dumping
  /\ parent \in [Pids -> Ids]
  /\ \A q \in Pids \ {Root} : parent[q].pid \in Pids
  /\ cur \in Ids /\ cur.pid \in Pids
  /\ above \in Pids \cup {0}
  /\ at = "parent" => above \in Pids
  /\ todo \in Seq(Pids) /\ lineage \in Seq(Ids)

DumpTypeOK ==
  /\ layout \in Seq(Region) /\ regions \in Seq(Region)
  /\ dumped \in Nat /\ clean \in BOOLEAN

HistoryTypeOK == line \in Seq(Ids) /\ quiet \in BOOLEAN

\* The process the snapshot was asked for is there.
TargetLives == Alive(target) /\ gen[target] = 0

\* It is the first to be looked up, and then the first of the lineage.
TargetFirstToDo == lineage = <<>> /\ todo # <<>> /\ Head(todo) = target
TargetFirst == lineage # <<>> /\ lineage[1] = Id(target)

TargetInv ==
  TargetLives =>
    /\ owner[target] = User
    /\ at \in {"climb", "parent"} => TargetFirstToDo
    /\ at = "describe" => TargetFirstToDo \/ TargetFirst
    /\ at \in Dumping => TargetFirst

SnapshotInv ==
  WalkTypeOK /\ DumpTypeOK /\ HistoryTypeOK /\ DumpBounded /\ TargetInv

-----------------------------------------------------------------------------
(* The steps, grouped by what they leave alone.                            *)

\* Steps of the dump touch neither the processes nor the lineage.
DumpStep ==
  \/ DumpFails \/ ReadMaps \/ OpenMemory
  \/ ReadRegion \/ SeekTooHigh \/ EndDump

LEMMA DumpLeavesWalk ==
  ASSUME DumpStep
  PROVE  /\ UNCHANGED <<treeVars, walkVars, target, line, quiet>>
         /\ at \in Dumping /\ at' \in Dumping
  BY DEF DumpStep, DumpFails, ReadMaps, OpenMemory, ReadRegion, SeekTooHigh,
         EndDump, Goto, Dumping, givenVars

\* Steps of the walk touch neither the processes nor the dump.
WalkStep == AskParent \/ OpenParent \/ Describe \/ BeginDump

LEMMA WalkLeavesDump ==
  ASSUME WalkStep
  PROVE  UNCHANGED <<treeVars, target, line, quiet, layout, regions, dumped, clean>>
  BY DEF WalkStep, AskParent, OpenParent, Describe, BeginDump, dumpVars, givenVars

\* The processes change beside the snapshot, which stands where it stood.
LEMMA TreeLeavesSnapshot ==
  ASSUME TreeChanges
  PROVE  UNCHANGED <<at, walkVars, target, line, layout, regions, dumped, clean>>
  BY DEF TreeChanges, dumpVars, givenVars

LEMMA StepKinds ==
  ASSUME [SnapshotNext]_snapVars
  PROVE  DumpStep \/ WalkStep \/ TreeChanges \/ UNCHANGED snapVars
  BY DEF SnapshotNext, SnapshotStep, DumpStep, WalkStep

\* What the events of one process leave of the others, and of the first process
\* that had each pid: it may end, and once ended it does not come back.
LEMMA TreeStep ==
  ASSUME WalkTypeOK, TreeChanges
  PROVE  /\ ProcessesTypeOK'
         /\ TargetLives' => TargetLives /\ UNCHANGED <<owner[target], gen[target]>>
<1> USE ProcessAssumption, SnapshotAssumption DEF ProcessesTypeOK, TargetLives, Alive
<1>1. PICK q \in Pids :
         Exit(q) \/ Spawn(q, User) \/ Reap(q) \/ Continue(q)
  BY DEF TreeChanges, Ends, Forks
<1>2. target' = target /\ target \in Pids
  BY TreeLeavesSnapshot DEF WalkTypeOK
<1>3. CASE Exit(q)
  BY <1>2, <1>3 DEF Exit, WalkTypeOK
<1>4. CASE Spawn(q, User)
  <2>1. gen[q] \in Nat /\ gen'[q] = gen[q] + 1
    BY <1>4 DEF Spawn, WalkTypeOK
  <2>2. gen'[q] # 0
    BY <2>1
  <2> QED
    BY <1>2, <1>4, <2>1, <2>2 DEF Spawn, WalkTypeOK
<1>5. CASE Reap(q)
  BY <1>2, <1>5 DEF Reap, WalkTypeOK
<1>6. CASE Continue(q)
  BY <1>2, <1>6 DEF Continue, WalkTypeOK
<1> QED
  BY <1>1, <1>3, <1>4, <1>5, <1>6

-----------------------------------------------------------------------------
(* Preservation.                                                           *)

LEMMA IdsType ==
  ASSUME ProcessesTypeOK, NEW q \in Pids
  PROVE  Id(q) \in Ids /\ Id(q).pid = q
  BY DEF ProcessesTypeOK, Id, Ids

\* The children of an ended process pass to one that has a pid, as a new
\* process has its parent.
LEMMA ParentStep ==
  ASSUME WalkTypeOK, TreeChanges
  PROVE  /\ parent' \in [Pids -> Ids]
         /\ \A q \in Pids \ {Root} : parent'[q].pid \in Pids
<1>1. ASSUME NEW q \in Pids PROVE Id(q) \in Ids /\ Id(q).pid = q
  BY IdsType DEF WalkTypeOK
<1>2. Root \in Pids
  BY SnapshotAssumption
<1>3. CASE \E q \in Pids : Ends(q)
  BY <1>1, <1>2, <1>3 DEF Ends, WalkTypeOK
<1>4. CASE \E q, r \in Pids : Forks(q, r)
  BY <1>1, <1>4 DEF Forks, WalkTypeOK
<1>5. CASE UNCHANGED parent
  BY <1>5 DEF WalkTypeOK
<1> QED
  BY <1>3, <1>4, <1>5 DEF TreeChanges

LEMMA WalkTypeStep ==
  ASSUME WalkTypeOK, [SnapshotNext]_snapVars
  PROVE  WalkTypeOK'
<1> USE DEF WalkTypeOK, Dumping
<1>1. CASE UNCHANGED snapVars
  BY <1>1 DEF snapVars, treeVars, procVars, walkVars, givenVars, ProcessesTypeOK
<1>2. CASE DumpStep
  <2>1. UNCHANGED <<treeVars, walkVars, target>> /\ at' \in Dumping
    BY <1>2, DumpLeavesWalk
  <2> QED
    BY <2>1 DEF treeVars, procVars, walkVars, ProcessesTypeOK
<1>3. CASE TreeChanges
  <2>1. ProcessesTypeOK'
    BY <1>3, TreeStep
  <2>2. UNCHANGED <<at, walkVars, target>>
    BY <1>3, TreeLeavesSnapshot
  <2>3. /\ parent' \in [Pids -> Ids]
        /\ \A q \in Pids \ {Root} : parent'[q].pid \in Pids
    BY <1>3, ParentStep
  <2> QED
    BY <2>1, <2>2, <2>3 DEF walkVars
<1>4. CASE WalkStep
  <2>1. UNCHANGED <<treeVars, target>>
    BY <1>4, WalkLeavesDump
  <2>2. ProcessesTypeOK'
    BY <2>1 DEF treeVars, procVars, ProcessesTypeOK
  <2>3. CASE AskParent
    BY <2>1, <2>2, <2>3 DEF AskParent, Goto, treeVars
  <2>4. CASE OpenParent
    <3>1. above \in Pids /\ Id(above) \in Ids /\ Id(above).pid = above
      BY <2>4, IdsType DEF OpenParent
    <3>2. cur' \in Ids /\ cur'.pid \in Pids
      BY <2>4, <3>1 DEF OpenParent
    <3>3. todo' \in Seq(Pids)
      BY <2>4, <3>1 DEF OpenParent
    <3>4. /\ above' = 0 /\ at' \in {"climb", "describe"}
          /\ lineage' = lineage /\ parent' = parent
      BY <2>4 DEF OpenParent, Goto, treeVars
    <3> QED
      BY <2>1, <2>2, <3>2, <3>3, <3>4
  <2>5. CASE Describe
    <3>1. Head(todo) \in Pids /\ Tail(todo) \in Seq(Pids)
      BY <2>5 DEF Describe
    <3>2. Id(Head(todo)) \in Ids
      BY <3>1, IdsType
    <3> QED
      BY <2>1, <2>2, <2>5, <3>1, <3>2 DEF Describe, treeVars
  <2>6. CASE BeginDump
    BY <2>1, <2>2, <2>6 DEF BeginDump, Goto, treeVars, walkVars
  <2> QED
    BY <1>4, <2>3, <2>4, <2>5, <2>6 DEF WalkStep
<1> QED
  BY <1>1, <1>2, <1>3, <1>4, StepKinds

\* Every read takes what is left of the bound at most.
LEMMA DumpBoundStep ==
  ASSUME DumpTypeOK, DumpBounded, [SnapshotNext]_snapVars
  PROVE  DumpTypeOK' /\ DumpBounded'
<1> USE SnapshotAssumption DEF DumpTypeOK, DumpBounded
<1>1. CASE UNCHANGED snapVars
  BY <1>1 DEF snapVars, dumpVars
<1>2. CASE WalkStep \/ TreeChanges
  BY <1>2, WalkLeavesDump, TreeLeavesSnapshot
<1>3. CASE ReadMaps
  <2>1. <<>> \in Seq(Region)
    OBVIOUS
  <2>2. layout' \in Seq(Region)
    BY <1>3, <2>1 DEF ReadMaps
  <2> QED
    BY <1>3, <2>2 DEF ReadMaps
<1>4. CASE ReadRegion
  <2>1. Head(regions) \in Region /\ Tail(regions) \in Seq(Region)
    BY <1>4 DEF ReadRegion
  <2>2. Head(regions).size \in Nat
    BY <2>1 DEF Region
  <2>3. SizeToRead(Head(regions)) \in 0 .. (MaxBytes - dumped)
    BY <2>2 DEF SizeToRead
  <2>4. regions' \in Seq(Region) /\ layout' = layout /\ clean' \in BOOLEAN
    BY <1>4, <2>1 DEF ReadRegion
  <2>5. dumped' = dumped \/ dumped' = dumped + SizeToRead(Head(regions))
    BY <1>4 DEF ReadRegion
  <2> QED
    BY <2>3, <2>4, <2>5
<1>5. CASE DumpFails \/ OpenMemory \/ SeekTooHigh \/ EndDump
  BY <1>5 DEF DumpFails, OpenMemory, SeekTooHigh, EndDump, dumpVars
<1> QED
  BY <1>1, <1>2, <1>3, <1>4, <1>5, StepKinds DEF DumpStep

LEMMA HistoryTypeStep ==
  ASSUME HistoryTypeOK, [SnapshotNext]_snapVars
  PROVE  HistoryTypeOK'
<1>1. line' = line
  BY StepKinds, DumpLeavesWalk, WalkLeavesDump, TreeLeavesSnapshot
     DEF snapVars, givenVars
<1>2. quiet' \in BOOLEAN
  <2>1. CASE TreeChanges
    BY <2>1 DEF TreeChanges, Ends, Forks, HistoryTypeOK
  <2> QED
    BY <2>1, StepKinds, DumpLeavesWalk, WalkLeavesDump DEF snapVars, HistoryTypeOK
<1> QED
  BY <1>1, <1>2 DEF HistoryTypeOK

\* The living target is looked up first, and described.
LEMMA TargetStep ==
  ASSUME WalkTypeOK, TargetInv, [SnapshotNext]_snapVars
  PROVE  TargetInv'
<1> SUFFICES ASSUME TargetLives'
             PROVE  /\ (owner[target] = User)'
                    /\ (at \in {"climb", "parent"} => TargetFirstToDo)'
                    /\ (at = "describe" => TargetFirstToDo \/ TargetFirst)'
                    /\ (at \in Dumping => TargetFirst)'
  BY DEF TargetInv
<1> USE DEF TargetFirstToDo, TargetFirst, Id
<1>1. CASE UNCHANGED snapVars
  BY <1>1 DEF snapVars, treeVars, procVars, walkVars, givenVars, TargetInv,
              TargetLives, Alive
<1>2. CASE DumpStep
  <2>1. UNCHANGED <<treeVars, walkVars, target>>
        /\ at \in Dumping /\ at' \in Dumping
    BY <1>2, DumpLeavesWalk
  <2> QED
    BY <2>1 DEF treeVars, procVars, walkVars, TargetInv, TargetLives, Alive,
                Dumping
<1>3. CASE TreeChanges
  <2>1. TargetLives /\ UNCHANGED <<owner[target], gen[target]>>
    BY <1>3, TreeStep
  <2>2. UNCHANGED <<at, walkVars, target>>
    BY <1>3, TreeLeavesSnapshot
  <2> QED
    BY <2>1, <2>2 DEF walkVars, TargetInv
<1>4. CASE WalkStep
  <2>1. UNCHANGED <<treeVars, target>>
    BY <1>4, WalkLeavesDump
  <2>2. TargetLives /\ owner' = owner /\ gen' = gen
    BY <2>1 DEF treeVars, procVars, TargetLives, Alive
  <2>3. CASE AskParent
    BY <2>1, <2>2, <2>3 DEF AskParent, Goto, TargetInv, Dumping
  <2>4. CASE OpenParent
    <3>1. TargetFirstToDo /\ above \in Pids /\ todo \in Seq(Pids)
      BY <2>2, <2>4 DEF OpenParent, TargetInv, WalkTypeOK
    <3>2. Append(todo, above) # <<>> /\ Head(Append(todo, above)) = target
      BY <3>1
    <3> QED
      BY <2>1, <2>2, <2>4, <3>1, <3>2 DEF OpenParent, Goto, TargetInv, Dumping
  <2>5. CASE Describe
    <3>1. at = "describe" /\ at' = "describe"
      BY <2>5 DEF Describe
    <3>2. CASE TargetFirstToDo
      <4>1. Describable(Head(todo))
        BY <2>2, <3>2 DEF Describable, TargetInv, TargetLives
      <4>2. lineage' = Append(<<>>, Id(target))
        BY <2>5, <3>2, <4>1 DEF Describe
      <4> QED
        BY <2>1, <2>2, <3>1, <4>2 DEF TargetInv, Dumping
    <3>3. CASE TargetFirst
      <4>1. lineage' = lineage \/ lineage' = Append(lineage, Id(Head(todo)))
        BY <2>5 DEF Describe
      <4>2. lineage' # <<>> /\ lineage'[1] = lineage[1]
        BY <3>3, <4>1 DEF WalkTypeOK
      <4> QED
        BY <2>1, <2>2, <3>1, <3>3, <4>2 DEF TargetInv, Dumping
    <3> QED
      BY <2>2, <3>1, <3>2, <3>3 DEF TargetInv
  <2>6. CASE BeginDump
    <3>1. TargetFirst
      BY <2>2, <2>6 DEF BeginDump, TargetInv
    <3> QED
      BY <2>1, <2>2, <2>6, <3>1 DEF BeginDump, Goto, TargetInv, walkVars
  <2> QED
    BY <1>4, <2>3, <2>4, <2>5, <2>6 DEF WalkStep
<1> QED
  BY <1>1, <1>2, <1>3, <1>4, StepKinds

-----------------------------------------------------------------------------

LEMMA SnapshotInvInit == SnapshotInit => SnapshotInv
<1> SUFFICES ASSUME SnapshotInit PROVE SnapshotInv
  OBVIOUS
<1> USE ProcessAssumption, SnapshotAssumption DEF SnapshotInit
<1>1. ProcessesTypeOK
  BY DEF ProcessesTypeOK
<1>2. parent \in [Pids -> Ids] /\ \A q \in Pids \ {Root} : parent[q].pid \in Pids
  <2>1. PICK up \in [Pids \ {Root} -> Pids] :
          parent = [q \in Pids |-> IF q = Root THEN NoParent ELSE Id(up[q])]
    OBVIOUS
  <2>2. NoParent \in Ids
    BY DEF NoParent, Ids
  <2>3. \A q \in Pids : Id(q) \in Ids /\ Id(q).pid = q
    BY <1>1, IdsType
  <2> QED
    BY <2>1, <2>2, <2>3
<1>3. cur \in Ids /\ cur.pid = target
  BY <1>1, IdsType
<1>4. WalkTypeOK
  BY <1>1, <1>2, <1>3 DEF WalkTypeOK
<1>5. DumpTypeOK /\ DumpBounded
  BY DEF DumpTypeOK, DumpBounded
<1>6. HistoryTypeOK
  <2>1. PICK n \in 1 .. target : line \in [1 .. n -> {Id(q) : q \in Pids}]
    OBVIOUS
  <2>2. {Id(q) : q \in Pids} \subseteq Ids
    BY <1>1, IdsType
  <2>3. n \in Nat /\ line \in [1 .. n -> Ids]
    BY <2>1, <2>2
  <2> QED
    BY <2>3 DEF HistoryTypeOK
<1>7. TargetInv
  <2>1. owner[target] = User
    OBVIOUS
  <2> QED
    BY <2>1 DEF TargetInv, TargetFirstToDo, Dumping
<1> QED
  BY <1>4, <1>5, <1>6, <1>7 DEF SnapshotInv

LEMMA SnapshotInvariance == SnapshotSpec => []SnapshotInv
<1>1. SnapshotInv /\ [SnapshotNext]_snapVars => SnapshotInv'
  BY WalkTypeStep, DumpBoundStep, HistoryTypeStep, TargetStep DEF SnapshotInv
<1> QED
  BY <1>1, SnapshotInvInit, PTL DEF SnapshotSpec

\* The snapshot, the processes and the history keep their types.
THEOREM SnapshotTypeCorrect == SnapshotSpec => []SnapshotTypeOK
<1>1. SnapshotInv => SnapshotTypeOK
  BY DEF SnapshotInv, SnapshotTypeOK, WalkTypeOK, DumpTypeOK, HistoryTypeOK,
         Dumping
<1> QED
  BY <1>1, SnapshotInvariance, PTL

\* dump_memory() keeps to the configured size, whatever the memory map, the
\* order of its regions and the reads that fail.
THEOREM DumpIsBounded == SnapshotSpec => []DumpBounded
<1>1. SnapshotInv => DumpBounded
  BY DEF SnapshotInv
<1> QED
  BY <1>1, SnapshotInvariance, PTL

\* The lineage starts with the target as long as it has not ended, whichever of
\* its ancestors end while they are asked for: the notifier names it.
THEOREM OffenderIsFirst == SnapshotSpec => []OffenderFirst
<1>1. SnapshotInv => OffenderFirst
  BY DEF SnapshotInv, TargetInv, OffenderFirst, TargetLives, TargetFirst, Dumping
<1> QED
  BY <1>1, SnapshotInvariance, PTL

-----------------------------------------------------------------------------
(* The size of a memory map.                                               *)

\* Induction over the natural numbers, for a set of them.
LEMMA NatSetInduction ==
  ASSUME NEW S, 0 \in S, \A n \in Nat : n \in S => n + 1 \in S
  PROVE  Nat \subseteq S
<1> DEFINE R == {ss \in Nat \X Nat : ss[1] < ss[2]}
           T == {n \in Nat : n \notin S}
<1>1. IsWellFoundedOn(R, Nat)
  BY NatLessThanWellFounded DEF OpToRel
<1>2. SUFFICES ASSUME T # {} PROVE FALSE
  OBVIOUS
<1>3. PICK n \in T : \A m \in T : <<m, n>> \notin R
  <2>1. T \subseteq Nat
    OBVIOUS
  <2> HIDE DEF R, T
  <2> QED
    BY <1>1, <1>2, <2>1, WFMin
<1>4. n \in Nat /\ n # 0 /\ n - 1 \in Nat
  OBVIOUS
<1>5. n - 1 \notin S
  BY <1>4
<1>6. <<n - 1, n>> \in R
  BY <1>4
<1> QED
  BY <1>3, <1>4, <1>5, <1>6

\* f[n] is the size of the first n regions of s.
SizesOf(f, s, N) ==
  /\ f \in [0 .. N -> Nat]
  /\ f[0] = 0
  /\ \A n \in 1 .. N : f[n] = f[n - 1] + s[n].size

LEMMA SizesExist ==
  ASSUME NEW s \in Seq(Region)
  PROVE  \E f : SizesOf(f, s, Len(s))
<1> DEFINE S == {N \in Nat : N <= Len(s) => \E f : SizesOf(f, s, N)}
<1>1. 0 \in S
  <2> DEFINE f == [n \in 0 .. 0 |-> 0]
  <2>1. SizesOf(f, s, 0)
    BY DEF SizesOf
  <2> QED
    BY <2>1
<1>2. ASSUME NEW N \in Nat, N \in S PROVE N + 1 \in S
  <2>1. CASE N + 1 <= Len(s)
    <3>1. PICK f : SizesOf(f, s, N)
      BY <1>2, <2>1
    <3>2. s[N + 1] \in Region
      BY <2>1
    <3>3. s[N + 1].size \in Nat
      BY <3>2 DEF Region
    <3> DEFINE g == [n \in 0 .. N + 1 |->
                       IF n = N + 1 THEN f[N] + s[N + 1].size ELSE f[n]]
    <3>4. f[N] \in Nat
      BY <3>1 DEF SizesOf
    <3>5. g \in [0 .. N + 1 -> Nat]
      BY <3>1, <3>3, <3>4 DEF SizesOf
    <3>6. g[0] = 0
      BY <3>1 DEF SizesOf
    <3>7. ASSUME NEW n \in 1 .. N + 1 PROVE g[n] = g[n - 1] + s[n].size
      <4>1. CASE n = N + 1
        BY <4>1
      <4>2. CASE n \in 1 .. N
        BY <3>1, <4>2 DEF SizesOf
      <4> QED
        BY <4>1, <4>2
    <3> HIDE DEF g
    <3>8. SizesOf(g, s, N + 1)
      BY <3>5, <3>6, <3>7 DEF SizesOf
    <3> QED
      BY <3>8
  <2> QED
    BY <2>1
<1>3. Nat \subseteq S
  <2> HIDE DEF S
  <2> QED
    BY <1>1, <1>2, NatSetInduction
<1>4. Len(s) \in Nat
  OBVIOUS
<1> QED
  BY <1>3, <1>4

\* The recursive definition is such a function.
LEMMA SizesAreUpTo ==
  ASSUME NEW s \in Seq(Region)
  PROVE  SizesOf(SizeUpTo(s), s, Len(s))
<1>1. PICK f : SizesOf(f, s, Len(s))
  BY SizesExist
<1>2. f = [n \in 0 .. Len(s) |-> IF n = 0 THEN 0 ELSE f[n - 1] + s[n].size]
  <2>1. f \in [0 .. Len(s) -> Nat] /\ Len(s) \in Nat
    BY <1>1 DEF SizesOf
  <2>2. \A n \in 0 .. Len(s) : f[n] = IF n = 0 THEN 0 ELSE f[n - 1] + s[n].size
    BY <1>1, <2>1 DEF SizesOf
  <2> QED
    BY <2>1, <2>2
<1> DEFINE g == SizeUpTo(s)
<1>3. g = [n \in 0 .. Len(s) |-> IF n = 0 THEN 0 ELSE g[n - 1] + s[n].size]
  BY <1>2 DEF SizeUpTo
<1> HIDE DEF g
<1>4. \A n \in 0 .. Len(s) : g[n] = f[n]
  <2> DEFINE S == {n \in Nat : n <= Len(s) => g[n] = f[n]}
  <2>1. 0 \in S
    BY <1>1, <1>3 DEF SizesOf
  <2>2. ASSUME NEW n \in Nat, n \in S PROVE n + 1 \in S
    <3>1. CASE n + 1 <= Len(s)
      <4>1. g[n + 1] = g[n] + s[n + 1].size
        BY <1>3, <3>1
      <4>2. f[n + 1] = f[n] + s[n + 1].size
        BY <1>1, <3>1 DEF SizesOf
      <4> QED
        BY <2>2, <3>1, <4>1, <4>2
    <3> QED
      BY <3>1
  <2>3. Nat \subseteq S
    <3> HIDE DEF S
    <3> QED
      BY <2>1, <2>2, NatSetInduction
  <2> QED
    BY <2>3
<1>5. g = f
  BY <1>1, <1>3, <1>4 DEF SizesOf
<1> QED
  BY <1>1, <1>5 DEF g

\* More regions are not smaller.
LEMMA SizesGrow ==
  ASSUME NEW s \in Seq(Region), NEW k \in 0 .. Len(s)
  PROVE  SizeUpTo(s)[k] <= TotalSize(s) /\ SizeUpTo(s)[k] \in Nat
<1> DEFINE g == SizeUpTo(s)
<1>1. SizesOf(g, s, Len(s)) /\ TotalSize(s) = g[Len(s)]
  BY SizesAreUpTo DEF TotalSize
<1> HIDE DEF g
<1> DEFINE S == {n \in Nat : k + n <= Len(s) => g[k] <= g[k + n]}
<1>0. g \in [0 .. Len(s) -> Nat]
  BY <1>1 DEF SizesOf
<1>2. 0 \in S
  BY <1>0
<1>3. ASSUME NEW n \in Nat, n \in S PROVE n + 1 \in S
  <2>1. CASE k + n + 1 <= Len(s)
    <3>1. s[k + n + 1] \in Region
      BY <2>1
    <3>2. s[k + n + 1].size \in Nat
      BY <3>1 DEF Region
    <3>3. g[k + n + 1] = g[k + n] + s[k + n + 1].size
      BY <1>1, <2>1 DEF SizesOf
    <3>4. g[k] \in Nat /\ g[k + n] \in Nat /\ g[k] <= g[k + n]
      BY <1>0, <1>3, <2>1
    <3> QED
      BY <3>2, <3>3, <3>4
  <2> QED
    BY <2>1
<1>4. Nat \subseteq S
  <2> HIDE DEF S
  <2> QED
    BY <1>2, <1>3, NatSetInduction
<1>5. Len(s) - k \in Nat /\ k + (Len(s) - k) = Len(s)
  OBVIOUS
<1>6. g[k] <= g[Len(s)]
  BY <1>4, <1>5
<1> QED
  BY <1>0, <1>1, <1>6 DEF g

-----------------------------------------------------------------------------
(* The dump is complete.                                                   *)

Capped(n) == IF n < MaxBytes THEN n ELSE MaxBytes

\* The regions still to be read are the last ones of the map; the dump holds
\* what the bound allows of the k before them.
ReadUpTo(k) ==
  /\ Len(regions) = Len(layout) - k
  /\ \A i \in 1 .. Len(regions) : regions[i] = layout[k + i]
  /\ clean => dumped = Capped(SizeUpTo(layout)[k])

DumpInv ==
  /\ at \in {"climb", "parent", "describe", "maps"} => dumped = 0 /\ layout = <<>>
  /\ at = "open" => dumped = 0 /\ regions = layout
  /\ at = "read" => \E k \in 0 .. Len(layout) : ReadUpTo(k)
  /\ DumpComplete

LEMMA NothingRead ==
  ASSUME DumpTypeOK
  PROVE  SizeUpTo(layout)[0] = 0 /\ TotalSize(<<>>) = 0
<1>1. ASSUME NEW s \in Seq(Region) PROVE SizeUpTo(s)[0] = 0
  BY SizesAreUpTo DEF SizesOf
<1>2. <<>> \in Seq(Region) /\ Len(<<>>) = 0
  OBVIOUS
<1>3. TotalSize(<<>>) = SizeUpTo(<<>>)[0]
  BY <1>2 DEF TotalSize
<1> QED
  BY <1>1, <1>2, <1>3 DEF DumpTypeOK

\* One more region is read, as far as the bound allows.
LEMMA ReadStep ==
  ASSUME DumpTypeOK, ReadRegion, NEW k \in 0 .. Len(layout), ReadUpTo(k)
  PROVE  k + 1 \in 0 .. Len(layout) /\ ReadUpTo(k + 1)'
<1> USE SnapshotAssumption
<1>1. regions \in Seq(Region) /\ regions # <<>> /\ layout \in Seq(Region)
  BY DEF ReadRegion, DumpTypeOK
<1>2. Len(regions) \in Nat \ {0} /\ Len(regions) = Len(layout) - k
  BY <1>1 DEF ReadUpTo
<1>3. k + 1 \in 1 .. Len(layout)
  BY <1>1, <1>2
<1>4. /\ regions' = Tail(regions) /\ layout' = layout
      /\ Len(Tail(regions)) = Len(regions) - 1
      /\ \A i \in 1 .. Len(regions) - 1 : Tail(regions)[i] = regions[i + 1]
  BY <1>1 DEF ReadRegion
<1>5. \A i \in 1 .. Len(regions') : regions'[i] = layout[k + 1 + i]
  <2> TAKE i \in 1 .. Len(regions')
  <2>1. i + 1 \in 1 .. Len(regions) /\ regions'[i] = regions[i + 1]
    BY <1>1, <1>4
  <2>2. regions[i + 1] = layout[k + (i + 1)]
    BY <2>1 DEF ReadUpTo
  <2>3. k + (i + 1) = k + 1 + i
    OBVIOUS
  <2> QED
    BY <2>1, <2>2, <2>3
<1>6. ASSUME clean' PROVE dumped' = Capped(SizeUpTo(layout)[k + 1])
  <2>1. /\ clean /\ dumped < MaxBytes
        /\ dumped' = dumped + SizeToRead(Head(regions))
    BY <1>6 DEF ReadRegion, DumpTypeOK
  <2>2. dumped = SizeUpTo(layout)[k] /\ dumped \in Nat
    BY <2>1 DEF ReadUpTo, Capped, DumpTypeOK
  <2>3. Head(regions) = layout[k + 1]
    <3>1. 1 \in 1 .. Len(regions) /\ Head(regions) = regions[1]
      BY <1>1, <1>2
    <3> QED
      BY <3>1 DEF ReadUpTo
  <2>4. layout[k + 1].size \in Nat
    <3>1. layout[k + 1] \in Region
      BY <1>1, <1>3
    <3> QED
      BY <3>1 DEF Region
  <2>5. SizeUpTo(layout)[k + 1] = SizeUpTo(layout)[(k + 1) - 1] + layout[k + 1].size
    BY <1>1, <1>3, SizesAreUpTo DEF SizesOf
  <2>6. SizeUpTo(layout)[k + 1] = dumped + layout[k + 1].size
    BY <2>2, <2>5
  <2> QED
    BY <2>1, <2>2, <2>3, <2>4, <2>6 DEF SizeToRead, Capped
<1>7. Len(regions') = Len(layout) - (k + 1)
  BY <1>1, <1>2, <1>4
<1>8. ReadUpTo(k + 1)'
  BY <1>4, <1>5, <1>6, <1>7 DEF ReadUpTo
<1> QED
  BY <1>3, <1>8

\* The dump ends with the map, or with the bound.
LEMMA ReadToTheEnd ==
  ASSUME DumpTypeOK, DumpBounded, EndDump, clean,
         NEW k \in 0 .. Len(layout), ReadUpTo(k)
  PROVE  dumped = Capped(TotalSize(layout))
<1> USE SnapshotAssumption DEF DumpTypeOK
<1>1. dumped = Capped(SizeUpTo(layout)[k])
  BY DEF ReadUpTo
<1>2. CASE regions = <<>>
  <2>1. k = Len(layout)
    BY <1>2 DEF ReadUpTo
  <2> QED
    BY <1>1, <2>1 DEF TotalSize
<1>3. CASE dumped >= MaxBytes
  <2>1. SizeUpTo(layout)[k] <= TotalSize(layout) /\ SizeUpTo(layout)[k] \in Nat
    BY SizesGrow
  <2>2. TotalSize(layout) \in Nat
    <3>1. Len(layout) \in 0 .. Len(layout)
      OBVIOUS
    <3> QED
      BY <3>1, SizesGrow DEF TotalSize
  <2> QED
    BY <1>1, <1>3, <2>1, <2>2 DEF Capped
<1> QED
  BY <1>2, <1>3 DEF EndDump

LEMMA DumpStepInv ==
  ASSUME WalkTypeOK, DumpTypeOK, DumpBounded, DumpInv, [SnapshotNext]_snapVars
  PROVE  DumpInv'
<1> USE SnapshotAssumption
<1>1. CASE UNCHANGED snapVars
  BY <1>1 DEF snapVars, treeVars, procVars, dumpVars, DumpInv, DumpComplete,
              ReadUpTo
<1>2. CASE TreeChanges
  <2>1. UNCHANGED <<at, layout, regions, dumped, clean>>
    BY <1>2, TreeLeavesSnapshot
  <2>2. system' = system
    BY <1>2 DEF TreeChanges, Ends, Forks, Exit, Spawn, Reap, Continue
  <2> QED
    BY <2>1, <2>2 DEF DumpInv, DumpComplete, ReadUpTo
<1>3. CASE WalkStep
  <2>1. UNCHANGED <<treeVars, layout, regions, dumped, clean>>
    BY <1>3, WalkLeavesDump
  <2>2. /\ at \in {"climb", "parent", "describe"}
        /\ at' \in {"climb", "parent", "describe", "maps", "done"}
    BY <1>3 DEF WalkStep, AskParent, OpenParent, Describe, BeginDump, Goto
  <2>3. dumped = 0 /\ layout = <<>> /\ TotalSize(<<>>) = 0
    BY <2>2, NothingRead DEF DumpInv
  <2> QED
    BY <2>1, <2>2, <2>3 DEF DumpInv, DumpComplete
<1>4. CASE DumpFails
  BY <1>4 DEF DumpFails, Goto, DumpInv, DumpComplete
<1>5. CASE ReadMaps
  BY <1>5 DEF ReadMaps, Goto, DumpInv, DumpComplete
<1>6. CASE OpenMemory
  <2>1. /\ at' = "read" /\ dumped = 0 /\ regions = layout
        /\ UNCHANGED <<layout, regions, dumped, clean>>
    BY <1>6 DEF OpenMemory, Goto, DumpInv, dumpVars
  <2>2. 0 \in 0 .. Len(layout) /\ ReadUpTo(0)
    BY <2>1, NothingRead DEF ReadUpTo, DumpTypeOK, Capped
  <2>3. ReadUpTo(0)'
    BY <2>1, <2>2 DEF ReadUpTo
  <2> QED
    BY <2>1, <2>2, <2>3 DEF DumpInv, DumpComplete
<1>7. CASE ReadRegion
  <2>1. PICK k \in 0 .. Len(layout) : ReadUpTo(k)
    BY <1>7 DEF ReadRegion, DumpInv
  <2>2. k + 1 \in 0 .. Len(layout) /\ ReadUpTo(k + 1)'
    BY <1>7, <2>1, ReadStep
  <2>3. at' = "read" /\ layout' = layout
    BY <1>7 DEF ReadRegion
  <2> QED
    BY <2>2, <2>3 DEF DumpInv, DumpComplete
<1>8. CASE SeekTooHigh
  BY <1>8 DEF SeekTooHigh, Goto, DumpInv, DumpComplete
<1>9. CASE EndDump
  <2>1. PICK k \in 0 .. Len(layout) : ReadUpTo(k)
    BY <1>9 DEF EndDump, DumpInv
  <2>2. clean => dumped = Capped(TotalSize(layout))
    BY <1>9, <2>1, ReadToTheEnd
  <2>3. at' = "done" /\ UNCHANGED <<layout, dumped, clean>>
    BY <1>9 DEF EndDump, Goto, dumpVars
  <2> QED
    BY <2>2, <2>3 DEF DumpInv, DumpComplete, Capped
<1> QED
  BY <1>1, <1>2, <1>3, <1>4, <1>5, <1>6, <1>7, <1>8, <1>9, StepKinds DEF DumpStep

\* dump_memory() leaves nothing out: unless a read goes wrong, what it returns
\* is all of the memory map, or as much of it as the configuration allows.
THEOREM DumpIsComplete == SnapshotSpec => []DumpComplete
<1>1. SnapshotInit /\ SnapshotInv => DumpInv
  BY NothingRead, SnapshotAssumption
     DEF SnapshotInit, SnapshotInv, DumpInv, DumpComplete
<1>2. DumpInv /\ SnapshotInv /\ [SnapshotNext]_snapVars => DumpInv'
  BY DumpStepInv DEF SnapshotInv
<1>3. DumpInv => DumpComplete
  BY DEF DumpInv
<1> QED
  BY <1>1, <1>2, <1>3, SnapshotInvariance, PTL DEF SnapshotSpec

-----------------------------------------------------------------------------
(* The lineage shows kin only.                                             *)

\* The first process that had pid q.
First(q) == [pid |-> q, gen |-> 0]

\* init outlives everybody.
RootInv ==
  /\ state[Root] = "running"
  /\ gen[Root] = 0
  /\ parent[Root] = NoParent

\* The line is closed under parents, which is as far as the walk gets.
KinInv ==
  /\ \A i \in DOMAIN line : line[i].pid \in Pids /\ line[i].gen = 0
  /\ Contains(line, First(Root))
  /\ \A q \in Pids : gen[q] = 0 /\ Contains(line, First(q)) =>
       parent[q] = NoParent \/ Contains(line, parent[q])
  /\ Contains(line, cur)
  /\ at = "parent" => Contains(line, First(above))
  /\ \A i \in DOMAIN todo : Contains(line, First(todo[i]))
  /\ LineageIsKin

LEMMA RootStep ==
  ASSUME WalkTypeOK, RootInv, [SnapshotNext]_snapVars
  PROVE  RootInv'
<1> USE SnapshotAssumption, ProcessAssumption
<1>1. CASE UNCHANGED treeVars
  BY <1>1 DEF treeVars, procVars, RootInv
<1>2. CASE TreeChanges
  <2>1. gen[Root] \in Nat /\ NoParent.pid = 0
    BY DEF WalkTypeOK, ProcessesTypeOK, NoParent
  <2>2. ASSUME NEW q \in Pids, Ends(q) PROVE RootInv'
    <3>1. parent[Root] # Id(q)
      BY <2>1 DEF RootInv, Id
    <3> QED
      BY <2>2, <3>1 DEF Ends, Exit, RootInv, WalkTypeOK, ProcessesTypeOK
  <2>3. ASSUME NEW q \in Pids, NEW r \in Pids, Forks(q, r) PROVE RootInv'
    BY <2>3 DEF Forks, Spawn, Exists, RootInv, WalkTypeOK, ProcessesTypeOK
  <2>4. ASSUME NEW q \in Pids, Reap(q) \/ Continue(q), UNCHANGED parent
        PROVE  RootInv'
    BY <2>4 DEF Reap, Continue, RootInv, WalkTypeOK, ProcessesTypeOK
  <2> QED
    BY <1>2, <2>2, <2>3, <2>4 DEF TreeChanges
<1> QED
  BY <1>1, <1>2, StepKinds, DumpLeavesWalk, WalkLeavesDump DEF snapVars

\* A parent in the line is the first process that had its pid.
LEMMA KinParent ==
  ASSUME WalkTypeOK, HistoryTypeOK, KinInv, NEW e \in Ids, Contains(line, e)
  PROVE  e = First(e.pid) /\ e.pid \in Pids
<1>1. PICK i \in DOMAIN line : line[i] = e
  BY DEF Contains, HistoryTypeOK
<1>2. e.gen = 0 /\ e.pid \in Pids
  BY <1>1 DEF KinInv
<1> QED
  BY <1>2 DEF Ids, First

LEMMA KinStep ==
  ASSUME WalkTypeOK, HistoryTypeOK, RootInv, KinInv, [SnapshotNext]_snapVars
  PROVE  KinInv'
<1> USE SnapshotAssumption, ProcessAssumption
<1>1. CASE UNCHANGED snapVars
  BY <1>1 DEF snapVars, treeVars, procVars, walkVars, givenVars, KinInv,
              LineageIsKin, Contains
<1>2. CASE DumpStep
  <2>1. UNCHANGED <<treeVars, walkVars, line>> /\ at' # "parent"
    BY <1>2, DumpLeavesWalk DEF Dumping
  <2> QED
    BY <2>1 DEF treeVars, procVars, walkVars, KinInv, LineageIsKin, Contains
<1>3. CASE TreeChanges
  <2>1. UNCHANGED <<at, walkVars, line>>
    BY <1>3, TreeLeavesSnapshot
  <2>2. ASSUME NEW q \in Pids, gen'[q] = 0, Contains(line, First(q))
        PROVE  parent'[q] = NoParent \/ Contains(line, parent'[q])
    <3>1. gen \in [Pids -> Nat] /\ gen[q] \in Nat /\ parent \in [Pids -> Ids]
      BY DEF WalkTypeOK, ProcessesTypeOK
    <3>2. ASSUME gen[q] = 0
          PROVE  parent[q] = NoParent \/ Contains(line, parent[q])
      BY <2>2, <3>2 DEF KinInv
    <3>3. ASSUME NEW r \in Pids, Ends(r)
          PROVE  parent'[q] = NoParent \/ Contains(line, parent'[q])
      <4>1. gen' = gen
        BY <3>3 DEF Ends, Exit
      <4>2. parent'[q] = parent[q] \/ parent'[q] = Id(Root)
        BY <3>3 DEF Ends
      <4>3. Id(Root) = First(Root)
        BY DEF RootInv, Id, First
      <4> QED
        BY <2>2, <3>2, <4>1, <4>2, <4>3 DEF KinInv
    <3>4. ASSUME NEW r \in Pids, NEW s \in Pids, Forks(r, s)
          PROVE  parent'[q] = NoParent \/ Contains(line, parent'[q])
      <4>1. q # r
        BY <2>2, <3>1, <3>4 DEF Forks, Spawn
      <4>2. gen'[q] = gen[q] /\ parent'[q] = parent[q]
        BY <3>1, <3>4, <4>1 DEF Forks, Spawn
      <4> QED
        BY <2>2, <3>2, <4>2
    <3>5. ASSUME NEW r \in Pids, Reap(r) \/ Continue(r), UNCHANGED parent
          PROVE  parent'[q] = NoParent \/ Contains(line, parent'[q])
      BY <2>2, <3>2, <3>5 DEF Reap, Continue
    <3> QED
      BY <1>3, <3>3, <3>4, <3>5 DEF TreeChanges
  <2>3. Contains(line, cur)' /\ LineageIsKin'
    BY <2>1 DEF walkVars, KinInv, LineageIsKin, Contains
  <2> QED
    BY <2>1, <2>2, <2>3 DEF walkVars, KinInv, Contains
<1>4. CASE WalkStep
  <2>1. gen' = gen /\ parent' = parent /\ line' = line
    BY <1>4, WalkLeavesDump DEF treeVars, procVars
  <2>2. /\ \A i \in DOMAIN line' : line'[i].pid \in Pids /\ line'[i].gen = 0
        /\ Contains(line', First(Root))
        /\ \A q \in Pids : gen'[q] = 0 /\ Contains(line', First(q)) =>
             parent'[q] = NoParent \/ Contains(line', parent'[q])
    BY <2>1 DEF KinInv
  <2>3. CASE AskParent
    <3>1. UNCHANGED <<cur, todo, lineage>>
      BY <2>3 DEF AskParent
    <3>2. ASSUME at' = "parent" PROVE Contains(line, First(above'))
      <4>1. Here /\ cur.pid # Root /\ above' = parent[cur.pid].pid
        BY <2>3, <3>2 DEF AskParent, Goto
      <4>2. cur.pid \in Pids /\ parent[cur.pid] \in Ids
            /\ parent[cur.pid].pid # 0
        BY <4>1 DEF WalkTypeOK
      <4>3. cur = First(cur.pid)
        BY KinParent DEF KinInv, WalkTypeOK
      <4>4. gen[cur.pid] = 0
        BY <4>1, <4>3 DEF Here, Id, First
      <4>5. parent[cur.pid] # NoParent
        BY <4>2 DEF NoParent
      <4>6. Contains(line, parent[cur.pid])
        BY <4>2, <4>3, <4>4, <4>5 DEF KinInv
      <4> QED
        BY <4>1, <4>2, <4>6, KinParent
    <3> QED
      BY <2>1, <2>2, <3>1, <3>2 DEF KinInv, LineageIsKin
  <2>4. CASE OpenParent
    <3>1. lineage' = lineage /\ at' # "parent"
      BY <2>4 DEF OpenParent, Goto
    <3>2. above \in Pids /\ Contains(line, First(above)) /\ todo \in Seq(Pids)
      BY <2>4 DEF OpenParent, KinInv, WalkTypeOK
    <3>3. Older(above) => Id(above) = First(above)
      BY DEF Older, Id, First
    <3>4. Contains(line, cur')
      BY <2>4, <3>2, <3>3 DEF OpenParent, KinInv
    <3>5. todo' = todo \/ todo' = Append(todo, above)
      BY <2>4 DEF OpenParent
    <3>6. ASSUME NEW i \in DOMAIN todo'
          PROVE  Contains(line, First(todo'[i]))
      <4>1. todo'[i] = above \/ (i \in DOMAIN todo /\ todo'[i] = todo[i])
        <5>1. CASE todo' = todo
          BY <3>6, <5>1
        <5>2. CASE todo' = Append(todo, above)
          <6>1. /\ DOMAIN todo' = 1 .. Len(todo) + 1 /\ DOMAIN todo = 1 .. Len(todo)
                /\ Len(todo) \in Nat /\ todo'[Len(todo) + 1] = above
                /\ \A j \in 1 .. Len(todo) : todo'[j] = todo[j]
            BY <3>2, <5>2
          <6> QED
            BY <3>6, <6>1
        <5> QED
          BY <3>5, <5>1, <5>2
      <4> QED
        BY <3>2, <4>1 DEF KinInv
    <3> QED
      BY <2>1, <2>2, <3>1, <3>4, <3>6 DEF KinInv, LineageIsKin
  <2>5. CASE Describe
    <3>1. UNCHANGED <<at, cur, above>> /\ at # "parent"
      BY <2>5 DEF Describe
    <3>2. todo \in Seq(Pids) /\ todo # <<>> /\ todo' = Tail(todo)
      BY <2>5 DEF Describe, WalkTypeOK
    <3>3. ASSUME NEW i \in DOMAIN todo'
          PROVE  Contains(line, First(todo'[i]))
      <4>1. i + 1 \in DOMAIN todo /\ todo'[i] = todo[i + 1]
        BY <3>2, <3>3
      <4> QED
        BY <4>1 DEF KinInv
    <3>4. Contains(line, First(Head(todo))) /\ Head(todo) \in Pids
      <4>1. 1 \in DOMAIN todo /\ Head(todo) = todo[1] /\ todo[1] \in Pids
        BY <3>2
      <4> QED
        BY <4>1 DEF KinInv
    <3>5. Contains(line, Id(Head(todo))) \/ Id(Head(todo)).gen > 0
      <4>1. gen[Head(todo)] \in Nat
        BY <3>4 DEF WalkTypeOK, ProcessesTypeOK
      <4>2. CASE gen[Head(todo)] = 0
        BY <3>4, <4>2 DEF Id, First
      <4>3. CASE gen[Head(todo)] > 0
        BY <4>3 DEF Id
      <4> QED
        BY <4>1, <4>2, <4>3
    <3>6. ASSUME NEW i \in DOMAIN lineage'
          PROVE  Contains(line, lineage'[i]) \/ lineage'[i].gen > 0
      <4>1. \/ lineage'[i] = Id(Head(todo))
            \/ i \in DOMAIN lineage /\ lineage'[i] = lineage[i]
        <5>1. lineage \in Seq(Ids)
          BY DEF WalkTypeOK
        <5>2. lineage' = lineage \/ lineage' = Append(lineage, Id(Head(todo)))
          BY <2>5 DEF Describe
        <5> QED
          BY <3>6, <5>1, <5>2
      <4> QED
        BY <3>5, <4>1 DEF KinInv, LineageIsKin
    <3> QED
      BY <2>1, <2>2, <3>1, <3>3, <3>6 DEF KinInv, LineageIsKin
  <2>6. CASE BeginDump
    BY <2>1, <2>2, <2>6 DEF BeginDump, Goto, walkVars, KinInv, LineageIsKin
  <2> QED
    BY <1>4, <2>3, <2>4, <2>5, <2>6 DEF WalkStep
<1> QED
  BY <1>1, <1>2, <1>3, <1>4, StepKinds

\* The line leads to the root, which alone has no parent.
LEMMA LineInit ==
  ASSUME SnapshotInit, SnapshotInv
  PROVE  /\ RootInv
         /\ line # <<>> /\ IsAncestry(line)
         /\ \A i \in DOMAIN line :
              line[i].pid \in Pids /\ line[i] = Id(line[i].pid) /\ line[i].gen = 0
         /\ line[Len(line)].pid = Root
<1> USE SnapshotAssumption, ProcessAssumption
<1>1. PICK n \in 1 .. target :
        line \in {l \in [1 .. n -> {Id(q) : q \in Pids}] : IsAncestry(l)}
  BY DEF SnapshotInit
<1>2. line \in Seq(Ids) /\ n \in Nat /\ DOMAIN line = 1 .. n
  BY <1>1 DEF SnapshotInv, HistoryTypeOK, SnapshotInit
<1>3. Len(line) = n /\ line # <<>>
  BY <1>2
<1>4. ASSUME NEW q \in Pids PROVE Id(q).pid = q /\ Id(q).gen = 0
  BY <1>4 DEF Id, SnapshotInit
<1>5. ASSUME NEW i \in DOMAIN line
      PROVE  /\ line[i].pid \in Pids /\ line[i] = Id(line[i].pid)
             /\ line[i].gen = 0
  <2>1. PICK q \in Pids : line[i] = Id(q)
    BY <1>1, <1>2
  <2> QED
    BY <1>4, <2>1
<1>6. RootInv
  BY DEF RootInv, SnapshotInit
<1>7. line[Len(line)].pid = Root
  <2>1. line[n].pid \in Pids /\ parent[line[n].pid] = NoParent
    BY <1>1, <1>2, <1>3, <1>5 DEF IsAncestry
  <2>2. \A q \in Pids \ {Root} : parent[q].pid \in Pids
    BY DEF SnapshotInv, WalkTypeOK
  <2>3. NoParent.pid \notin Pids
    BY DEF NoParent
  <2> QED
    BY <1>3, <2>1, <2>2, <2>3
<1> QED
  BY <1>1, <1>3, <1>5, <1>6, <1>7

LEMMA KinInit ==
  ASSUME SnapshotInit, SnapshotInv
  PROVE  KinInv
<1> USE SnapshotAssumption, ProcessAssumption
<1>1. /\ RootInv /\ line # <<>> /\ IsAncestry(line)
      /\ \A i \in DOMAIN line :
           line[i].pid \in Pids /\ line[i] = Id(line[i].pid) /\ line[i].gen = 0
      /\ line[Len(line)].pid = Root
  BY LineInit
<1>2. /\ line \in Seq(Ids) /\ Len(line) \in Nat \ {0}
      /\ DOMAIN line = 1 .. Len(line)
  BY <1>1 DEF SnapshotInv, HistoryTypeOK
<1>3. \A i \in DOMAIN line : Contains(line, line[i])
  BY <1>2 DEF Contains
<1>4. \A q \in Pids : Id(q) = First(q)
  BY DEF Id, First, SnapshotInit
<1>5. Contains(line, First(Root))
  BY <1>1, <1>2, <1>3, <1>4
<1>6. Contains(line, Id(target)) /\ target \in Pids
  BY <1>1, <1>2, <1>3 DEF IsAncestry, SnapshotInit
<1>7. ASSUME NEW q \in Pids, Contains(line, First(q))
      PROVE  parent[q] = NoParent \/ Contains(line, parent[q])
  <2>1. PICK i \in DOMAIN line : line[i] = First(q)
    BY <1>2, <1>7 DEF Contains
  <2>2. line[i].pid = q
    BY <2>1 DEF First
  <2>3. CASE i = Len(line)
    BY <1>1, <2>2, <2>3 DEF IsAncestry
  <2>4. CASE i # Len(line)
    <3>1. i \in 1 .. Len(line) - 1 /\ i + 1 \in DOMAIN line
      BY <1>2, <2>4
    <3>2. line[i + 1] = parent[q]
      BY <1>1, <2>2, <3>1 DEF IsAncestry
    <3> QED
      BY <1>3, <3>1, <3>2
  <2> QED
    BY <2>3, <2>4
<1>8. \A i \in DOMAIN todo : Contains(line, First(todo[i]))
  BY <1>4, <1>6 DEF SnapshotInit
<1> QED
  BY <1>1, <1>5, <1>6, <1>7, <1>8 DEF KinInv, LineageIsKin, SnapshotInit

LEMMA KinInvariance == SnapshotSpec => [](RootInv /\ KinInv)
<1>1. SnapshotInit /\ SnapshotInv => RootInv /\ KinInv
  BY KinInit, LineInit
<1>2. SnapshotInv /\ RootInv /\ KinInv /\ [SnapshotNext]_snapVars
      => RootInv' /\ KinInv'
  BY RootStep, KinStep DEF SnapshotInv
<1> QED
  BY <1>1, <1>2, SnapshotInvariance, PTL DEF SnapshotSpec

\* No bystander is shown for an ancestor, whichever processes end, start or are
\* adopted while the walk goes on; only a pid that has passed on can mislead it.
THEOREM LineageKin == SnapshotSpec => []LineageIsKin
<1>1. KinInv => LineageIsKin
  BY DEF KinInv
<1> QED
  BY <1>1, KinInvariance, PTL

-----------------------------------------------------------------------------
(* The lineage is complete.                                                *)

\* While none of the line ends, it still is the ancestry of the target.
Ancestry ==
  /\ line # <<>>
  /\ line[1].pid = target
  /\ \A i \in DOMAIN line :
       line[i].pid \in Pids /\ line[i] = Id(line[i].pid) /\ Alive(line[i].pid)
  /\ \A i \in 1 .. Len(line) - 1 : line[i + 1] = parent[line[i].pid]
  /\ parent[line[Len(line)].pid] = NoParent

\* The places of the line, up to the kth, that can be described.
Shown(k) == {i \in 1 .. k : system = "linux" \/ owner[line[i].pid] = User}

\* The walk has come up the line as far as there are pids to do.
Climbing ==
  /\ Len(todo) \in 1 .. Len(line)
  /\ \A i \in DOMAIN todo : todo[i] = line[i].pid
  /\ cur = line[Len(todo)]
  /\ lineage = <<>>

\* The first k processes of the line have been looked up.
DescribedUpTo(k) ==
  /\ Len(todo) = Len(line) - k
  /\ \A i \in DOMAIN todo : todo[i] = line[k + i].pid
  /\ Selects(lineage, line, Shown(k))

QuietInv ==
  quiet =>
    /\ Ancestry
    /\ at \in {"climb", "parent"} => Climbing
    /\ at = "parent" =>
         Len(todo) + 1 \in 1 .. Len(line) /\ above = line[Len(todo) + 1].pid
    /\ at = "describe" => \E k \in 0 .. Len(line) : DescribedUpTo(k)
    /\ at \in Dumping => Selects(lineage, line, Shown(Len(line)))

LEMMA NotTheLast ==
  ASSUME NEW n \in Nat, NEW k \in 1 .. n, k # n
  PROVE  k \in 1 .. n - 1 /\ k + 1 \in 1 .. n
  OBVIOUS

LEMMA SomeLeft ==
  ASSUME NEW n \in Nat, NEW k \in 0 .. n, NEW m \in Nat \ {0}, m = n - k
  PROVE  k + 1 \in 1 .. n /\ k \in Nat /\ m - 1 = n - (k + 1)
  OBVIOUS

LEMMA SelectsNone ==
  ASSUME NEW t
  PROVE  Selects(<<>>, t, {})
<1> DEFINE place == [i \in DOMAIN <<>> |-> 0]
<1>1. DOMAIN <<>> = {}
  OBVIOUS
<1>2. place \in [DOMAIN <<>> -> {}]
  BY <1>1
<1> QED
  BY <1>1, <1>2 DEF Selects

LEMMA SelectsOneMore ==
  ASSUME NEW X, NEW s \in Seq(X), NEW t, NEW P \in SUBSET Nat,
         NEW m \in Nat, \A p \in P : p < m, t[m] \in X, Selects(s, t, P)
  PROVE  Selects(Append(s, t[m]), t, P \cup {m})
<1> DEFINE n == Len(s) + 1
           s2 == Append(s, t[m])
<1>1. /\ n \in Nat \ {0} /\ DOMAIN s = 1 .. n - 1 /\ DOMAIN s2 = 1 .. n
      /\ s2[n] = t[m] /\ \A i \in 1 .. n - 1 : s2[i] = s[i]
  OBVIOUS
<1>2. PICK place \in [DOMAIN s -> P] :
        /\ \A i, j \in DOMAIN s : i < j => place[i] < place[j]
        /\ \A p \in P : \E i \in DOMAIN s : place[i] = p
        /\ \A i \in DOMAIN s : s[i] = t[place[i]]
  BY DEF Selects
<1> HIDE DEF n, s2
<1> DEFINE further == [i \in 1 .. n |-> IF i = n THEN m ELSE place[i]]
<1>3. /\ further \in [1 .. n -> P \cup {m}] /\ further[n] = m
      /\ \A i \in 1 .. n - 1 : further[i] = place[i] /\ place[i] \in P
  BY <1>1, <1>2
<1> HIDE DEF further
<1>4. \A i, j \in 1 .. n : i < j => further[i] < further[j]
  <2> TAKE i, j \in 1 .. n
  <2> HAVE i < j
  <2>1. i \in 1 .. n - 1 /\ (j = n \/ j \in 1 .. n - 1)
    BY <1>1
  <2> QED
    BY <1>1, <1>2, <1>3, <2>1
<1>5. \A p \in P \cup {m} : \E i \in 1 .. n : further[i] = p
  <2> TAKE p \in P \cup {m}
  <2>1. CASE p = m
    BY <1>1, <1>3, <2>1
  <2>2. CASE p \in P
    <3>1. PICK i \in 1 .. n - 1 : place[i] = p
      BY <1>1, <1>2, <2>2
    <3> QED
      BY <1>1, <1>3, <3>1
  <2> QED
    BY <2>1, <2>2
<1>6. \A i \in 1 .. n : s2[i] = t[further[i]]
  <2> TAKE i \in 1 .. n
  <2>1. CASE i = n
    BY <1>1, <1>3, <2>1
  <2>2. CASE i \in 1 .. n - 1
    BY <1>1, <1>2, <1>3, <2>2
  <2> QED
    BY <1>1, <2>1, <2>2
<1>7. Selects(s2, t, P \cup {m})
  <2>1. DOMAIN s2 = 1 .. n
    BY <1>1
  <2>2. further \in [DOMAIN s2 -> P \cup {m}]
    BY <1>3, <2>1
  <2>3. \A i, j \in DOMAIN s2 : i < j => further[i] < further[j]
    BY <1>4, <2>1
  <2>4. \A p \in P \cup {m} : \E i \in DOMAIN s2 : further[i] = p
    BY <1>5, <2>1
  <2>5. \A i \in DOMAIN s2 : s2[i] = t[further[i]]
    BY <1>6, <2>1
  <2> QED
    BY <2>2, <2>3, <2>4, <2>5, Zenon DEF Selects
<1> QED
  BY <1>7 DEF s2

\* What happens to other processes leaves the line as it is.
LEMMA AncestryStep ==
  ASSUME WalkTypeOK, HistoryTypeOK, Ancestry, quiet', TreeChanges
  PROVE  /\ Ancestry'
         /\ \A k \in 0 .. Len(line) : Shown(k)' = Shown(k)
<1> USE DEF WalkTypeOK, ProcessesTypeOK
<1>1. UNCHANGED <<target, line>>
  BY TreeLeavesSnapshot
<1>2. line \in Seq(Ids) /\ Len(line) \in Nat \ {0} /\ DOMAIN line = 1 .. Len(line)
  BY DEF HistoryTypeOK, Ancestry
<1> DEFINE Steady(r) ==
      /\ gen'[r] = gen[r] /\ parent'[r] = parent[r] /\ owner'[r] = owner[r]
      /\ state'[r] \in {"running", "stopped"}
<1>3. ASSUME NEW i \in DOMAIN line
      PROVE  /\ line[i].pid \in Pids /\ Alive(line[i].pid)
             /\ line[i] = Id(line[i].pid)
  BY DEF Ancestry
<1>4. ASSUME NEW i \in DOMAIN line
      PROVE  system' = system /\ Steady(line[i].pid)
  <2> DEFINE r == line[i].pid
  <2>1. r \in Pids /\ state[r] \in {"running", "stopped"} /\ line[i] = Id(r)
    BY <1>3 DEF Alive
  <2>2. ASSUME NEW q \in Pids, Ends(q)
        PROVE  system' = system /\ Steady(r)
    <3>1. \A j \in DOMAIN line : line[j] # Id(q)
      BY <1>2, <2>2 DEF Ends, Contains
    <3>2. parent[r] # Id(q)
      <4>1. CASE i = Len(line)
        <5>1. Id(q).pid # 0
          BY ProcessAssumption DEF Id
        <5> QED
          BY <4>1, <5>1 DEF Ancestry, NoParent
      <4>2. CASE i # Len(line)
        <5>1. i \in 1 .. Len(line) - 1 /\ i + 1 \in DOMAIN line
          BY <1>2, <4>2
        <5> QED
          BY <3>1, <5>1 DEF Ancestry
      <4> QED
        BY <4>1, <4>2
    <3>3. r # q
      BY <2>1, <3>1
    <3> HIDE DEF r
    <3> QED
      BY <2>1, <2>2, <3>2, <3>3 DEF Ends, Exit
  <2> HIDE DEF r
  <2>3. ASSUME NEW q \in Pids, NEW p \in Pids, Forks(q, p)
        PROVE  system' = system /\ Steady(r)
    BY <2>1, <2>3 DEF Forks, Spawn, Exists
  <2>4. ASSUME NEW q \in Pids, Reap(q) \/ Continue(q), UNCHANGED parent
        PROVE  system' = system /\ Steady(r)
    BY <2>1, <2>4 DEF Reap, Continue
  <2>5. system' = system /\ Steady(r)
    BY <2>2, <2>3, <2>4 DEF TreeChanges
  <2> QED
    BY <2>5 DEF r
<1>5. Ancestry'
  <2>1. \A i \in DOMAIN line : Id(line[i].pid)' = Id(line[i].pid)
    BY <1>1, <1>4 DEF Id
  <2>2. \A i \in DOMAIN line' :
          /\ line'[i].pid \in Pids /\ line'[i] = Id(line[i].pid)'
          /\ Alive(line[i].pid)'
    BY <1>1, <1>3, <1>4, <2>1 DEF Alive
  <2>3. \A i \in 1 .. Len(line) - 1 : i \in DOMAIN line
    BY <1>2
  <2>4. Len(line) \in DOMAIN line
    BY <1>2
  <2> QED
    BY <1>1, <1>4, <2>2, <2>3, <2>4 DEF Ancestry
<1>6. ASSUME NEW k \in 0 .. Len(line) PROVE Shown(k)' = Shown(k)
  <2>1. \A i \in 1 .. k : i \in DOMAIN line
    BY <1>2
  <2> QED
    BY <1>1, <1>2, <1>4, <2>1 DEF Shown
<1> QED
  BY <1>5, <1>6

\* A step up the line.
LEMMA ClimbStep ==
  ASSUME WalkTypeOK, HistoryTypeOK, RootInv, KinInv, QuietInv, quiet,
         AskParent \/ OpenParent
  PROVE  /\ at' \in {"climb", "parent"} => Climbing'
         /\ at' = "parent" =>
              /\ Len(todo') + 1 \in 1 .. Len(line)
              /\ above' = line[Len(todo') + 1].pid
         /\ at' = "describe" => DescribedUpTo(0)'
         /\ at' \notin Dumping
<1> USE SnapshotAssumption, ProcessAssumption DEF Dumping
<1>1. Ancestry /\ Climbing
  BY DEF QuietInv, AskParent, OpenParent
<1>2. /\ line \in Seq(Ids) /\ Len(line) \in Nat \ {0} /\ DOMAIN line = 1 .. Len(line)
      /\ todo \in Seq(Pids) /\ Len(todo) \in 1 .. Len(line)
      /\ DOMAIN todo = 1 .. Len(todo)
  BY <1>1 DEF HistoryTypeOK, Ancestry, Climbing, WalkTypeOK
<1>3. UNCHANGED <<treeVars, line>> /\ lineage' = lineage
  BY WalkLeavesDump DEF WalkStep, AskParent, OpenParent
<1>4. NoParent.pid = 0
  BY DEF NoParent
<1>5. CASE AskParent
  <2>1. /\ cur = line[Len(todo)] /\ cur.pid \in Pids
        /\ cur = Id(cur.pid) /\ Alive(cur.pid)
    BY <1>1, <1>2 DEF Climbing, Ancestry
  <2>2. Here
    BY <2>1 DEF Here, Alive, Exists
  <2>3. UNCHANGED <<cur, todo, lineage>>
    BY <1>5 DEF AskParent
  <2>4. Climbing'
    BY <1>1, <1>3, <2>3 DEF Climbing
  <2>5. CASE cur.pid # Root
    <3>1. at' = "parent" /\ above' = parent[cur.pid].pid
      BY <1>5, <2>2, <2>5 DEF AskParent, Goto
    <3>2. Len(todo) # Len(line)
      <4>1. parent[cur.pid].pid # 0
        BY <2>1, <2>5 DEF WalkTypeOK
      <4> QED
        BY <1>1, <1>4, <2>1, <4>1 DEF Ancestry
    <3>3. Len(todo) \in 1 .. Len(line) - 1 /\ Len(todo) + 1 \in 1 .. Len(line)
      BY <1>2, <3>2, NotTheLast
    <3>4. line[Len(todo) + 1] = parent[cur.pid]
      BY <1>1, <2>1, <3>3 DEF Ancestry
    <3> QED
      BY <2>3, <2>4, <3>1, <3>3, <3>4
  <2>6. CASE cur.pid = Root
    <3>1. at' = "describe"
      BY <1>5, <2>6 DEF AskParent, Goto
    <3>2. Len(todo) = Len(line)
      <4>1. CASE Len(todo) # Len(line)
        <5>1. Len(todo) \in 1 .. Len(line) - 1 /\ Len(todo) + 1 \in DOMAIN line
          BY <1>2, <4>1, NotTheLast
        <5>2. line[Len(todo) + 1] = NoParent
          BY <1>1, <2>1, <2>6, <5>1 DEF Ancestry, RootInv
        <5> QED
          BY <1>1, <1>4, <5>1, <5>2 DEF Ancestry
      <4> QED
        BY <4>1
    <3>3. Shown(0) = {}
      BY DEF Shown
    <3>4. Selects(lineage, line, Shown(0))
      BY <1>1, <3>3, SelectsNone DEF Climbing
    <3>5. Shown(0)' = Shown(0)
      BY <3>3 DEF Shown
    <3>6. \A i \in DOMAIN todo : 0 + i = i
      BY <1>2
    <3>7. Len(todo') = Len(line') - 0
      BY <1>2, <1>3, <2>3, <3>2
    <3>8. \A i \in DOMAIN todo' : todo'[i] = line'[0 + i].pid
      BY <1>1, <1>3, <2>3, <3>6 DEF Climbing
    <3>9. Selects(lineage', line', Shown(0)')
      BY <1>3, <3>4, <3>5
    <3> QED
      BY <3>1, <3>7, <3>8, <3>9 DEF DescribedUpTo
  <2> QED
    BY <2>5, <2>6
<1>6. CASE OpenParent
  <2>1. Len(todo) + 1 \in 1 .. Len(line) /\ above = line[Len(todo) + 1].pid
    BY <1>6 DEF OpenParent, QuietInv
  <2>2. /\ above \in Pids /\ Alive(above) /\ line[Len(todo) + 1] = Id(above)
        /\ line[Len(todo) + 1].gen = 0
    BY <1>1, <1>2, <2>1 DEF Ancestry, KinInv
  <2>3. Older(above)
    BY <2>2 DEF Older, Exists, Alive, Id
  <2>4. cur' = Id(above) /\ todo' = Append(todo, above) /\ at' = "climb"
    BY <1>6, <2>3 DEF OpenParent, Goto
  <2>5. /\ Len(todo') = Len(todo) + 1 /\ DOMAIN todo' = 1 .. Len(todo) + 1
        /\ todo'[Len(todo) + 1] = above
        /\ \A i \in 1 .. Len(todo) : todo'[i] = todo[i]
    BY <1>2, <2>2, <2>4
  <2>6. ASSUME NEW i \in DOMAIN todo' PROVE todo'[i] = line'[i].pid
    <3>1. i = Len(todo) + 1 \/ i \in DOMAIN todo
      BY <1>2, <2>5
    <3> QED
      BY <1>1, <1>2, <1>3, <2>1, <2>5, <3>1 DEF Climbing
  <2>7. Climbing'
    BY <1>1, <1>3, <2>1, <2>2, <2>4, <2>5, <2>6 DEF Climbing
  <2> QED
    BY <2>4, <2>7
<1> QED
  BY <1>5, <1>6

LEMMA ShownSame ==
  ASSUME NEW CONSTANT n, UNCHANGED <<system, owner, line>>
  PROVE  Shown(n)' = Shown(n)
  BY DEF Shown

\* The next process of the line is looked up.
LEMMA LookUpStep ==
  ASSUME WalkTypeOK, HistoryTypeOK, Ancestry, Describe,
         NEW k \in 0 .. Len(line), DescribedUpTo(k)
  PROVE  k + 1 \in 0 .. Len(line) /\ DescribedUpTo(k + 1)'
<1>1. /\ line \in Seq(Ids) /\ Len(line) \in Nat /\ DOMAIN line = 1 .. Len(line)
      /\ todo \in Seq(Pids) /\ todo # <<>> /\ lineage \in Seq(Ids)
  BY DEF HistoryTypeOK, WalkTypeOK, Describe
<1>2. Len(todo) \in Nat \ {0} /\ Len(todo) = Len(line) - k
  BY <1>1 DEF DescribedUpTo
<1>3. k + 1 \in 1 .. Len(line) /\ k \in Nat
  BY <1>1, <1>2, SomeLeft
<1>4. /\ UNCHANGED <<treeVars, line>> /\ todo' = Tail(todo)
      /\ Len(Tail(todo)) = Len(todo) - 1
      /\ DOMAIN Tail(todo) = 1 .. Len(todo) - 1
      /\ \A i \in 1 .. Len(todo) - 1 : Tail(todo)[i] = todo[i + 1]
  BY <1>1 DEF Describe, givenVars
<1>5. \A i \in DOMAIN todo' : todo'[i] = line[k + 1 + i].pid
  <2> TAKE i \in DOMAIN todo'
  <2>1. i + 1 \in DOMAIN todo /\ todo'[i] = todo[i + 1] /\ i \in Nat
    <3>1. i \in 1 .. Len(todo) - 1 /\ DOMAIN todo = 1 .. Len(todo)
      BY <1>1, <1>4
    <3> QED
      BY <1>2, <1>4, <3>1
  <2>2. todo[i + 1] = line[k + (i + 1)].pid
    BY <2>1 DEF DescribedUpTo
  <2>3. k + (i + 1) = k + 1 + i
    BY <1>3, <2>1
  <2> QED
    BY <2>1, <2>2, <2>3
<1>6. /\ Head(todo) = line[k + 1].pid /\ Alive(Head(todo))
      /\ Id(Head(todo)) = line[k + 1] /\ line[k + 1] \in Ids
  <2>1. 1 \in DOMAIN todo /\ Head(todo) = todo[1]
    BY <1>1
  <2>2. Head(todo) = line[k + 1].pid
    BY <2>1 DEF DescribedUpTo
  <2> QED
    BY <1>1, <1>3, <2>2 DEF Ancestry
<1> DEFINE told == system = "linux" \/ owner[line[k + 1].pid] = User
<1>7. Selects(lineage', line, Shown(k + 1))
  <2>1. \A i : i \in 1 .. k + 1 <=> i \in 1 .. k \/ i = k + 1
    BY <1>3
  <2>2. CASE told
    <3>1. lineage' = Append(lineage, line[k + 1])
      BY <1>6, <2>2 DEF Describe, Describable
    <3>2. Shown(k + 1) = Shown(k) \cup {k + 1}
      BY <2>1, <2>2 DEF Shown
    <3>3. Shown(k) \in SUBSET Nat /\ \A p \in Shown(k) : p < k + 1
      BY DEF Shown
    <3>4. Selects(lineage, line, Shown(k))
      BY DEF DescribedUpTo
    <3>5. k + 1 \in Nat
      OBVIOUS
    <3>6. Selects(Append(lineage, line[k + 1]), line, Shown(k) \cup {k + 1})
      BY <1>1, <1>6, <3>3, <3>4, <3>5, SelectsOneMore
    <3> QED
      BY <3>1, <3>2, <3>6
  <2>3. CASE ~told
    <3>1. lineage' = lineage
      BY <1>6, <2>3 DEF Describe, Describable
    <3>2. Shown(k + 1) = Shown(k)
      BY <2>1, <2>3 DEF Shown
    <3> QED
      BY <3>1, <3>2 DEF DescribedUpTo
  <2> QED
    BY <2>2, <2>3
<1>8. Shown(k + 1)' = Shown(k + 1)
  <2>1. system' = system /\ owner' = owner /\ line' = line
    BY <1>4 DEF treeVars, procVars
  <2> QED
    BY <2>1, ShownSame
<1>9. Len(todo') = Len(line') - (k + 1)
  <2>1. Len(todo') = Len(todo) - 1 /\ Len(line') = Len(line)
    BY <1>4
  <2> QED
    BY <1>1, <1>2, <2>1, SomeLeft
<1>10. DescribedUpTo(k + 1)'
  BY <1>4, <1>5, <1>7, <1>8, <1>9 DEF DescribedUpTo
<1> QED
  BY <1>3, <1>10

LEMMA QuietStep ==
  ASSUME WalkTypeOK, HistoryTypeOK, RootInv, KinInv, QuietInv,
         [SnapshotNext]_snapVars
  PROVE  QuietInv'
<1> SUFFICES ASSUME quiet'
             PROVE  /\ Ancestry'
                    /\ (at \in {"climb", "parent"} => Climbing)'
                    /\ at' = "parent" =>
                         /\ Len(todo') + 1 \in 1 .. Len(line')
                         /\ above' = line'[Len(todo') + 1].pid
                    /\ at' = "describe" =>
                         \E k \in 0 .. Len(line') : DescribedUpTo(k)'
                    /\ (at \in Dumping => Selects(lineage, line, Shown(Len(line))))'
  BY DEF QuietInv
<1>1. Len(line) \in 0 .. Len(line)
  BY DEF HistoryTypeOK
<1>2. CASE UNCHANGED snapVars
  BY <1>2 DEF snapVars, treeVars, procVars, walkVars, givenVars, QuietInv,
              Ancestry, Climbing, DescribedUpTo, Shown, Id, Alive
<1>3. CASE DumpStep
  <2>1. /\ UNCHANGED <<treeVars, walkVars, target, line, quiet>>
        /\ at \in Dumping /\ at' \in Dumping
    BY <1>3, DumpLeavesWalk
  <2>2. Ancestry'
    BY <2>1 DEF QuietInv, treeVars, procVars, Ancestry, Id, Alive
  <2>3. Shown(Len(line))' = Shown(Len(line))
    BY <2>1 DEF treeVars, procVars, Shown
  <2> QED
    BY <2>1, <2>2, <2>3 DEF walkVars, QuietInv, Dumping
<1>4. CASE TreeChanges
  <2>1. UNCHANGED <<at, walkVars, target, line>>
    BY <1>4, TreeLeavesSnapshot
  <2>2. quiet
    BY <1>4 DEF TreeChanges, Ends, Forks
  <2>3. Ancestry' /\ \A k \in 0 .. Len(line) : Shown(k)' = Shown(k)
    BY <1>4, <2>2, AncestryStep DEF QuietInv
  <2>4. Shown(Len(line))' = Shown(Len(line))
    BY <1>1, <2>1, <2>3 DEF Shown
  <2> QED
    BY <2>1, <2>2, <2>3, <2>4 DEF walkVars, QuietInv, Climbing, DescribedUpTo
<1>5. CASE WalkStep
  <2>1. UNCHANGED <<treeVars, target, line, quiet>>
    BY <1>5, WalkLeavesDump
  <2>2. quiet /\ Ancestry'
    BY <2>1 DEF QuietInv, treeVars, procVars, Ancestry, Id, Alive
  <2>3. CASE AskParent \/ OpenParent
    <3>1. 0 \in 0 .. Len(line)
      BY <1>1
    <3> QED
      BY <2>1, <2>2, <2>3, <3>1, ClimbStep
  <2>4. CASE Describe
    <3>1. at = "describe" /\ at' = "describe"
      BY <2>4 DEF Describe
    <3>2. PICK k \in 0 .. Len(line) : DescribedUpTo(k)
      BY <2>2, <3>1 DEF QuietInv
    <3>3. k + 1 \in 0 .. Len(line) /\ DescribedUpTo(k + 1)'
      BY <2>2, <2>4, <3>2, LookUpStep DEF QuietInv
    <3> QED
      BY <2>1, <2>2, <3>1, <3>3 DEF Dumping
  <2>5. CASE BeginDump
    <3>1. /\ at = "describe" /\ todo = <<>> /\ UNCHANGED walkVars
          /\ at' \in {"maps", "done"}
      BY <2>5 DEF BeginDump, Goto
    <3>2. PICK k \in 0 .. Len(line) : DescribedUpTo(k)
      BY <2>2, <3>1 DEF QuietInv
    <3>3. k = Len(line)
      BY <1>1, <3>1, <3>2 DEF DescribedUpTo
    <3>4. Selects(lineage, line, Shown(Len(line)))
      BY <3>2, <3>3 DEF DescribedUpTo
    <3>5. Shown(Len(line))' = Shown(Len(line))
      BY <2>1 DEF treeVars, procVars, Shown
    <3> QED
      BY <2>1, <2>2, <3>1, <3>4, <3>5 DEF walkVars
  <2> QED
    BY <1>5, <2>3, <2>4, <2>5 DEF WalkStep
<1> QED
  BY <1>2, <1>3, <1>4, <1>5, StepKinds

LEMMA QuietInit ==
  ASSUME SnapshotInit, SnapshotInv
  PROVE  QuietInv
<1> USE SnapshotAssumption, ProcessAssumption
<1>1. /\ line # <<>> /\ IsAncestry(line)
      /\ \A i \in DOMAIN line : line[i].pid \in Pids /\ line[i] = Id(line[i].pid)
  BY LineInit
<1>2. \A q \in Pids : Alive(q) /\ Id(q).pid = q
  BY DEF SnapshotInit, Alive, Id
<1>3. Ancestry
  BY <1>1, <1>2 DEF Ancestry, IsAncestry, SnapshotInit
<1>4. Len(line) \in Nat \ {0}
  BY <1>1 DEF SnapshotInv, HistoryTypeOK
<1>5. todo = <<target>> /\ cur = line[1] /\ line[1].pid = target
  BY <1>1, <1>3 DEF SnapshotInit, Ancestry, IsAncestry
<1>6. Climbing
  BY <1>4, <1>5 DEF SnapshotInit, Climbing
<1> QED
  BY <1>3, <1>6 DEF SnapshotInit, QuietInv, Dumping

LEMMA QuietInvariance == SnapshotSpec => []QuietInv
<1>1. SnapshotInit /\ SnapshotInv => QuietInv
  BY QuietInit
<1>2. SnapshotInv /\ (RootInv /\ KinInv) /\ QuietInv /\ [SnapshotNext]_snapVars
      => QuietInv'
  BY QuietStep DEF SnapshotInv
<1> QED
  BY <1>1, <1>2, SnapshotInvariance, KinInvariance, PTL DEF SnapshotSpec

\* The lineage misses nobody the system describes, and has them in their order:
\* as long as target and ancestors live, it is the whole way up to init.
THEOREM LineageIsComplete == SnapshotSpec => []LineageComplete
<1>1. HistoryTypeOK /\ QuietInv => LineageComplete
  <2> SUFFICES ASSUME HistoryTypeOK, QuietInv, at = "done", quiet
               PROVE  Selects(lineage, line,
                        {i \in DOMAIN line :
                           system = "linux" \/ owner[line[i].pid] = User})
    BY DEF LineageComplete
  <2>1. DOMAIN line = 1 .. Len(line)
    BY DEF HistoryTypeOK
  <2>2. Selects(lineage, line, Shown(Len(line)))
    BY DEF QuietInv, Dumping
  <2> QED
    BY <2>1, <2>2 DEF Shown
<1>2. SnapshotInv => HistoryTypeOK
  BY DEF SnapshotInv
<1> QED
  BY <1>1, <1>2, SnapshotInvariance, QuietInvariance, PTL

=============================================================================
