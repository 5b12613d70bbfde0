----------------------- MODULE CanaryDeploymentProofs -----------------------
(* Proofs about CanaryDeployment, for any jobs, canaries and directories.   *)
EXTENDS CanaryDeployment, TLAPS, SequenceTheorems

-----------------------------------------------------------------------------
(* The inductive invariant.                                                *)

JobRecord ==
  [cmd : Commands \cup {"none"}, cwd : Dirs \cup {"home"}, todo : Seq(Kinds),
   pc : Labels, held : Places \cup {NoFile}, seen : SUBSET Places,
   result : {"new", "running", "ok", "failed", "killed"}]

FileTypes ==
  /\ profile \in BOOLEAN
  /\ content \in [Places -> {"none", "empty", "schema", "whole"}]
  /\ private \in SUBSET Places
  /\ \A p \in private : There(p)

JobTypes ==
  /\ job \in [Jobs -> JobRecord]
  /\ solo \in SUBSET Jobs
  /\ latest \in Jobs \cup {NoFile}

\* A job under way, or killed, is at one of its canaries; a running one has a
\* file open only between the open() and the close() for that canary.
Stages(j) ==
  /\ job[j].pc \in {"look", "overwrite", "create", "unlink", "connect", "remove"} =>
       job[j].held = NoFile
  /\ job[j].pc = "chmod" /\ Kind(j) = "chrome" => job[j].held = NoFile
  /\ job[j].held \in {NoFile, Here(j)}
  /\ job[j].pc \in {"overwrite", "write"} => Kind(j) # "chrome"
  /\ job[j].pc \in {"unlink", "connect", "table", "rows"} => Kind(j) = "chrome"

JobInv ==
  \A j \in Jobs :
    /\ job[j].result \in {"running", "killed"} => job[j].todo # <<>>
    /\ Active(j) => Stages(j)

\* What job j still owes to the file at p, which is not whole: it holds that
\* very file, or is about to open it, at the step its content calls for.
Writing(j, p) ==
  \/ job[j].held = p /\ job[j].pc = "write"
  \/ job[j].held = p /\ job[j].pc = "table" /\ content[p] = "empty"
  \/ job[j].held = p /\ job[j].pc = "rows" /\ content[p] = "schema"
  \/ /\ p[1] = "chrome" /\ content[p] = "empty"
     /\ job[j].pc \in {"chmod", "connect"}

OwesContent(j, p) ==
  /\ job[j].todo # <<>> /\ Here(j) = p
  /\ \/ /\ job[j].result = "killed"
        /\ job[j].pc \in {"write", "chmod", "connect", "table", "rows"}
     \/ Active(j) /\ Writing(j, p)

Partial(p) == content[p] \in {"empty", "schema"}

PartialInv ==
  \A p \in Places : Partial(p) => \E j \in Jobs : OwesContent(j, p)

\* The same for the permissions of a file _safe_write has created.
OwesMode(j, p) ==
  /\ job[j].result \in {"running", "killed"} /\ job[j].todo # <<>>
  /\ Here(j) = p /\ job[j].pc \in {"write", "chmod"}

Exposed(p) == p[1] # "chrome" /\ There(p) /\ p \notin private

ExposedInv ==
  \A p \in Places : Exposed(p) => \E j \in Jobs : OwesMode(j, p)

DeployInv == FileTypes /\ JobTypes /\ JobInv /\ PartialInv /\ ExposedInv

-----------------------------------------------------------------------------
(* Lemmas about places and agendas.                                        *)

LEMMA PlaceIsPlace ==
  ASSUME NEW k \in Kinds, NEW d \in Dirs \cup {"home"}
  PROVE  Place(k, d) \in Places /\ Place(k, d)[1] = k
  BY DEF Place, Places

LEMMA NoFileIsNoPlace == NoFile \notin Places
  BY DeploymentAssumption DEF Places

\* A command has at least one canary to go through.
LEMMA AgendaType ==
  ASSUME NEW c \in Commands
  PROVE  Agenda(c) \in Seq(Kinds) /\ Agenda(c) # <<>>
<1> DEFINE only(k) == IF k \in Kinds THEN <<k>> ELSE <<>>
           a == only("aws")
           b == only("chrome")
           e == only("env")
           s == only("sys")
           search == IF profile THEN e ELSE b \o e
<1>1. \A k : only(k) \in Seq(Kinds) /\ (k \in Kinds => Len(only(k)) = 1)
  OBVIOUS
<1>2. \E k \in {"aws", "chrome", "env", "sys"} : k \in Kinds
  BY DeploymentAssumption DEF AllKinds
<1>3. /\ a \in Seq(Kinds) /\ b \in Seq(Kinds)
      /\ e \in Seq(Kinds) /\ s \in Seq(Kinds)
      /\ Len(a) + Len(b) + Len(e) + Len(s) > 0
  <2>1. /\ a \in Seq(Kinds) /\ b \in Seq(Kinds)
        /\ e \in Seq(Kinds) /\ s \in Seq(Kinds)
    BY <1>1
  <2>2. Len(a) = 1 \/ Len(b) = 1 \/ Len(e) = 1 \/ Len(s) = 1
    BY <1>1, <1>2
  <2> HIDE DEF a, b, e, s
  <2>3. Len(a) \in Nat /\ Len(b) \in Nat /\ Len(e) \in Nat /\ Len(s) \in Nat
    BY <2>1, LenProperties
  <2> QED
    BY <2>1, <2>2, <2>3
<1>4. \/ Agenda(c) = a \o b \o e \o s
      \/ Agenda(c) = e \o a \o b \o s
      \/ Agenda(c) = search \o a \o b \o s
  BY DEF Agenda, Commands
<1> HIDE DEF a, b, e, s
<1>5. \A x \in Seq(Kinds), y \in Seq(Kinds) :
        x \o y \in Seq(Kinds) /\ Len(x \o y) = Len(x) + Len(y)
  BY ConcatProperties
<1>6. search \in Seq(Kinds) /\ Len(search) >= Len(e)
  <2>1. Len(b) \in Nat /\ Len(e) \in Nat
    BY <1>3, LenProperties
  <2> QED
    BY <1>3, <1>5, <2>1
<1> HIDE DEF search
<1>7. /\ Len(a) \in Nat /\ Len(b) \in Nat /\ Len(e) \in Nat /\ Len(s) \in Nat
      /\ Len(search) \in Nat
  BY <1>3, <1>6, LenProperties
<1>8. ASSUME NEW w \in Seq(Kinds), NEW x \in Seq(Kinds), NEW y \in Seq(Kinds),
             NEW z \in Seq(Kinds)
      PROVE  /\ w \o x \o y \o z \in Seq(Kinds)
             /\ Len(w \o x \o y \o z) = Len(w) + Len(x) + Len(y) + Len(z)
  BY <1>5
<1>9. Agenda(c) \in Seq(Kinds) /\ Len(Agenda(c)) > 0
  <2>1. CASE Agenda(c) = a \o b \o e \o s
    BY <1>3, <1>7, <1>8, <2>1
  <2>2. CASE Agenda(c) = e \o a \o b \o s
    BY <1>3, <1>7, <1>8, <2>2
  <2>3. CASE Agenda(c) = search \o a \o b \o s
    BY <1>3, <1>6, <1>7, <1>8, <2>3
  <2> QED
    BY <1>4, <2>1, <2>2, <2>3
<1>10. Len(<<>>) = 0
  OBVIOUS
<1> QED
  BY <1>9, <1>10

-----------------------------------------------------------------------------
(* What a step of job j does: to j's record and to the file at its place, and *)
(* to nothing else, apart from the holders of a file it unlinks.            *)

Acts(j) == JobStep(j) \/ Killed(j)

\* Where a job is, and the place of its canary.
LEMMA HereIsPlace ==
  ASSUME JobTypes, NEW j \in Jobs, job[j].todo # <<>>
  PROVE  Kind(j) \in Kinds /\ Here(j) \in Places /\ Here(j)[1] = Kind(j)
<1>1. job[j].todo \in Seq(Kinds) /\ job[j].cwd \in Dirs \cup {"home"}
  BY DEF JobTypes, JobRecord
<1>2. Kind(j) \in Kinds
  BY <1>1 DEF Kind
<1> QED
  BY <1>1, <1>2, PlaceIsPlace DEF Here

\* The other jobs see their file unlinked, or nothing; other files do not change.
Aside(j) ==
  /\ UNCHANGED <<profile, solo, latest>>
  /\ \A i \in Jobs \ {j} :
       \/ job'[i] = job[i]
       \/ /\ content'[Here(j)] = "none"
          /\ job[i].held = Here(j)
          /\ job'[i] = [job[i] EXCEPT !.held = NoFile]
  /\ \A q \in Places \ {Here(j)} :
       content'[q] = content[q] /\ (q \in private' <=> q \in private)

LEMMA StepsAside ==
  ASSUME JobTypes, FileTypes, JobInv, NEW j \in Jobs, Acts(j)
  PROVE  Aside(j)
<1> USE DEF Aside, JobTypes, FileTypes, Constant, Untouched, Then, Holding,
            Through, Fails, Created, Deployed
<1>1. CASE SafeLook(j) \/ ChromeLook(j) \/ Killed(j)
  BY <1>1 DEF SafeLook, ChromeLook, Killed
<1>2. CASE SafeOverwrite(j)
  BY <1>2 DEF SafeOverwrite
<1>8. CASE SafeCreate(j)
  BY <1>8 DEF SafeCreate
<1>3. CASE SafeWrite(j) \/ SafeChmod(j)
  BY <1>3 DEF SafeWrite, SafeChmod
<1>4. CASE ChromeUnlink(j) \/ CleanRemove(j)
  <2>1. Here(j) \in Places
    BY <1>4, HereIsPlace DEF ChromeUnlink, CleanRemove, At, JobInv, Active
  <2> QED
    BY <1>4, <2>1 DEF ChromeUnlink, CleanRemove, Unlink
<1>5. CASE ChromeCreate(j) \/ ChromeChmod(j) \/ ChromeConnect(j)
  BY <1>5 DEF ChromeCreate, ChromeChmod, ChromeConnect
<1>6. CASE ChromeTable(j) \/ ChromeRows(j)
  BY <1>6 DEF ChromeTable, ChromeRows
<1>7. CASE Register(j) \/ Find(j)
  BY <1>7 DEF Register, Find
<1> QED
  BY <1>1, <1>2, <1>3, <1>4, <1>5, <1>6, <1>7, <1>8 DEF Acts, JobStep

-----------------------------------------------------------------------------
(* The record of the job that takes the step.                              *)

\* What keeps a record in order.
InOrder(j) ==
  /\ job[j] \in JobRecord
  /\ job[j].result \in {"running", "killed"} => job[j].todo # <<>>
  /\ Active(j) => Stages(j)

LEMMA MoreToDo ==
  ASSUME NEW s \in Seq(Kinds), s # <<>>
  PROVE  Tail(s) \in Seq(Kinds) /\ (Len(s) # 1 => Tail(s) # <<>>)
<1>1. Len(Tail(s)) = Len(s) - 1 /\ Tail(s) \in Seq(Kinds) /\ Len(s) \in Nat
  BY HeadTailProperties, LenProperties
<1>2. Len(s) = 0 <=> s = <<>>
  BY EmptySeq
<1>3. Len(Tail(s)) = 0 <=> Tail(s) = <<>>
  BY <1>1, EmptySeq
<1> QED
  BY <1>1, <1>2, <1>3

LEMMA ThenInOrder ==
  ASSUME JobTypes, JobInv, NEW j \in Jobs, Active(j), UNCHANGED profile,
         NEW label \in Labels, Then(j, label),
         \/ job[j].held = NoFile \/ label \in {"rows", "register"}
         \/ label = "chmod" /\ Kind(j) # "chrome",
         label \in {"overwrite", "write"} => Kind(j) # "chrome",
         label \in {"unlink", "connect", "table", "rows"} => Kind(j) = "chrome"
  PROVE  InOrder(j)'
<1>1. job[j] \in JobRecord /\ Stages(j) /\ job[j].todo # <<>>
  BY DEF JobTypes, JobInv, Active
<1>2. job'[j] = [job[j] EXCEPT !.pc = label]
  BY DEF Then, JobTypes
<1>3. job'[j] \in JobRecord
  BY <1>1, <1>2 DEF JobRecord
<1>4. /\ job'[j].todo = job[j].todo /\ job'[j].cwd = job[j].cwd
      /\ job'[j].pc = label /\ job'[j].held = job[j].held
  BY <1>1, <1>2 DEF JobRecord
<1>5. Here(j)' = Here(j) /\ Kind(j)' = Kind(j)
  BY <1>4 DEF Here, Kind, Place
<1> QED
  BY <1>1, <1>3, <1>4, <1>5 DEF InOrder, Stages

LEMMA HoldingInOrder ==
  ASSUME JobTypes, JobInv, NEW j \in Jobs, Active(j), UNCHANGED profile,
         NEW label \in {"write", "table"}, Holding(j, label),
         label = "write" <=> Kind(j) # "chrome"
  PROVE  InOrder(j)'
<1>1. job[j] \in JobRecord /\ Stages(j) /\ job[j].todo # <<>>
  BY DEF JobTypes, JobInv, Active
<1>2. Here(j) \in Places
  BY <1>1, HereIsPlace
<1>3. job'[j] = [job[j] EXCEPT !.pc = label, !.held = Here(j)]
  BY DEF Holding, JobTypes
<1>4. job'[j] \in JobRecord
  BY <1>1, <1>2, <1>3 DEF JobRecord, Labels
<1>5. /\ job'[j].todo = job[j].todo /\ job'[j].cwd = job[j].cwd
      /\ job'[j].pc = label /\ job'[j].held = Here(j)
  BY <1>1, <1>3 DEF JobRecord
<1>6. Here(j)' = Here(j) /\ Kind(j)' = Kind(j)
  BY <1>5 DEF Here, Kind, Place
<1> QED
  BY <1>1, <1>4, <1>5, <1>6 DEF InOrder, Stages

\* A job that is through with its canary has nothing open.
LEMMA ThroughInOrder ==
  ASSUME JobTypes, JobInv, NEW j \in Jobs, Active(j),
         NEW noted \in SUBSET Places, Through(j, noted)
  PROVE  InOrder(j)'
<1>1. job[j] \in JobRecord /\ job[j].todo \in Seq(Kinds) /\ job[j].todo # <<>>
  BY DEF JobTypes, JobInv, Active, JobRecord
<1>2. /\ job'[j] = [job[j] EXCEPT !.todo = Tail(job[j].todo), !.pc = "look",
                                  !.held = NoFile, !.seen = @ \cup noted,
                                  !.result = IF Len(job[j].todo) = 1 THEN "ok" ELSE @]
  BY DEF Through, JobTypes
<1>3. Tail(job[j].todo) \in Seq(Kinds)
  BY <1>1, MoreToDo
<1>4. job'[j] \in JobRecord
  BY <1>1, <1>2, <1>3 DEF JobRecord, Labels
<1>5. /\ job'[j].todo = Tail(job[j].todo) /\ job'[j].pc = "look"
      /\ job'[j].held = NoFile
      /\ job'[j].result = IF Len(job[j].todo) = 1 THEN "ok" ELSE "running"
  BY <1>1, <1>2 DEF JobRecord, Active
<1>6. Len(job[j].todo) # 1 => Tail(job[j].todo) # <<>>
  BY <1>1, MoreToDo
<1> QED
  BY <1>4, <1>5, <1>6 DEF InOrder, Stages

LEMMA FailsInOrder ==
  ASSUME JobTypes, NEW j \in Jobs, Fails(j)
  PROVE  InOrder(j)'
  BY DEF JobTypes, Fails, InOrder, JobRecord, Active

LEMMA StepInOrder ==
  ASSUME JobTypes, FileTypes, JobInv, NEW j \in Jobs, Acts(j)
  PROVE  InOrder(j)'
<1>1. Active(j) /\ UNCHANGED profile
  BY StepsAside DEF Acts, JobStep, Killed, At, Aside, SafeLook, SafeOverwrite,
     SafeCreate, SafeWrite, SafeChmod, ChromeLook, ChromeUnlink, ChromeCreate,
     ChromeChmod, ChromeConnect, ChromeTable, ChromeRows, Register, Find,
     CleanRemove
<1>2. job[j] \in JobRecord /\ Stages(j) /\ job[j].todo # <<>>
  BY <1>1 DEF JobTypes, JobInv, Active
<1>3. Here(j) \in Places
  BY <1>2, HereIsPlace
<1> USE <1>1, <1>2 DEF At, Stages, Labels
<1>4. CASE SafeLook(j) \/ ChromeLook(j)
  <2>1. PICK label \in {"overwrite", "create", "unlink"} :
          Then(j, label) /\ (label = "overwrite" => Kind(j) # "chrome")
                         /\ (label = "unlink" => Kind(j) = "chrome")
    BY <1>4 DEF SafeLook, ChromeLook
  <2>2. job[j].held = NoFile
    BY <1>4 DEF SafeLook, ChromeLook
  <2> QED
    BY <2>1, <2>2, ThenInOrder
<1>5. CASE SafeOverwrite(j)
  BY <1>5, HoldingInOrder DEF SafeOverwrite
<1>6. CASE SafeCreate(j)
  BY <1>6, ThenInOrder, HoldingInOrder DEF SafeCreate
<1>7. CASE SafeWrite(j)
  <2>1. Then(j, "chmod") /\ Kind(j) # "chrome"
    BY <1>7 DEF SafeWrite
  <2> QED
    BY <2>1, ThenInOrder
<1>19. ASSUME Deployed(j) PROVE InOrder(j)'
  <2>1. CASE Then(j, "register")
    BY <2>1, ThenInOrder
  <2>2. CASE Through(j, {})
    BY <2>2, ThroughInOrder
  <2> QED
    BY <1>19, <2>1, <2>2 DEF Deployed
<1>8. CASE SafeChmod(j)
  BY <1>8, <1>19, FailsInOrder DEF SafeChmod
<1>9. CASE ChromeUnlink(j)
  <2>1. CASE There(Here(j))
    <3>1. job'[j] = [job[j] EXCEPT !.pc = "create"]
      BY <1>9, <2>1 DEF ChromeUnlink, Unlink
    <3>2. /\ job'[j].todo = job[j].todo /\ job'[j].cwd = job[j].cwd
          /\ job'[j].pc = "create" /\ job'[j].held = NoFile
      BY <1>9, <3>1 DEF JobRecord, ChromeUnlink
    <3> QED
      BY <1>9, <3>1, <3>2 DEF InOrder, JobRecord
  <2> QED
    BY <1>9, <2>1, FailsInOrder DEF ChromeUnlink
<1>10. CASE ChromeCreate(j)
  <2>1. (Fails(j) \/ Then(j, "chmod")) /\ job[j].held = NoFile
    BY <1>10 DEF ChromeCreate
  <2> QED
    BY <2>1, FailsInOrder, ThenInOrder
<1>11. CASE ChromeChmod(j)
  <2>1. Kind(j) = "chrome" /\ (Fails(j) \/ Then(j, "connect"))
    BY <1>11 DEF ChromeChmod
  <2>2. job[j].held = NoFile
    BY <1>11 DEF ChromeChmod
  <2> QED
    BY <2>1, <2>2, FailsInOrder, ThenInOrder
<1>12. CASE ChromeConnect(j)
  BY <1>12, HoldingInOrder DEF ChromeConnect
<1>13. CASE ChromeTable(j)
  <2>1. Kind(j) = "chrome" /\ (Fails(j) \/ Then(j, "rows"))
    BY <1>13 DEF ChromeTable
  <2> QED
    BY <2>1, FailsInOrder, ThenInOrder
<1>14. CASE ChromeRows(j)
  BY <1>14, <1>19, FailsInOrder DEF ChromeRows
<1>15. CASE Register(j)
  BY <1>3, <1>15, ThroughInOrder, FailsInOrder DEF Register
<1>16. CASE Find(j)
  <2>1. Through(j, {}) \/ Then(j, "remove") \/ Then(j, "register")
    BY <1>16 DEF Find
  <2>2. job[j].held = NoFile
    BY <1>16 DEF Find
  <2> QED
    BY <2>1, <2>2, ThroughInOrder, ThenInOrder
<1>17. CASE CleanRemove(j)
  <2>1. job'[j] = [job[j] EXCEPT !.todo = Tail(job[j].todo), !.pc = "look",
                     !.seen = @ \cup {Here(j)},
                     !.result = IF Len(job[j].todo) = 1 THEN "ok" ELSE @]
    BY <1>17 DEF CleanRemove, Unlink
  <2>2. job[j].todo \in Seq(Kinds)
    BY DEF JobRecord
  <2>3. Tail(job[j].todo) \in Seq(Kinds)
        /\ (Len(job[j].todo) # 1 => Tail(job[j].todo) # <<>>)
    BY <2>2, MoreToDo
  <2>6. job[j].seen \cup {Here(j)} \in SUBSET Places
    BY <1>3 DEF JobRecord
  <2>7. /\ "look" \in Labels /\ job[j].result = "running"
    BY DEF Active
  <2>4. job'[j] \in JobRecord
    <3> HIDE DEF Stages, Labels, At
    <3> QED
      BY <2>1, <2>3, <2>6, <2>7 DEF JobRecord
  <2>5. /\ job'[j].todo = Tail(job[j].todo) /\ job'[j].pc = "look"
        /\ job'[j].held = NoFile
        /\ job'[j].result = IF Len(job[j].todo) = 1 THEN "ok" ELSE "running"
    BY <1>17, <2>1 DEF JobRecord, Active, CleanRemove
  <2> QED
    BY <2>3, <2>4, <2>5 DEF InOrder
<1>18. CASE Killed(j)
  BY <1>18 DEF Killed, InOrder, JobRecord, JobTypes, Active
<1> QED
  BY <1>4, <1>5, <1>6, <1>7, <1>8, <1>9, <1>10, <1>11, <1>12, <1>13, <1>14,
     <1>15, <1>16, <1>17, <1>18 DEF Acts, JobStep

\* The jobs remain a function, whatever the step.
LEMMA JobsRemain ==
  ASSUME JobTypes, NEW j \in Jobs, Acts(j)
  PROVE  job' = [i \in Jobs |-> job'[i]]
<1> USE DEF JobTypes, Then, Holding, Through, Fails, Deployed
<1>1. CASE SafeLook(j) \/ ChromeLook(j) \/ Killed(j) \/ Register(j) \/ Find(j)
  BY <1>1 DEF SafeLook, ChromeLook, Killed, Register, Find
<1>2. CASE SafeOverwrite(j) \/ SafeCreate(j) \/ SafeWrite(j) \/ SafeChmod(j)
  BY <1>2 DEF SafeOverwrite, SafeCreate, SafeWrite, SafeChmod
<1>3. CASE ChromeUnlink(j) \/ CleanRemove(j)
  BY <1>3 DEF ChromeUnlink, CleanRemove, Unlink
<1>4. CASE \/ ChromeCreate(j) \/ ChromeChmod(j) \/ ChromeConnect(j)
           \/ ChromeTable(j) \/ ChromeRows(j)
  BY <1>4 DEF ChromeCreate, ChromeChmod, ChromeConnect, ChromeTable, ChromeRows
<1> QED
  BY <1>1, <1>2, <1>3, <1>4 DEF Acts, JobStep

LEMMA JobsStep ==
  ASSUME JobTypes, FileTypes, JobInv, NEW j \in Jobs, Acts(j)
  PROVE  JobTypes' /\ JobInv'
<1>1. Aside(j) /\ InOrder(j)'
  BY StepsAside, StepInOrder
<1>2. ASSUME NEW i \in Jobs \ {j} PROVE InOrder(i)'
  <2>1. InOrder(i)
    BY DEF InOrder, JobTypes, JobInv
  <2>2. CASE job'[i] = job[i]
    BY <1>1, <2>1, <2>2
    DEF Aside, InOrder, Active, Stages, Here, Kind, Place
  <2>3. CASE job'[i] = [job[i] EXCEPT !.held = NoFile]
    <3>1. job'[i] \in JobRecord
      BY <2>1, <2>3 DEF InOrder, JobRecord
    <3>2. /\ job'[i].todo = job[i].todo /\ job'[i].pc = job[i].pc
          /\ job'[i].held = NoFile /\ job'[i].result = job[i].result
      BY <2>1, <2>3 DEF InOrder, JobRecord
    <3> QED
      BY <2>1, <3>1, <3>2 DEF InOrder, Active, Stages, Kind
  <2> QED
    BY <1>1, <2>2, <2>3 DEF Aside
<1>3. \A i \in Jobs : InOrder(i)'
  BY <1>1, <1>2
<1>4. job' \in [Jobs -> JobRecord]
  <2>1. \A i \in Jobs : job'[i] \in JobRecord
    BY <1>3 DEF InOrder
  <2>2. job' = [i \in Jobs |-> job'[i]]
    BY JobsRemain
  <2> QED
    BY <2>1, <2>2
<1> QED
  BY <1>1, <1>3, <1>4 DEF JobTypes, JobInv, InOrder, Aside

-----------------------------------------------------------------------------
(* The file at the place of the job that takes the step.                   *)

LEMMA FilesStep ==
  ASSUME FileTypes, JobTypes, JobInv, NEW j \in Jobs, Acts(j)
  PROVE  FileTypes'
<1>1. profile' \in BOOLEAN
  BY StepsAside DEF Aside, FileTypes
<1> USE <1>1 DEF FileTypes, There, Untouched, Created
<1>2. CASE SafeLook(j) \/ ChromeLook(j) \/ Killed(j) \/ Register(j) \/ Find(j)
  BY <1>2 DEF SafeLook, ChromeLook, Killed, Register, Find
<1>3. Here(j) \in Places
  BY HereIsPlace
  DEF Acts, JobStep, Killed, At, JobInv, Active, SafeLook, SafeOverwrite,
      SafeCreate, SafeWrite, SafeChmod, ChromeLook, ChromeUnlink, ChromeCreate,
      ChromeChmod, ChromeConnect, ChromeTable, ChromeRows, Register, Find,
      CleanRemove
<1>4. CASE SafeOverwrite(j)
  BY <1>3, <1>4 DEF SafeOverwrite
<1>5. CASE SafeCreate(j)
  BY <1>3, <1>5 DEF SafeCreate
<1>6. CASE SafeWrite(j)
  BY <1>3, <1>6 DEF SafeWrite
<1>7. CASE SafeChmod(j) \/ ChromeChmod(j)
  BY <1>3, <1>7 DEF SafeChmod, ChromeChmod
<1>8. CASE ChromeUnlink(j) \/ CleanRemove(j)
  BY <1>3, <1>8 DEF ChromeUnlink, CleanRemove, Unlink
<1>9. CASE ChromeCreate(j) \/ ChromeConnect(j)
  BY <1>3, <1>9 DEF ChromeCreate, ChromeConnect
<1>10. CASE ChromeTable(j) \/ ChromeRows(j)
  BY <1>3, <1>10 DEF ChromeTable, ChromeRows
<1> QED
  BY <1>2, <1>4, <1>5, <1>6, <1>7, <1>8, <1>9, <1>10 DEF Acts, JobStep

\* A job that goes on with, fails at, or is killed at its canary: what becomes
\* of its record.
LEMMA GoesOn ==
  ASSUME JobTypes, NEW j \in Jobs, UNCHANGED profile, NEW label \in Labels
  PROVE  /\ Then(j, label) =>
              /\ Here(j)' = Here(j) /\ job'[j].todo = job[j].todo
              /\ job'[j].pc = label /\ job'[j].held = job[j].held
              /\ job'[j].result = job[j].result
         /\ Holding(j, label) =>
              /\ Here(j)' = Here(j) /\ job'[j].todo = job[j].todo
              /\ job'[j].pc = label /\ job'[j].held = Here(j)
              /\ job'[j].result = job[j].result
<1>1. job[j] \in JobRecord
  BY DEF JobTypes
<1>2. ASSUME Then(j, label)
      PROVE  /\ job'[j].todo = job[j].todo /\ job'[j].cwd = job[j].cwd
             /\ job'[j].pc = label /\ job'[j].held = job[j].held
             /\ job'[j].result = job[j].result
  <2>1. job'[j] = [job[j] EXCEPT !.pc = label]
    BY <1>2 DEF Then, JobTypes
  <2> QED
    BY <1>1, <2>1 DEF JobRecord
<1>3. ASSUME Holding(j, label)
      PROVE  /\ job'[j].todo = job[j].todo /\ job'[j].cwd = job[j].cwd
             /\ job'[j].pc = label /\ job'[j].held = Here(j)
             /\ job'[j].result = job[j].result
  <2>1. job'[j] = [job[j] EXCEPT !.pc = label, !.held = Here(j)]
    BY <1>3 DEF Holding, JobTypes
  <2> QED
    BY <1>1, <2>1 DEF JobRecord
<1> QED
  BY <1>2, <1>3 DEF Here, Kind, Place

\* A step either leaves job j owing the content of its file, or finds the file
\* whole, or gone, or somebody else's to complete.
LEMMA PartialLocally ==
  ASSUME DeployInv, NEW j \in Jobs, Acts(j), NEW p, p = Here(j), Partial(p)'
  PROVE  \/ OwesContent(j, p)'
         \/ content'[p] = content[p] /\ ~OwesContent(j, p)
<1> USE DEF DeployInv
<1>1. Active(j) /\ UNCHANGED profile
  BY StepsAside DEF Acts, JobStep, Killed, At, Aside, SafeLook, SafeOverwrite,
     SafeCreate, SafeWrite, SafeChmod, ChromeLook, ChromeUnlink, ChromeCreate,
     ChromeChmod, ChromeConnect, ChromeTable, ChromeRows, Register, Find,
     CleanRemove
<1>2. job[j] \in JobRecord /\ Stages(j) /\ job[j].todo # <<>>
  BY <1>1 DEF JobTypes, JobInv, Active
<1>3. p \in Places /\ p[1] = Kind(j) /\ p # NoFile
  BY <1>2, HereIsPlace, NoFileIsNoPlace
<1> USE <1>1, <1>2, <1>3 DEF At, Active, Stages, Partial, OwesContent, Writing
<1>4. CASE SafeLook(j) \/ ChromeLook(j) \/ Register(j) \/ Find(j)
  BY <1>4 DEF SafeLook, ChromeLook, Register, Find, Untouched
<1>5. CASE SafeOverwrite(j)
  BY <1>5, GoesOn DEF SafeOverwrite, Labels
<1>6. CASE SafeCreate(j)
  BY <1>6, GoesOn DEF SafeCreate, Labels, Untouched
<1>7. CASE SafeWrite(j)
  BY <1>7 DEF SafeWrite, FileTypes
<1>8. CASE SafeChmod(j)
  BY <1>8 DEF SafeChmod
<1>9. CASE ChromeUnlink(j) \/ CleanRemove(j)
  BY <1>9 DEF ChromeUnlink, CleanRemove, Unlink, FileTypes, Untouched
<1>10. CASE ChromeCreate(j)
  BY <1>10, GoesOn DEF ChromeCreate, Untouched, Labels, Created, FileTypes
<1>11. CASE ChromeChmod(j)
  <2>1. content' = content /\ Kind(j) = "chrome"
    BY <1>11 DEF ChromeChmod
  <2>2. CASE There(p)
    BY <1>11, <2>1, <2>2, GoesOn DEF ChromeChmod, Labels
  <2> QED
    BY <2>1, <2>2 DEF There
<1>12. CASE ChromeConnect(j)
  <2>1. Holding(j, "table")
    BY <1>12 DEF ChromeConnect
  <2>2. CASE There(p)
    BY <1>12, <2>1, <2>2, GoesOn DEF ChromeConnect, Labels, Untouched
  <2>3. CASE ~There(p)
    BY <1>12, <2>1, <2>3, GoesOn DEF ChromeConnect, Labels, Created, FileTypes
  <2> QED
    BY <2>2, <2>3
<1>13. CASE ChromeTable(j)
  BY <1>13, GoesOn DEF ChromeTable, Labels, FileTypes
<1>14. CASE ChromeRows(j)
  BY <1>14 DEF ChromeRows, FileTypes
<1>15. CASE Killed(j)
  <2>1. job'[j] = [job[j] EXCEPT !.result = "killed", !.held = NoFile]
    BY <1>15 DEF Killed, JobTypes
  <2>2. /\ job'[j].todo = job[j].todo /\ job'[j].pc = job[j].pc
        /\ job'[j].result = "killed" /\ job'[j].cwd = job[j].cwd
    BY <2>1 DEF JobRecord
  <2>3. Here(j)' = p
    BY <2>2 DEF Here, Kind, Place
  <2> QED
    BY <1>15, <2>2, <2>3 DEF Killed, Untouched
<1> QED
  BY <1>4, <1>5, <1>6, <1>7, <1>8, <1>9, <1>10, <1>11, <1>12, <1>13, <1>14,
     <1>15 DEF Acts, JobStep

\* The same for the permissions.
LEMMA ExposedLocally ==
  ASSUME DeployInv, NEW j \in Jobs, Acts(j), NEW p, p = Here(j), Exposed(p)'
  PROVE  OwesMode(j, p)' \/ (Exposed(p) /\ ~OwesMode(j, p))
<1> USE DEF DeployInv
<1>1. Active(j) /\ UNCHANGED profile
  BY StepsAside DEF Acts, JobStep, Killed, At, Aside, SafeLook, SafeOverwrite,
     SafeCreate, SafeWrite, SafeChmod, ChromeLook, ChromeUnlink, ChromeCreate,
     ChromeChmod, ChromeConnect, ChromeTable, ChromeRows, Register, Find,
     CleanRemove
<1>2. job[j] \in JobRecord /\ Stages(j) /\ job[j].todo # <<>>
  BY <1>1 DEF JobTypes, JobInv, Active
<1>3. p \in Places /\ p[1] = Kind(j)
  BY <1>2, HereIsPlace
<1> USE <1>1, <1>2, <1>3 DEF At, Active, Stages, Exposed, OwesMode, There
<1>4. CASE SafeLook(j) \/ ChromeLook(j) \/ Register(j) \/ Find(j)
  BY <1>4 DEF SafeLook, ChromeLook, Register, Find, Untouched
<1>5. CASE SafeOverwrite(j)
  BY <1>5, GoesOn DEF SafeOverwrite, Labels
<1>6. CASE SafeCreate(j)
  BY <1>6, GoesOn DEF SafeCreate, Labels, Untouched
<1>7. CASE SafeWrite(j)
  <2>1. Then(j, "chmod")
    BY <1>7 DEF SafeWrite
  <2> QED
    BY <2>1, GoesOn DEF Labels
<1>8. CASE SafeChmod(j)
  BY <1>8 DEF SafeChmod
<1>9. CASE ChromeUnlink(j) \/ CleanRemove(j)
  BY <1>9 DEF ChromeUnlink, CleanRemove, Unlink, FileTypes, Untouched
<1>10. CASE ChromeCreate(j) \/ ChromeChmod(j)
  BY <1>10 DEF ChromeCreate, ChromeChmod
<1>11. CASE ChromeConnect(j) \/ ChromeTable(j) \/ ChromeRows(j)
  BY <1>11 DEF ChromeConnect, ChromeTable, ChromeRows
<1>12. CASE Killed(j)
  <2>1. job'[j] = [job[j] EXCEPT !.result = "killed", !.held = NoFile]
    BY <1>12 DEF Killed, JobTypes
  <2>2. /\ job'[j].todo = job[j].todo /\ job'[j].pc = job[j].pc
        /\ job'[j].result = "killed" /\ job'[j].cwd = job[j].cwd
    BY <2>1 DEF JobRecord
  <2>3. Here(j)' = p
    BY <2>2 DEF Here, Kind, Place
  <2>4. Exposed(p)
    BY <1>12 DEF Killed, Untouched
  <2>5. OwesMode(j, p) => OwesMode(j, p)'
    BY <2>2, <2>3
  <2> QED
    BY <2>4, <2>5
<1> QED
  BY <1>4, <1>5, <1>6, <1>7, <1>8, <1>9, <1>10, <1>11, <1>12 DEF Acts, JobStep

-----------------------------------------------------------------------------
(* Preservation, for the files at all places.                              *)

\* Whoever owes something to a file still does, when another job takes a step
\* that leaves that file as it is.
LEMMA OthersOwe ==
  ASSUME DeployInv, NEW j \in Jobs, Aside(j), NEW i \in Jobs \ {j}, NEW p \in Places
  PROVE  /\ OwesContent(i, p) /\ content'[p] = content[p] /\ Partial(p) =>
              OwesContent(i, p)'
         /\ OwesMode(i, p) => OwesMode(i, p)'
<1> USE DEF OwesContent, Writing, OwesMode, Active, Partial
<1>1. job[i] \in JobRecord
  BY DEF DeployInv, JobTypes
<1>2. CASE job'[i] = job[i]
  <2>1. Here(i)' = Here(i)
    BY <1>2 DEF Aside, Here, Kind, Place
  <2> QED
    BY <1>2, <2>1
<1>3. CASE /\ content'[Here(j)] = "none" /\ job[i].held = Here(j)
           /\ job'[i] = [job[i] EXCEPT !.held = NoFile]
  <2>1. /\ job'[i].todo = job[i].todo /\ job'[i].pc = job[i].pc
        /\ job'[i].result = job[i].result /\ job'[i].cwd = job[i].cwd
        /\ job'[i].held = NoFile
    BY <1>1, <1>3 DEF JobRecord
  <2>2. Here(i)' = Here(i)
    BY <2>1 DEF Aside, Here, Kind, Place
  <2>3. Partial(p) /\ content'[p] = content[p] => p # Here(j)
    BY <1>3
  <2> QED
    BY <1>3, <2>1, <2>2, <2>3
<1> QED
  BY <1>2, <1>3 DEF Aside

LEMMA PartialStep ==
  ASSUME DeployInv, NEW j \in Jobs, Acts(j)
  PROVE  PartialInv'
<1>1. Aside(j)
  BY StepsAside DEF DeployInv
<1> SUFFICES ASSUME NEW p \in Places, Partial(p)'
             PROVE  \E i \in Jobs : OwesContent(i, p)'
  BY DEF PartialInv, Places
<1>2. CASE OwesContent(j, p)'
  BY <1>2
<1>3. CASE content'[p] = content[p] /\ ~OwesContent(j, p)
  <2>1. Partial(p)
    BY <1>3 DEF Partial
  <2>2. PICK i \in Jobs : OwesContent(i, p)
    BY <2>1 DEF DeployInv, PartialInv
  <2>3. i # j
    BY <1>3, <2>2
  <2> QED
    BY <1>1, <1>3, <2>1, <2>2, <2>3, OthersOwe
<1>4. CASE p # Here(j)
  BY <1>1, <1>3, <1>4 DEF Aside, OwesContent
<1> QED
  BY <1>2, <1>3, <1>4, PartialLocally

LEMMA ExposedStep ==
  ASSUME DeployInv, NEW j \in Jobs, Acts(j)
  PROVE  ExposedInv'
<1>1. Aside(j)
  BY StepsAside DEF DeployInv
<1> SUFFICES ASSUME NEW p \in Places, Exposed(p)'
             PROVE  \E i \in Jobs : OwesMode(i, p)'
  BY DEF ExposedInv, Places
<1>2. CASE OwesMode(j, p)'
  BY <1>2
<1>3. CASE Exposed(p) /\ ~OwesMode(j, p)
  <2>1. PICK i \in Jobs : OwesMode(i, p)
    BY <1>3 DEF DeployInv, ExposedInv
  <2>2. i # j
    BY <1>3, <2>1
  <2> QED
    BY <1>1, <2>1, <2>2, OthersOwe
<1>4. CASE p # Here(j)
  <2>1. Exposed(p)
    BY <1>1, <1>4 DEF Aside, Exposed, There
  <2> QED
    BY <1>3, <1>4, <2>1 DEF OwesMode
<1> QED
  BY <1>2, <1>3, <1>4, ExposedLocally

\* A job that begins owes nothing yet, and changes no file.
LEMMA BeginStep ==
  ASSUME DeployInv, NEW j \in Jobs, NEW c \in Commands, NEW d \in Dirs,
         Begin(j, c, d)
  PROVE  DeployInv'
<1> USE DEF DeployInv
<1>1. /\ job[j].result = "new" /\ UNCHANGED <<profile, content, private>>
      /\ \A i \in Jobs \ {j} : job'[i] = job[i]
  BY DEF Begin, JobTypes
<1>2. FileTypes'
  BY <1>1 DEF FileTypes, There
<1>3. /\ job'[j] \in JobRecord /\ job'[j].todo # <<>>
      /\ job'[j].pc = "look" /\ job'[j].held = NoFile
  <2>1. Agenda(c) \in Seq(Kinds) /\ Agenda(c) # <<>>
    BY AgendaType
  <2>2. job'[j] = [NotBegun EXCEPT !.cmd = c, !.cwd = d, !.todo = Agenda(c),
                                   !.result = "running"]
    BY DEF Begin, JobTypes
  <2>3. job'[j] = [cmd |-> c, cwd |-> d, todo |-> Agenda(c), pc |-> "look",
                   held |-> NoFile, seen |-> {}, result |-> "running"]
    BY <2>2 DEF NotBegun
  <2> QED
    BY <2>1, <2>3 DEF JobRecord, Labels
<1>4. JobTypes'
  <2>1. job' \in [Jobs -> JobRecord]
    BY <1>1, <1>3 DEF Begin, JobTypes
  <2>2. solo' \in SUBSET Jobs /\ latest' \in Jobs \cup {NoFile}
    BY DEF Begin, JobTypes
  <2> QED
    BY <2>1, <2>2 DEF JobTypes
<1>5. \A i \in Jobs \ {j} : Here(i)' = Here(i) /\ Kind(i)' = Kind(i)
  BY <1>1 DEF Here, Kind, Place
<1>6. JobInv'
  BY <1>1, <1>3, <1>5 DEF JobInv, Active, Stages
<1>7. PartialInv'
  BY <1>1, <1>5 DEF PartialInv, Partial, OwesContent, Writing, Active, Places
<1>8. ExposedInv'
  BY <1>1, <1>5 DEF ExposedInv, Exposed, OwesMode, There, Places
<1> QED
  BY <1>2, <1>4, <1>6, <1>7, <1>8

-----------------------------------------------------------------------------

LEMMA DeployInvInit == DeployInit => DeployInv
<1> SUFFICES ASSUME DeployInit PROVE DeployInv
  OBVIOUS
<1> USE DEF DeployInit
<1>1. FileTypes
  BY DEF FileTypes
<1>2. JobTypes
  BY DEF JobTypes, JobRecord, NotBegun, Labels
<1>3. \A j \in Jobs : job[j].result = "new"
  BY DEF NotBegun
<1>4. JobInv
  BY <1>3 DEF JobInv, Active
<1>5. PartialInv /\ ExposedInv
  BY DEF PartialInv, Partial, ExposedInv, Exposed, There
<1> QED
  BY <1>1, <1>2, <1>4, <1>5 DEF DeployInv

LEMMA DeployInvStep == DeployInv /\ [DeployNext]_deployVars => DeployInv'
<1> SUFFICES ASSUME DeployInv, [DeployNext]_deployVars PROVE DeployInv'
  OBVIOUS
<1>1. CASE UNCHANGED deployVars
  BY <1>1 DEF deployVars, DeployInv, FileTypes, JobTypes, JobInv, PartialInv,
     ExposedInv, There, Active, Stages, Here, Kind, Place, Partial, Exposed,
     OwesContent, OwesMode, Writing, Places
<1>2. ASSUME NEW j \in Jobs, Acts(j) PROVE DeployInv'
  <2>1. FileTypes /\ JobTypes /\ JobInv
    BY DEF DeployInv
  <2>2. FileTypes' /\ JobTypes' /\ JobInv'
    BY <1>2, <2>1, FilesStep, JobsStep
  <2>3. PartialInv' /\ ExposedInv'
    BY <1>2, PartialStep, ExposedStep
  <2> QED
    BY <2>2, <2>3 DEF DeployInv
<1>3. ASSUME NEW j \in Jobs, NEW c \in Commands, NEW d \in Dirs, Begin(j, c, d)
      PROVE  DeployInv'
  BY <1>3, BeginStep
<1> QED
  BY <1>1, <1>2, <1>3 DEF DeployNext, Acts

LEMMA DeployInvariance == DeploySpec => []DeployInv
  BY DeployInvInit, DeployInvStep, PTL DEF DeploySpec

\* The variables of the commands keep their types; only a file that exists
\* can be private.
THEOREM DeployTypeCorrect == DeploySpec => []DeployTypeOK
<1>1. DeployInv => DeployTypeOK
  BY DEF DeployInv, FileTypes, JobTypes, JobRecord, DeployTypeOK
<1> QED
  BY <1>1, DeployInvariance, PTL

\* However many commands run at once, fail and are killed, a canary without its
\* content has a deployment that is still writing it, or was killed doing so.
THEOREM PartialOnlyWhileWritten == DeploySpec => []NeverLeftPartial
<1>1. DeployInv => NeverLeftPartial
  BY DEF DeployInv, PartialInv, Partial, OwesContent, Writing, Active,
         NeverLeftPartial, OwedBySomeone
<1> QED
  BY <1>1, DeployInvariance, PTL

\* ... and a canary _safe_write created is readable by others only then.
THEOREM ExposedOnlyThen == DeploySpec => []ExposedOnlyWhileWritten
<1>1. DeployInv => ExposedOnlyWhileWritten
  BY DEF DeployInv, ExposedInv, Exposed, OwesMode, ExposedOnlyWhileWritten,
         OwedBySomeone
<1> QED
  BY <1>1, DeployInvariance, PTL

=============================================================================
