-------------------------- MODULE CanaryJobsProofs --------------------------
(* Proofs about what whole jobs of CanaryDeployment achieve: those nobody    *)
(* interferes with, and deployments that run into each other.               *)
EXTENDS CanaryDeploymentProofs

-----------------------------------------------------------------------------
(* Agendas.                                                                *)

Elements(s) == {s[i] : i \in DOMAIN s}
Distinct(s) == \A a, b \in DOMAIN s : s[a] = s[b] => a = b

LEMMA ConcatElements ==
  ASSUME NEW S, NEW s \in Seq(S), NEW t \in Seq(S)
  PROVE  /\ s \o t \in Seq(S)
         /\ Elements(s \o t) = Elements(s) \cup Elements(t)
         /\ Distinct(s) /\ Distinct(t) /\ Elements(s) \cap Elements(t) = {}
            => Distinct(s \o t)
<1> DEFINE m == Len(s)
           n == Len(t)
           u == s \o t
<1>1. /\ u \in Seq(S) /\ m \in Nat /\ n \in Nat
      /\ DOMAIN s = 1 .. m /\ DOMAIN t = 1 .. n /\ DOMAIN u = 1 .. m + n
      /\ \A i \in 1 .. m + n : u[i] = IF i <= m THEN s[i] ELSE t[i - m]
  BY ConcatProperties, LenProperties
<1> HIDE DEF m, n, u
<1>2. ASSUME NEW i \in 1 .. m PROVE i \in DOMAIN u /\ u[i] = s[i]
  BY <1>1
<1>3. ASSUME NEW i \in 1 .. n PROVE m + i \in DOMAIN u /\ u[m + i] = t[i]
  <2>1. m + i \in 1 .. m + n /\ ~(m + i <= m) /\ (m + i) - m = i
    BY <1>1
  <2> QED
    BY <1>1, <2>1
<1>4. ASSUME NEW i \in DOMAIN u
      PROVE  \/ i \in 1 .. m /\ u[i] = s[i]
             \/ i - m \in 1 .. n /\ u[i] = t[i - m]
  BY <1>1
<1>5. Elements(u) = Elements(s) \cup Elements(t)
  <2>1. ASSUME NEW x \in Elements(u) PROVE x \in Elements(s) \cup Elements(t)
    <3>1. PICK i \in DOMAIN u : x = u[i]
      BY DEF Elements
    <3> QED
      BY <1>1, <1>4, <3>1 DEF Elements
  <2>2. ASSUME NEW x \in Elements(s) PROVE x \in Elements(u)
    <3>1. PICK i \in 1 .. m : x = s[i]
      BY <1>1 DEF Elements
    <3> QED
      BY <1>2, <3>1 DEF Elements
  <2>3. ASSUME NEW x \in Elements(t) PROVE x \in Elements(u)
    <3>1. PICK i \in 1 .. n : x = t[i]
      BY <1>1 DEF Elements
    <3> QED
      BY <1>3, <3>1 DEF Elements
  <2> QED
    BY <2>1, <2>2, <2>3
<1>6. ASSUME Distinct(s), Distinct(t), Elements(s) \cap Elements(t) = {}
      PROVE  Distinct(u)
  <2> SUFFICES ASSUME NEW a \in DOMAIN u, NEW b \in DOMAIN u, u[a] = u[b]
               PROVE  a = b
    BY DEF Distinct
  <2>1. CASE a \in 1 .. m /\ u[a] = s[a] /\ b \in 1 .. m /\ u[b] = s[b]
    BY <1>1, <1>6, <2>1 DEF Distinct
  <2>2. CASE a - m \in 1 .. n /\ u[a] = t[a - m] /\ b - m \in 1 .. n /\ u[b] = t[b - m]
    <3>1. a - m = b - m
      BY <1>1, <1>6, <2>2 DEF Distinct
    <3> QED
      BY <1>1, <3>1
  <2>3. ASSUME NEW x \in 1 .. m, NEW y \in 1 .. n PROVE s[x] # t[y]
    BY <1>1, <1>6, <2>3 DEF Elements
  <2> QED
    BY <1>4, <2>1, <2>2, <2>3
<1> QED
  BY <1>1, <1>5, <1>6 DEF u

\* Every command goes through all the canaries; a deployment does so once.
LEMMA AgendaElements ==
  ASSUME NEW c \in Commands
  PROVE  /\ Elements(Agenda(c)) = Kinds
         /\ c \in Deploying => Distinct(Agenda(c))
<1> DEFINE only(k) == IF k \in Kinds THEN <<k>> ELSE <<>>
           search == IF profile THEN only("env") ELSE only("chrome") \o only("env")
<1>1. ASSUME NEW k
      PROVE  /\ only(k) \in Seq(Kinds) /\ Elements(only(k)) = Kinds \cap {k}
             /\ Distinct(only(k))
  BY DEF Elements, Distinct
<1>2. \/ c = "init" /\ Agenda(c) = only("aws") \o only("chrome") \o only("env") \o only("sys")
      \/ c = "web_init" /\ Agenda(c) = only("env") \o only("aws") \o only("chrome") \o only("sys")
      \/ c \notin Deploying /\ Agenda(c) = search \o only("aws") \o only("chrome") \o only("sys")
  BY DEF Agenda, Commands, Deploying
<1> HIDE DEF only
<1>3. /\ search \in Seq(Kinds)
      /\ Elements(search) \subseteq Kinds
      /\ "env" \in Kinds => "env" \in Elements(search)
  <2> DEFINE b == only("chrome")
             e == only("env")
  <2>1. /\ e \in Seq(Kinds) /\ Elements(e) = Kinds \cap {"env"}
        /\ b \in Seq(Kinds) /\ Elements(b) = Kinds \cap {"chrome"}
    BY <1>1
  <2>2. search = IF profile THEN e ELSE b \o e
    OBVIOUS
  <2> HIDE DEF b, e, search
  <2>3. b \o e \in Seq(Kinds) /\ Elements(b \o e) = Elements(b) \cup Elements(e)
    BY <2>1, ConcatElements
  <2> QED
    BY <2>1, <2>2, <2>3
<1> HIDE DEF search
<1>4. ASSUME NEW w \in Seq(Kinds), NEW x \in Seq(Kinds), NEW y \in Seq(Kinds),
             NEW z \in Seq(Kinds)
      PROVE  /\ Elements(((w \o x) \o y) \o z) =
                  Elements(w) \cup Elements(x) \cup Elements(y) \cup Elements(z)
             /\ /\ Distinct(w) /\ Distinct(x) /\ Distinct(y) /\ Distinct(z)
                /\ Elements(w) \cap Elements(x) = {}
                /\ (Elements(w) \cup Elements(x)) \cap Elements(y) = {}
                /\ (Elements(w) \cup Elements(x) \cup Elements(y)) \cap Elements(z) = {}
                => Distinct(((w \o x) \o y) \o z)
  <2>1. /\ w \o x \in Seq(Kinds) /\ Elements(w \o x) = Elements(w) \cup Elements(x)
        /\ Distinct(w) /\ Distinct(x) /\ Elements(w) \cap Elements(x) = {}
           => Distinct(w \o x)
    BY ConcatElements
  <2>2. /\ (w \o x) \o y \in Seq(Kinds)
        /\ Elements((w \o x) \o y) = Elements(w \o x) \cup Elements(y)
        /\ Distinct(w \o x) /\ Distinct(y) /\ Elements(w \o x) \cap Elements(y) = {}
           => Distinct((w \o x) \o y)
    BY <2>1, ConcatElements
  <2> DEFINE v == (w \o x) \o y
  <2>4. v \in Seq(Kinds)
    BY <2>2
  <2> HIDE DEF v
  <2>5. /\ Elements(v \o z) = Elements(v) \cup Elements(z)
        /\ Distinct(v) /\ Distinct(z) /\ Elements(v) \cap Elements(z) = {}
           => Distinct(v \o z)
    BY <2>4, ConcatElements
  <2>3. /\ Elements(((w \o x) \o y) \o z) = Elements((w \o x) \o y) \cup Elements(z)
        /\ /\ Distinct((w \o x) \o y) /\ Distinct(z)
           /\ Elements((w \o x) \o y) \cap Elements(z) = {}
           => Distinct(((w \o x) \o y) \o z)
    BY <2>5 DEF v
  <2> QED
    BY <2>1, <2>2, <2>3
<1>5. Kinds \subseteq {"aws", "chrome", "env", "sys"}
  BY DeploymentAssumption DEF AllKinds
<1>6. CASE c = "init" /\ Agenda(c) = only("aws") \o only("chrome") \o only("env") \o only("sys")
  <2> DEFINE a == only("aws")
             b == only("chrome")
             e == only("env")
             f == only("sys")
  <2>1. /\ a \in Seq(Kinds) /\ Elements(a) = Kinds \cap {"aws"} /\ Distinct(a)
        /\ b \in Seq(Kinds) /\ Elements(b) = Kinds \cap {"chrome"} /\ Distinct(b)
        /\ e \in Seq(Kinds) /\ Elements(e) = Kinds \cap {"env"} /\ Distinct(e)
        /\ f \in Seq(Kinds) /\ Elements(f) = Kinds \cap {"sys"} /\ Distinct(f)
    BY <1>1
  <2>2. Agenda(c) = ((a \o b) \o e) \o f
    BY <1>6
  <2> HIDE DEF a, b, e, f
  <2>3. Elements(Agenda(c)) = Elements(a) \cup Elements(b) \cup Elements(e) \cup Elements(f)
    BY <1>4, <2>1, <2>2
  <2>5. /\ Elements(a) \cap Elements(b) = {}
        /\ (Elements(a) \cup Elements(b)) \cap Elements(e) = {}
        /\ (Elements(a) \cup Elements(b) \cup Elements(e)) \cap Elements(f) = {}
    BY <2>1
  <2>6. Distinct(((a \o b) \o e) \o f)
    BY <1>4, <2>1, <2>5
  <2>4. Distinct(Agenda(c))
    BY <2>2, <2>6
  <2> QED
    BY <1>5, <2>1, <2>3, <2>4
<1>7. CASE c = "web_init" /\ Agenda(c) = only("env") \o only("aws") \o only("chrome") \o only("sys")
  <2> DEFINE a == only("env")
             b == only("aws")
             e == only("chrome")
             f == only("sys")
  <2>1. /\ a \in Seq(Kinds) /\ Elements(a) = Kinds \cap {"env"} /\ Distinct(a)
        /\ b \in Seq(Kinds) /\ Elements(b) = Kinds \cap {"aws"} /\ Distinct(b)
        /\ e \in Seq(Kinds) /\ Elements(e) = Kinds \cap {"chrome"} /\ Distinct(e)
        /\ f \in Seq(Kinds) /\ Elements(f) = Kinds \cap {"sys"} /\ Distinct(f)
    BY <1>1
  <2>2. Agenda(c) = ((a \o b) \o e) \o f
    BY <1>7
  <2> HIDE DEF a, b, e, f
  <2>3. Elements(Agenda(c)) = Elements(a) \cup Elements(b) \cup Elements(e) \cup Elements(f)
    BY <1>4, <2>1, <2>2
  <2>5. /\ Elements(a) \cap Elements(b) = {}
        /\ (Elements(a) \cup Elements(b)) \cap Elements(e) = {}
        /\ (Elements(a) \cup Elements(b) \cup Elements(e)) \cap Elements(f) = {}
    BY <2>1
  <2>6. Distinct(((a \o b) \o e) \o f)
    BY <1>4, <2>1, <2>5
  <2>4. Distinct(Agenda(c))
    BY <2>2, <2>6
  <2> QED
    BY <1>5, <2>1, <2>3, <2>4
<1>8. CASE c \notin Deploying /\ Agenda(c) = search \o only("aws") \o only("chrome") \o only("sys")
  <2> DEFINE a == only("aws")
             b == only("chrome")
             e == only("sys")
  <2>1. /\ a \in Seq(Kinds) /\ Elements(a) = Kinds \cap {"aws"}
        /\ b \in Seq(Kinds) /\ Elements(b) = Kinds \cap {"chrome"}
        /\ e \in Seq(Kinds) /\ Elements(e) = Kinds \cap {"sys"}
    BY <1>1
  <2>2. Agenda(c) = ((search \o a) \o b) \o e /\ c \notin Deploying
    BY <1>8
  <2> HIDE DEF a, b, e
  <2>3. Elements(Agenda(c)) =
          Elements(search) \cup Elements(a) \cup Elements(b) \cup Elements(e)
    BY <1>3, <1>4, <2>1, <2>2
  <2> QED
    <3>1. ASSUME NEW k \in Kinds PROVE k \in Elements(Agenda(c))
      <4>1. k \in {"aws", "chrome", "env", "sys"}
        BY <1>5
      <4>2. CASE k = "env"
        BY <1>3, <2>3, <4>2
      <4> QED
        BY <2>1, <2>3, <4>1, <4>2
    <3> QED
      BY <1>3, <2>1, <2>2, <2>3, <3>1
<1> QED
  BY <1>2, <1>6, <1>7, <1>8

\* What is left of an agenda when its first canary is done.
LEMMA TailElements ==
  ASSUME NEW S, NEW s \in Seq(S), s # <<>>
  PROVE  /\ Elements(s) = {Head(s)} \cup Elements(Tail(s))
         /\ Tail(s) \in Seq(S)
         /\ Len(s) = 1 => Tail(s) = <<>>
         /\ Distinct(s) => Distinct(Tail(s)) /\ Head(s) \notin Elements(Tail(s))
<1> DEFINE n == Len(s)
           t == Tail(s)
<1>1. /\ n \in Nat \ {0} /\ DOMAIN s = 1 .. n /\ t \in Seq(S) /\ Len(t) = n - 1
      /\ DOMAIN t = 1 .. n - 1 /\ Head(s) = s[1]
      /\ \A i \in 1 .. n - 1 : t[i] = s[i + 1]
  <2>1. n \in Nat /\ n # 0
    BY LenProperties, EmptySeq
  <2> QED
    BY <2>1, HeadTailProperties, LenProperties
<1>2. n = 1 => t = <<>>
  BY <1>1, EmptySeq
<1> HIDE DEF n, t
<1>3. Elements(s) = {s[1]} \cup Elements(t)
  <2>1. ASSUME NEW i \in 1 .. n PROVE i = 1 \/ (i - 1 \in 1 .. n - 1 /\ t[i - 1] = s[i])
    <3>1. i = 1 \/ i - 1 \in 1 .. n - 1
      BY <1>1
    <3>2. (i - 1) + 1 = i
      BY <1>1
    <3> QED
      BY <1>1, <3>1, <3>2
  <2>2. ASSUME NEW i \in 1 .. n - 1 PROVE i + 1 \in 1 .. n /\ t[i] = s[i + 1]
    BY <1>1
  <2>3. 1 \in 1 .. n
    BY <1>1
  <2>4. ASSUME NEW x \in Elements(s) PROVE x \in {s[1]} \cup Elements(t)
    <3>1. PICK i \in 1 .. n : x = s[i]
      BY <1>1 DEF Elements
    <3> QED
      BY <1>1, <2>1, <3>1 DEF Elements
  <2>5. ASSUME NEW x \in Elements(t) PROVE x \in Elements(s)
    <3>1. PICK i \in 1 .. n - 1 : x = t[i]
      BY <1>1 DEF Elements
    <3> QED
      BY <1>1, <2>2, <3>1 DEF Elements
  <2>6. s[1] \in Elements(s)
    BY <1>1, <2>3 DEF Elements
  <2> QED
    BY <2>4, <2>5, <2>6
<1>4. ASSUME Distinct(s) PROVE Distinct(t) /\ s[1] \notin Elements(t)
  <2>1. ASSUME NEW i \in 1 .. n - 1
        PROVE  i + 1 \in 1 .. n /\ 1 \in 1 .. n /\ t[i] = s[i + 1] /\ i + 1 # 1
    BY <1>1
  <2>2. ASSUME NEW a \in 1 .. n - 1, NEW b \in 1 .. n - 1, t[a] = t[b] PROVE a = b
    <3>1. /\ a + 1 \in DOMAIN s /\ t[a] = s[a + 1]
          /\ b + 1 \in DOMAIN s /\ t[b] = s[b + 1]
      BY <1>1, <2>1
    <3>2. a + 1 = b + 1
      BY <1>4, <2>2, <3>1 DEF Distinct
    <3> QED
      BY <3>2
  <2>3. ASSUME s[1] \in Elements(t) PROVE FALSE
    <3>1. PICK i \in 1 .. n - 1 : s[1] = t[i]
      BY <1>1, <2>3 DEF Elements
    <3>2. i + 1 \in DOMAIN s /\ 1 \in DOMAIN s /\ s[1] = s[i + 1]
      BY <1>1, <2>1, <3>1
    <3>3. 1 = i + 1
      BY <1>4, <3>2 DEF Distinct
    <3> QED
      BY <2>1, <3>3
  <2> QED
    BY <1>1, <2>2, <2>3 DEF Distinct
<1> QED
  BY <1>1, <1>2, <1>3, <1>4 DEF n, t

-----------------------------------------------------------------------------
(* How a step changes the record of a job.                                 *)

\* The canaries job j has not done with yet, and where it looks for each.
Left(j) == Elements(job[j].todo)
Of(j, k) == Place(k, job[j].cwd)

\* The job stays at its canary.
Keeps(j) ==
  /\ job'[j].cmd = job[j].cmd /\ job'[j].cwd = job[j].cwd
  /\ job'[j].todo = job[j].todo /\ job'[j].seen = job[j].seen
  /\ Here(j)' = Here(j) /\ Kind(j)' = Kind(j)
  /\ Left(j)' = Left(j)
  /\ \A k \in Kinds : Of(j, k)' = Of(j, k)

\* ... and goes to `label` holding h,
GoesTo(j, label, h) ==
  /\ Keeps(j)
  /\ job'[j].pc = label /\ job'[j].held = h /\ job'[j].result = "running"

\* ... or ends there, for the given reason,
StopsAs(j, result) ==
  Keeps(j) /\ job'[j].pc = job[j].pc /\ job'[j].result = result

\* ... or takes no part in the step.
Stands(j) == StopsAs(j, job[j].result)

\* The job is done with its canary.
Finishes(j, noted) ==
  /\ job'[j].cmd = job[j].cmd
  /\ \A k \in Kinds : Of(j, k)' = Of(j, k)
  /\ job'[j].pc = "look" /\ job'[j].seen = job[j].seen \cup noted
  /\ job'[j].result \in {"ok", "running"}
  /\ job'[j].result = "ok" => job'[j].todo = <<>>
  /\ Left(j) = {Kind(j)} \cup Left(j)'
  /\ Distinct(job[j].todo) =>
       Distinct(job'[j].todo) /\ Kind(j) \notin Left(j)'

LEMMA KeepsRecord ==
  ASSUME NEW j \in Jobs, UNCHANGED profile,
         job'[j].cmd = job[j].cmd, job'[j].cwd = job[j].cwd,
         job'[j].todo = job[j].todo, job'[j].seen = job[j].seen
  PROVE  Keeps(j)
  BY DEF Keeps, Here, Kind, Left, Of, Place, Elements

LEMMA GoesOrFails ==
  ASSUME JobTypes, NEW j \in Jobs, Active(j), UNCHANGED profile, NEW label
  PROVE  /\ Then(j, label) => GoesTo(j, label, job[j].held)
         /\ Holding(j, label) => GoesTo(j, label, Here(j))
         /\ Fails(j) => StopsAs(j, "failed")
         /\ Killed(j) => StopsAs(j, "killed")
<1>1. job[j] \in JobRecord /\ job[j].result = "running"
  BY DEF JobTypes, Active
<1>2. ASSUME Then(j, label) PROVE GoesTo(j, label, job[j].held)
  <2>1. job'[j] = [job[j] EXCEPT !.pc = label]
    BY <1>2 DEF Then, JobTypes
  <2> QED
    BY <1>1, <2>1, KeepsRecord DEF GoesTo, JobRecord
<1>3. ASSUME Holding(j, label) PROVE GoesTo(j, label, Here(j))
  <2>1. job'[j] = [job[j] EXCEPT !.pc = label, !.held = Here(j)]
    BY <1>3 DEF Holding, JobTypes
  <2> QED
    BY <1>1, <2>1, KeepsRecord DEF GoesTo, JobRecord
<1>4. ASSUME Fails(j) PROVE StopsAs(j, "failed")
  <2>1. job'[j] = [job[j] EXCEPT !.result = "failed", !.held = NoFile]
    BY <1>4 DEF Fails, JobTypes
  <2> QED
    BY <1>1, <2>1, KeepsRecord DEF StopsAs, JobRecord
<1>5. ASSUME Killed(j) PROVE StopsAs(j, "killed")
  <2>1. job'[j] = [job[j] EXCEPT !.result = "killed", !.held = NoFile]
    BY <1>5 DEF Killed, JobTypes
  <2> QED
    BY <1>1, <2>1, KeepsRecord DEF StopsAs, JobRecord
<1> QED
  BY <1>2, <1>3, <1>4, <1>5

LEMMA FinishesRecord ==
  ASSUME JobTypes, JobInv, NEW j \in Jobs, Active(j), UNCHANGED profile,
         NEW noted,
         job'[j].cmd = job[j].cmd, job'[j].cwd = job[j].cwd,
         job'[j].todo = Tail(job[j].todo), job'[j].pc = "look",
         job'[j].seen = job[j].seen \cup noted,
         job'[j].result = IF Len(job[j].todo) = 1 THEN "ok" ELSE "running"
  PROVE  Finishes(j, noted)
<1>1. job[j].todo \in Seq(Kinds) /\ job[j].todo # <<>>
  BY DEF JobTypes, JobRecord, JobInv, Active
<1>2. /\ Left(j) = {Kind(j)} \cup Elements(job'[j].todo)
      /\ Len(job[j].todo) = 1 => job'[j].todo = <<>>
      /\ Distinct(job[j].todo) =>
           Distinct(job'[j].todo) /\ Kind(j) \notin Elements(job'[j].todo)
  BY <1>1, TailElements DEF Left, Kind
<1>3. Left(j)' = Elements(job'[j].todo)
  BY DEF Left, Elements
<1>4. \A k \in Kinds : Of(j, k)' = Of(j, k)
  BY DEF Of, Place
<1> QED
  BY <1>2, <1>3, <1>4 DEF Finishes

LEMMA ThroughFinishes ==
  ASSUME JobTypes, JobInv, NEW j \in Jobs, Active(j), UNCHANGED profile,
         NEW noted, Through(j, noted)
  PROVE  Finishes(j, noted)
<1>1. job[j] \in JobRecord /\ job[j].result = "running"
  BY DEF JobTypes, Active
<1>2. job'[j] = [job[j] EXCEPT !.todo = Tail(job[j].todo), !.pc = "look",
                               !.held = NoFile, !.seen = @ \cup noted,
                               !.result = IF Len(job[j].todo) = 1 THEN "ok" ELSE @]
  BY DEF Through, JobTypes
<1>3. /\ job'[j].cmd = job[j].cmd /\ job'[j].cwd = job[j].cwd
      /\ job'[j].todo = Tail(job[j].todo) /\ job'[j].pc = "look"
      /\ job'[j].seen = job[j].seen \cup noted
      /\ job'[j].result = IF Len(job[j].todo) = 1 THEN "ok" ELSE "running"
  BY <1>1, <1>2 DEF JobRecord
<1> QED
  BY <1>3, FinishesRecord

LEMMA DeployedGoes ==
  ASSUME JobTypes, JobInv, NEW j \in Jobs, Active(j), UNCHANGED profile, Deployed(j)
  PROVE  GoesTo(j, "register", job[j].held) \/ Finishes(j, {})
  BY GoesOrFails, ThroughFinishes DEF Deployed

LEMMA RemoveFinishes ==
  ASSUME JobTypes, JobInv, NEW j \in Jobs, CleanRemove(j)
  PROVE  Finishes(j, {Here(j)})
<1>1. job[j] \in JobRecord /\ job[j].result = "running" /\ UNCHANGED profile
  BY DEF JobTypes, CleanRemove, At, Active, Constant
<1>2. job'[j] = [job[j] EXCEPT !.todo = Tail(job[j].todo), !.pc = "look",
                               !.seen = @ \cup {Here(j)},
                               !.result = IF Len(job[j].todo) = 1 THEN "ok" ELSE @]
  BY DEF CleanRemove, Unlink
<1>3. /\ job'[j].cmd = job[j].cmd /\ job'[j].cwd = job[j].cwd
      /\ job'[j].todo = Tail(job[j].todo) /\ job'[j].pc = "look"
      /\ job'[j].seen = job[j].seen \cup {Here(j)}
      /\ job'[j].result = IF Len(job[j].todo) = 1 THEN "ok" ELSE "running"
  BY <1>1, <1>2 DEF JobRecord
<1> QED
  BY <1>1, <1>3, FinishesRecord DEF Active

LEMMA UnlinkGoes ==
  ASSUME JobTypes, JobInv, NEW j \in Jobs, ChromeUnlink(j)
  PROVE  IF There(Here(j)) THEN GoesTo(j, "create", job[j].held)
                           ELSE StopsAs(j, "failed")
<1>1. job[j] \in JobRecord /\ job[j].result = "running" /\ UNCHANGED profile
  BY DEF JobTypes, ChromeUnlink, At, Active, Constant
<1>2. CASE There(Here(j))
  <2>1. job'[j] = [job[j] EXCEPT !.pc = "create"]
    BY <1>2 DEF ChromeUnlink, Unlink
  <2> QED
    BY <1>1, <1>2, <2>1, KeepsRecord DEF GoesTo, JobRecord
<1> QED
  BY <1>1, <1>2, GoesOrFails DEF ChromeUnlink, Active

\* A job that takes a step is running, at a canary it has not done with.
LEMMA WhoActs ==
  ASSUME DeployInv, NEW j \in Jobs, Acts(j)
  PROVE  /\ Active(j) /\ UNCHANGED <<profile, solo, latest>>
         /\ job[j].todo # <<>> /\ Stages(j) /\ Aside(j)
         /\ Kind(j) \in Kinds /\ Kind(j) \in Left(j)
         /\ Here(j) \in Places /\ Here(j)[1] = Kind(j) /\ Here(j) # NoFile
         /\ Here(j) = Of(j, Kind(j))
         /\ content' \in [Places -> {"none", "empty", "schema", "whole"}]
         /\ content \in [Places -> {"none", "empty", "schema", "whole"}]
<1> USE DEF DeployInv
<1>1. Aside(j) /\ Active(j)
  BY StepsAside DEF Acts, JobStep, Killed, At, SafeLook, SafeOverwrite,
     SafeCreate, SafeWrite, SafeChmod, ChromeLook, ChromeUnlink, ChromeCreate,
     ChromeChmod, ChromeConnect, ChromeTable, ChromeRows, Register, Find,
     CleanRemove
<1>2. job[j].todo # <<>> /\ Stages(j)
  BY <1>1 DEF JobInv, Active
<1>3. /\ Kind(j) \in Kinds /\ Here(j) \in Places /\ Here(j)[1] = Kind(j)
      /\ Here(j) # NoFile
  BY <1>2, HereIsPlace, NoFileIsNoPlace
<1>4. job[j].todo \in Seq(Kinds)
  BY DEF JobTypes, JobRecord
<1>5. Kind(j) \in Left(j)
  BY <1>2, <1>4, TailElements DEF Left, Kind
<1>6. FileTypes'
  BY FilesStep
<1> QED
  BY <1>1, <1>2, <1>3, <1>5, <1>6 DEF Aside, Here, Of, FileTypes, Places

\* The places of two canaries of a job differ.
LEMMA OfIsPlace ==
  ASSUME JobTypes, NEW j \in Jobs, NEW k \in Kinds
  PROVE  Of(j, k) \in Places /\ Of(j, k)[1] = k
<1>1. job[j].cwd \in Dirs \cup {"home"}
  BY DEF JobTypes, JobRecord
<1> QED
  BY <1>1, PlaceIsPlace DEF Of

LEMMA Bystanders ==
  ASSUME JobTypes, NEW j \in Jobs, Aside(j), NEW i \in Jobs \ {j}
  PROVE  Stands(i)
<1>1. job[i] \in JobRecord /\ UNCHANGED profile
  BY DEF JobTypes, Aside
<1>2. CASE job'[i] = job[i]
  BY <1>1, <1>2, KeepsRecord DEF Stands, StopsAs
<1>3. CASE job'[i] = [job[i] EXCEPT !.held = NoFile]
  BY <1>1, <1>3, KeepsRecord DEF Stands, StopsAs, JobRecord
<1> QED
  BY <1>2, <1>3 DEF Aside

\* Every step of a job leaves it where it is, or ends its canary.
LEMMA StepForms ==
  ASSUME DeployInv, NEW j \in Jobs, Acts(j)
  PROVE  \/ Keeps(j) /\ job'[j].result \in {"running", "failed", "killed"}
         \/ \E noted \in {{}, {Here(j)}} : Finishes(j, noted)
<1> USE DEF DeployInv
<1>1. Active(j) /\ UNCHANGED profile
  BY WhoActs
<1>2. ASSUME NEW label, Then(j, label) \/ Holding(j, label) \/ Fails(j) \/ Killed(j)
      PROVE  Keeps(j) /\ job'[j].result \in {"running", "failed", "killed"}
  BY <1>1, <1>2, GoesOrFails DEF GoesTo, StopsAs
<1>3. ASSUME Deployed(j)
      PROVE  \/ Keeps(j) /\ job'[j].result \in {"running", "failed", "killed"}
             \/ Finishes(j, {})
  BY <1>1, <1>3, DeployedGoes DEF GoesTo
<1>4. CASE SafeLook(j) \/ SafeOverwrite(j) \/ SafeCreate(j) \/ SafeWrite(j) \/ Killed(j)
  BY <1>2, <1>4 DEF SafeLook, SafeOverwrite, SafeCreate, SafeWrite
<1>5. CASE SafeChmod(j) \/ ChromeRows(j)
  BY <1>2, <1>3, <1>5 DEF SafeChmod, ChromeRows
<1>6. CASE ChromeLook(j) \/ ChromeCreate(j) \/ ChromeChmod(j) \/ ChromeConnect(j)
           \/ ChromeTable(j)
  BY <1>2, <1>6 DEF ChromeLook, ChromeCreate, ChromeChmod, ChromeConnect, ChromeTable
<1>7. CASE ChromeUnlink(j)
  BY <1>7, UnlinkGoes DEF GoesTo, StopsAs
<1>8. CASE Register(j) \/ Find(j)
  BY <1>1, <1>2, <1>8, ThroughFinishes DEF Register, Find
<1>9. CASE CleanRemove(j)
  BY <1>9, RemoveFinishes
<1> QED
  BY <1>4, <1>5, <1>6, <1>7, <1>8, <1>9 DEF Acts, JobStep

-----------------------------------------------------------------------------
(* What holds of the jobs whatever they do.                                *)

\* A job with no other beside it has begun, and no other is running.
SoloInv ==
  /\ \A j \in solo : job[j].result # "new"
  /\ \A j \in Jobs : Alone(j) => \A i \in Jobs \ {j} : ~Active(i)

BegunInv == \A j \in Jobs : job[j].result = "new" <=> job[j].cmd = "none"

\* A job that ended well is done with every canary.
EndInv == \A j \in Jobs : job[j].result = "ok" => job[j].todo = <<>>

\* A deployment comes to each canary once.
OnceInv ==
  \A j \in Jobs : job[j].cmd \in Deploying => Distinct(job[j].todo)

CourseInv == SoloInv /\ BegunInv /\ EndInv /\ OnceInv

LEMMA CourseStep ==
  ASSUME DeployInv, CourseInv, NEW j \in Jobs, Acts(j)
  PROVE  CourseInv'
<1> USE DEF CourseInv
<1>1. Active(j) /\ Aside(j) /\ UNCHANGED <<solo, latest>> /\ job[j].cmd # "none"
  BY WhoActs DEF BegunInv, Active
<1>2. \A i \in Jobs \ {j} : Stands(i)
  BY <1>1, Bystanders DEF DeployInv
<1>3. \/ Keeps(j) /\ job'[j].result \in {"running", "failed", "killed"}
      \/ \E noted \in {{}, {Here(j)}} : Finishes(j, noted)
  BY StepForms
<1>4. \A i \in Jobs : /\ job'[i].cmd = job[i].cmd
                      /\ job'[i].result = "new" <=> job[i].result = "new"
                      /\ Active(i)' => Active(i)
  BY <1>1, <1>2, <1>3 DEF Stands, StopsAs, Keeps, Finishes, Active
<1>5. SoloInv'
  BY <1>1, <1>4 DEF SoloInv, Alone, DeployInv, JobTypes
<1>6. BegunInv'
  BY <1>4 DEF BegunInv
<1>7. EndInv'
  BY <1>2, <1>3 DEF EndInv, Stands, StopsAs, Keeps, Finishes
<1>8. \A i \in Jobs : Distinct(job[i].todo) => Distinct(job'[i].todo)
  BY <1>2, <1>3 DEF Stands, StopsAs, Keeps, Finishes
<1>9. OnceInv'
  BY <1>4, <1>8 DEF OnceInv, Distinct
<1> QED
  BY <1>5, <1>6, <1>7, <1>9

\* A job that begins: its record, and nothing else.
Begins(j, c, d) ==
  /\ job[j].result = "new"
  /\ job'[j].cmd = c /\ job'[j].pc = "look" /\ job'[j].seen = {}
  /\ job'[j].result = "running" /\ job'[j].todo # <<>>
  /\ Left(j)' = Kinds
  /\ c \in Deploying => Distinct(job'[j].todo)
  /\ latest' = j
  /\ \A i \in Jobs \ {j} : Stands(i) /\ job'[i] = job[i]
  /\ UNCHANGED <<profile, content, private>>

LEMMA BeginsRecord ==
  ASSUME DeployInv, NEW j \in Jobs, NEW c \in Commands, NEW d \in Dirs,
         Begin(j, c, d)
  PROVE  Begins(j, c, d)
<1>1. /\ job[j].result = "new" /\ UNCHANGED <<profile, content, private>>
      /\ latest' = j /\ \A i \in Jobs \ {j} : job'[i] = job[i]
  BY DEF Begin, DeployInv, JobTypes
<1>2. job'[j] = [NotBegun EXCEPT !.cmd = c, !.cwd = d, !.todo = Agenda(c),
                                 !.result = "running"]
  BY DEF Begin, DeployInv, JobTypes
<1>3. /\ job'[j].cmd = c /\ job'[j].todo = Agenda(c) /\ job'[j].pc = "look"
      /\ job'[j].seen = {} /\ job'[j].result = "running"
  BY <1>2 DEF NotBegun
<1>4. Left(j)' = Elements(Agenda(c))
  BY <1>3 DEF Left, Elements
<1>5. \A i \in Jobs \ {j} : Stands(i)
  BY <1>1, KeepsRecord DEF Stands, StopsAs
<1> QED
  BY <1>1, <1>3, <1>4, <1>5, AgendaElements, AgendaType DEF Begins

LEMMA CourseBegin ==
  ASSUME DeployInv, CourseInv, NEW j \in Jobs, NEW c \in Commands, NEW d \in Dirs,
         Begin(j, c, d)
  PROVE  CourseInv'
<1> USE DEF CourseInv
<1>1. Begins(j, c, d) /\ c # "none"
  BY BeginsRecord DEF Commands
<1>2. \A i \in Jobs \ {j} :
        /\ job'[i].cmd = job[i].cmd /\ job'[i].result = job[i].result
        /\ job'[i].todo = job[i].todo
  BY <1>1 DEF Begins
<1>3. /\ solo' = IF \A i \in Jobs : ~Active(i) THEN solo \cup {j}
                 ELSE solo \ {i \in Jobs : Active(i)}
  BY DEF Begin
<1>4. SoloInv'
  <2>1. \A i \in solo' : job'[i].result # "new"
    <3>1. solo' \subseteq solo \cup {j} /\ solo \subseteq Jobs
      BY <1>3 DEF DeployInv, JobTypes
    <3> QED
      BY <1>1, <1>2, <3>1 DEF SoloInv, Begins
  <2>2. ASSUME NEW i \in Jobs, Alone(i)', NEW h \in Jobs \ {i}, Active(h)'
        PROVE  FALSE
    <3>1. i = j
      BY <1>1, <2>2 DEF Alone, Begins
    <3>2. Active(h) /\ j \in solo'
      BY <1>2, <2>2, <3>1 DEF Active, Alone
    <3>3. j \in solo
      BY <1>3, <3>2
    <3> QED
      BY <1>1, <3>3 DEF SoloInv, Begins
  <2> QED
    BY <2>1, <2>2 DEF SoloInv
<1>5. BegunInv' /\ EndInv'
  BY <1>1, <1>2 DEF BegunInv, EndInv, Begins
<1>6. \A i \in Jobs : job'[i].cmd \in Deploying => Distinct(job'[i].todo)
  BY <1>1, <1>2 DEF OnceInv, Begins
<1>7. OnceInv'
  BY <1>6 DEF OnceInv, Distinct
<1> QED
  BY <1>4, <1>5, <1>7

-----------------------------------------------------------------------------
(* A deployment nobody interferes with.                                    *)

\* What it finds at its canary at each step: nobody else has been there.
HereArmed(j) ==
  /\ job[j].pc \in {"overwrite", "unlink"} => There(Here(j))
  /\ job[j].pc = "create" => ~There(Here(j))
  /\ job[j].pc = "write" => There(Here(j)) /\ job[j].held = Here(j)
  /\ job[j].pc = "chmod" =>
       content[Here(j)] = IF Kind(j) # "chrome" THEN "whole" ELSE "empty"
  /\ job[j].pc \in {"connect", "table"} =>
       content[Here(j)] = "empty" /\ Here(j) \in private
  /\ job[j].pc = "rows" => content[Here(j)] = "schema" /\ Here(j) \in private
  /\ job[j].pc \in {"table", "rows"} => job[j].held = Here(j)
  /\ job[j].pc = "register" => content[Here(j)] = "whole" /\ Here(j) \in private

Arms(j) ==
  /\ job[j].result # "failed"
  /\ \A k \in Kinds \ Left(j) :
       content[Of(j, k)] = "whole" /\ Of(j, k) \in private
  /\ Active(j) => HereArmed(j)

ArmsInv ==
  \A j \in Jobs : Alone(j) /\ job[j].cmd \in Deploying => Arms(j)

LEMMA ArmsLocally ==
  ASSUME DeployInv, NEW j \in Jobs, JobStep(j), job[j].cmd \in Deploying,
         HereArmed(j)
  PROVE  \/ Keeps(j) /\ job'[j].result = "running" /\ HereArmed(j)'
         \/ /\ \E noted : Finishes(j, noted)
            /\ content'[Here(j)] = "whole" /\ Here(j) \in private'
<1> DEFINE p == Here(j)
<1>1. /\ Active(j) /\ UNCHANGED profile /\ Stages(j)
      /\ p \in Places /\ p # NoFile
      /\ content' \in [Places -> {"none", "empty", "schema", "whole"}]
      /\ content \in [Places -> {"none", "empty", "schema", "whole"}]
      /\ JobTypes /\ JobInv
  BY WhoActs DEF Acts, DeployInv
<1>2. ASSUME NEW label, NEW h, GoesTo(j, label, h)
      PROVE  /\ Keeps(j) /\ job'[j].result = "running" /\ job'[j].pc = label
             /\ job'[j].held = h /\ Here(j)' = p /\ Kind(j)' = Kind(j)
  BY <1>2 DEF GoesTo, Keeps
<1>3. ASSUME NEW label
      PROVE  /\ Then(j, label) => GoesTo(j, label, job[j].held)
             /\ Holding(j, label) => GoesTo(j, label, p)
  BY <1>1, GoesOrFails
<1>4. Deployed(j) => GoesTo(j, "register", job[j].held) \/ Finishes(j, {})
  BY <1>1, DeployedGoes
<1> HIDE DEF p
<1>5. HereArmed(j) <=>
        /\ job[j].pc \in {"overwrite", "unlink"} => There(p)
        /\ job[j].pc = "create" => ~There(p)
        /\ job[j].pc = "write" => There(p) /\ job[j].held = p
        /\ job[j].pc = "chmod" =>
             content[p] = IF Kind(j) # "chrome" THEN "whole" ELSE "empty"
        /\ job[j].pc \in {"connect", "table"} => content[p] = "empty" /\ p \in private
        /\ job[j].pc = "rows" => content[p] = "schema" /\ p \in private
        /\ job[j].pc \in {"table", "rows"} => job[j].held = p
        /\ job[j].pc = "register" => content[p] = "whole" /\ p \in private
  BY DEF HereArmed, p
<1>6. ASSUME NEW label, NEW h, GoesTo(j, label, h),
             label \in {"overwrite", "unlink"} => content'[p] # "none",
             label = "create" => content'[p] = "none",
             label = "write" => content'[p] # "none" /\ h = p,
             label = "chmod" =>
               content'[p] = IF Kind(j) # "chrome" THEN "whole" ELSE "empty",
             label \in {"connect", "table"} => content'[p] = "empty" /\ p \in private',
             label = "rows" => content'[p] = "schema" /\ p \in private',
             label \in {"table", "rows"} => h = p,
             label = "register" => content'[p] = "whole" /\ p \in private'
      PROVE  Keeps(j) /\ job'[j].result = "running" /\ HereArmed(j)'
  BY <1>2, <1>6 DEF HereArmed, There
<1>7. ASSUME Deployed(j), content'[p] = "whole", p \in private'
      PROVE  \/ Keeps(j) /\ job'[j].result = "running" /\ HereArmed(j)'
             \/ /\ \E noted : Finishes(j, noted)
                /\ content'[p] = "whole" /\ p \in private'
  BY <1>4, <1>6, <1>7
<1> HIDE DEF HereArmed
<1> SUFFICES \/ Keeps(j) /\ job'[j].result = "running" /\ HereArmed(j)'
             \/ /\ \E noted : Finishes(j, noted)
                /\ content'[p] = "whole" /\ p \in private'
  BY DEF p
<1> USE DEF There, At, Untouched
<1>11. CASE SafeLook(j)
  BY <1>3, <1>6, <1>11 DEF SafeLook, p
<1>12. CASE SafeOverwrite(j)
  BY <1>1, <1>3, <1>6, <1>12 DEF SafeOverwrite, p
<1>13. CASE SafeCreate(j)
  BY <1>1, <1>3, <1>5, <1>6, <1>13 DEF SafeCreate, Created, p
<1>14. CASE SafeWrite(j)
  BY <1>1, <1>3, <1>5, <1>6, <1>14 DEF SafeWrite, Stages, p
<1>15. CASE SafeChmod(j)
  BY <1>5, <1>7, <1>15 DEF SafeChmod, p
<1>16. CASE ChromeLook(j)
  BY <1>3, <1>6, <1>16 DEF ChromeLook, p
<1>17. CASE ChromeUnlink(j)
  BY <1>1, <1>5, <1>6, <1>17, UnlinkGoes DEF ChromeUnlink, Unlink, p
<1>18. CASE ChromeCreate(j)
  BY <1>1, <1>3, <1>5, <1>6, <1>18 DEF ChromeCreate, Created, p
<1>19. CASE ChromeChmod(j)
  BY <1>3, <1>5, <1>6, <1>19 DEF ChromeChmod, p
<1>20. CASE ChromeConnect(j)
  BY <1>1, <1>3, <1>5, <1>6, <1>20 DEF ChromeConnect, p
<1>21. CASE ChromeTable(j)
  BY <1>1, <1>3, <1>5, <1>6, <1>21 DEF ChromeTable, p
<1>22. CASE ChromeRows(j)
  BY <1>1, <1>5, <1>7, <1>22 DEF ChromeRows, p
<1>23. CASE Register(j)
  BY <1>1, <1>5, <1>23, ThroughFinishes DEF Register, p
<1>24. ~Find(j) /\ ~CleanRemove(j)
  BY DEF Find, CleanRemove, Deploying
<1> QED
  BY <1>11, <1>12, <1>13, <1>14, <1>15, <1>16, <1>17, <1>18, <1>19, <1>20, <1>21,
     <1>22, <1>23, <1>24 DEF JobStep

\* Only a job's own steps are taken while it is alone.
LEMMA AloneActs ==
  ASSUME DeployInv, SoloInv, NEW i \in Jobs, Acts(i), NEW j \in Jobs, Alone(j)'
  PROVE  i = j /\ Alone(j)
  BY WhoActs DEF SoloInv, Alone

LEMMA ArmsStep ==
  ASSUME DeployInv, SoloInv, ArmsInv, NEW i \in Jobs, Acts(i)
  PROVE  ArmsInv'
<1> SUFFICES ASSUME NEW j \in Jobs, Alone(j)', job'[j].cmd \in Deploying
             PROVE  Arms(j)'
  BY DEF ArmsInv, Deploying
<1>1. i = j /\ Alone(j) /\ Acts(j)
  BY AloneActs
<1>2. /\ Active(j) /\ Aside(j)
      /\ Kind(j) \in Left(j) /\ Here(j) \in Places /\ Here(j)[1] = Kind(j)
      /\ Here(j) = Of(j, Kind(j))
      /\ JobTypes
  BY <1>1, WhoActs DEF DeployInv
<1>3. job[j].cmd = job'[j].cmd
  BY <1>1, StepForms DEF Keeps, Finishes
<1>4. Arms(j)
  BY <1>1, <1>3 DEF ArmsInv
<1>5. ASSUME NEW k \in Kinds \ Left(j)
      PROVE  content'[Of(j, k)] = "whole" /\ Of(j, k) \in private'
  <2>1. Of(j, k) \in Places /\ Of(j, k)[1] = k /\ k # Kind(j)
    BY <1>2, OfIsPlace
  <2>2. Of(j, k) # Here(j)
    BY <1>2, <2>1
  <2> QED
    BY <1>2, <1>4, <2>1, <2>2 DEF Aside, Arms
<1>6. CASE Killed(j)
  <2>1. StopsAs(j, "killed")
    BY <1>2, <1>6, GoesOrFails DEF Aside
  <2>2. \A k \in Kinds \ Left(j)' :
          content'[Of(j, k)'] = "whole" /\ Of(j, k)' \in private'
    BY <1>5, <2>1 DEF StopsAs, Keeps
  <2> QED
    BY <2>1, <2>2 DEF Arms, StopsAs, Active
<1>7. CASE JobStep(j)
  <2>1. HereArmed(j)
    BY <1>2, <1>4 DEF Arms
  <2>2. CASE Keeps(j) /\ job'[j].result = "running" /\ HereArmed(j)'
    <3>1. \A k \in Kinds \ Left(j)' :
            content'[Of(j, k)'] = "whole" /\ Of(j, k)' \in private'
      BY <1>5, <2>2 DEF Keeps
    <3> QED
      BY <2>2, <3>1 DEF Arms
  <2>3. ASSUME NEW noted, Finishes(j, noted),
               content'[Here(j)] = "whole", Here(j) \in private'
        PROVE  Arms(j)'
    <3>1. ASSUME NEW k \in Kinds, k \notin Left(j)'
          PROVE  content'[Of(j, k)'] = "whole" /\ Of(j, k)' \in private'
      <4>1. Of(j, k)' = Of(j, k) /\ (k = Kind(j) \/ k \notin Left(j))
        BY <2>3, <3>1 DEF Finishes
      <4> QED
        BY <1>2, <1>5, <2>3, <4>1
    <3>2. HereArmed(j)'
      BY <2>3 DEF Finishes, HereArmed
    <3> QED
      BY <2>3, <3>1, <3>2 DEF Arms, Finishes
  <2> QED
    BY <1>3, <1>7, <2>1, <2>2, <2>3, ArmsLocally
<1> QED
  BY <1>1, <1>6, <1>7 DEF Acts

LEMMA ArmsBegin ==
  ASSUME NEW i \in Jobs, NEW c, NEW d, Begins(i, c, d)
  PROVE  ArmsInv'
<1> SUFFICES ASSUME NEW j \in Jobs, Alone(j)' PROVE Arms(j)'
  BY DEF ArmsInv
<1>1. j = i
  BY DEF Alone, Begins
<1>2. Left(j)' = Kinds /\ job'[j].pc = "look" /\ job'[j].result = "running"
  BY <1>1 DEF Begins
<1> QED
  BY <1>2 DEF Arms, HereArmed

-----------------------------------------------------------------------------
(* A clean, and a start of `run`, nobody interferes with.                  *)

\* Wherever a clean has been, there is nothing now.
Removes(j) ==
  \A k \in Kinds : k \notin Left(j) \/ Of(j, k) \in job[j].seen => ~There(Of(j, k))

RemovesInv ==
  \A j \in Jobs : Alone(j) /\ job[j].cmd = "clean" => Removes(j)

\* What `run` has registered is there, and is all there is where it has been.
Registers(j) ==
  /\ job[j].result # "failed"
  /\ \A p \in job[j].seen : There(p) /\ \E k \in Kinds : p = Of(j, k)
  /\ \A k \in Kinds \ Left(j) : There(Of(j, k)) => Of(j, k) \in job[j].seen
  /\ Active(j) /\ job[j].pc = "register" => There(Here(j))

RegistersInv ==
  \A j \in Jobs : Alone(j) /\ job[j].cmd = "run" => Registers(j)

\* The steps of a clean.
LEMMA RemovesLocally ==
  ASSUME DeployInv, NEW j \in Jobs, JobStep(j), job[j].cmd = "clean", Removes(j)
  PROVE  \/ Keeps(j) /\ UNCHANGED content
         \/ /\ \E noted \in {{}, {Here(j)}} : Finishes(j, noted)
            /\ content'[Here(j)] = "none"
<1>1. /\ Active(j) /\ UNCHANGED profile /\ JobTypes /\ JobInv
      /\ Kind(j) \in Kinds /\ Here(j) = Of(j, Kind(j)) /\ Here(j) \in Places
      /\ content \in [Places -> {"none", "empty", "schema", "whole"}]
  BY WhoActs DEF Acts, DeployInv
<1>2. Find(j) \/ CleanRemove(j)
  BY DEF JobStep, At, Deploying, SafeLook, SafeOverwrite, SafeCreate, SafeWrite,
     SafeChmod, ChromeLook, ChromeUnlink, ChromeCreate, ChromeChmod,
     ChromeConnect, ChromeTable, ChromeRows, Register
<1>3. CASE Find(j) /\ There(Here(j)) /\ Here(j) \notin job[j].seen
  BY <1>1, <1>3, GoesOrFails DEF Find, GoesTo, Untouched
<1>4. CASE Find(j) /\ ~(There(Here(j)) /\ Here(j) \notin job[j].seen)
  <2>1. Finishes(j, {}) /\ content' = content
    BY <1>1, <1>4, ThroughFinishes DEF Find, Untouched
  <2>2. ~There(Here(j))
    BY <1>1, <1>4 DEF Removes
  <2>3. content'[Here(j)] = "none"
    BY <2>1, <2>2 DEF There
  <2> QED
    BY <2>1, <2>3
<1> QED
  BY <1>1, <1>2, <1>3, <1>4, RemoveFinishes DEF CleanRemove, Unlink, There

LEMMA RemovesStep ==
  ASSUME DeployInv, SoloInv, RemovesInv, NEW i \in Jobs, Acts(i)
  PROVE  RemovesInv'
<1> SUFFICES ASSUME NEW j \in Jobs, Alone(j)', job'[j].cmd = "clean"
             PROVE  Removes(j)'
  BY DEF RemovesInv
<1>1. i = j /\ Alone(j) /\ Acts(j)
  BY AloneActs
<1>2. /\ Active(j) /\ Aside(j) /\ JobTypes
      /\ Here(j) \in Places /\ Here(j)[1] = Kind(j) /\ Kind(j) \in Left(j)
      /\ Here(j) = Of(j, Kind(j))
  BY <1>1, WhoActs DEF DeployInv
<1>3. job[j].cmd = "clean"
  BY <1>1, StepForms DEF Keeps, Finishes
<1>4. Removes(j)
  BY <1>1, <1>3 DEF RemovesInv
<1>5. ASSUME Keeps(j), UNCHANGED content PROVE Removes(j)'
  BY <1>4, <1>5 DEF Removes, Keeps, There
<1>6. ASSUME NEW noted \in {{}, {Here(j)}}, Finishes(j, noted),
             content'[Here(j)] = "none"
      PROVE  Removes(j)'
  <2> SUFFICES ASSUME NEW k \in Kinds,
                      k \notin Left(j)' \/ Of(j, k)' \in job'[j].seen
               PROVE  content'[Of(j, k)'] = "none"
    BY DEF Removes, There
  <2>1. Of(j, k)' = Of(j, k) /\ Of(j, k) \in Places /\ Of(j, k)[1] = k
    BY <1>2, <1>6, OfIsPlace DEF Finishes
  <2>2. CASE Of(j, k) # Here(j)
    <3>1. k # Kind(j)
      BY <1>2, <2>2
    <3>2. k \notin Left(j) \/ Of(j, k) \in job[j].seen
      BY <1>6, <2>1, <2>2, <3>1 DEF Finishes
    <3> QED
      BY <1>2, <1>4, <2>1, <2>2, <3>2 DEF Aside, Removes, There
  <2> QED
    BY <1>6, <2>1, <2>2
<1>7. CASE Killed(j)
  BY <1>2, <1>5, <1>7, GoesOrFails DEF Aside, Killed, Untouched, StopsAs
<1>8. CASE JobStep(j)
  BY <1>3, <1>4, <1>5, <1>6, <1>8, RemovesLocally
<1> QED
  BY <1>1, <1>7, <1>8 DEF Acts

\* The steps of a start of `run`, which changes no file.
LEMMA RegistersLocally ==
  ASSUME DeployInv, NEW j \in Jobs, JobStep(j), job[j].cmd = "run", Registers(j)
  PROVE  /\ UNCHANGED content
         /\ \/ /\ Keeps(j) /\ job'[j].result = "running"
               /\ job'[j].pc = "register" => There(Here(j))
            \/ Finishes(j, {}) /\ ~There(Here(j))
            \/ Finishes(j, {Here(j)}) /\ There(Here(j))
<1>1. Active(j) /\ UNCHANGED profile /\ JobTypes /\ JobInv
  BY WhoActs DEF Acts, DeployInv
<1>2. Find(j) \/ Register(j)
  BY DEF JobStep, At, Deploying, SafeLook, SafeOverwrite, SafeCreate, SafeWrite,
     SafeChmod, ChromeLook, ChromeUnlink, ChromeCreate, ChromeChmod,
     ChromeConnect, ChromeTable, ChromeRows, CleanRemove
<1>3. CASE Find(j) /\ There(Here(j))
  BY <1>1, <1>3, GoesOrFails DEF Find, GoesTo, Untouched
<1>4. CASE Find(j) /\ ~There(Here(j))
  BY <1>1, <1>4, ThroughFinishes DEF Find, Untouched
<1>5. CASE Register(j)
  <2>1. There(Here(j))
    BY <1>1, <1>5 DEF Register, At, Registers
  <2> QED
    BY <1>1, <1>5, <2>1, ThroughFinishes DEF Register, Untouched
<1> QED
  BY <1>2, <1>3, <1>4, <1>5

LEMMA RegistersStep ==
  ASSUME DeployInv, SoloInv, RegistersInv, NEW i \in Jobs, Acts(i)
  PROVE  RegistersInv'
<1> SUFFICES ASSUME NEW j \in Jobs, Alone(j)', job'[j].cmd = "run"
             PROVE  Registers(j)'
  BY DEF RegistersInv
<1>1. i = j /\ Alone(j) /\ Acts(j)
  BY AloneActs
<1>2. /\ Active(j) /\ Aside(j)
      /\ Kind(j) \in Kinds /\ Here(j) = Of(j, Kind(j))
  BY <1>1, WhoActs
<1>3. job[j].cmd = "run"
  BY <1>1, StepForms DEF Keeps, Finishes
<1>4. Registers(j)
  BY <1>1, <1>3 DEF RegistersInv
<1>6. ASSUME UNCHANGED content, Keeps(j), job'[j].result \in {"running", "killed"},
             job'[j].result = "running" /\ job'[j].pc = "register" => There(Here(j))
      PROVE  Registers(j)'
  BY <1>4, <1>6 DEF Registers, Keeps, There, Active
<1>7. ASSUME UNCHANGED content, NEW noted, Finishes(j, noted),
             \/ noted = {} /\ ~There(Here(j))
             \/ noted = {Here(j)} /\ There(Here(j))
      PROVE  Registers(j)'
  <2>1. /\ job'[j].result # "failed"
        /\ job'[j].pc # "register"
        /\ job'[j].seen = job[j].seen \cup noted
        /\ \A k \in Kinds : Of(j, k)' = Of(j, k)
        /\ \A k \in Kinds \ Left(j)' : k = Kind(j) \/ k \notin Left(j)
    BY <1>7 DEF Finishes
  <2>2. \A p \in job'[j].seen : content'[p] # "none" /\ \E k \in Kinds : p = Of(j, k)'
    BY <1>2, <1>4, <1>7, <2>1 DEF Registers, There
  <2>3. \A k \in Kinds \ Left(j)' :
          content'[Of(j, k)'] # "none" => Of(j, k)' \in job'[j].seen
    BY <1>2, <1>4, <1>7, <2>1 DEF Registers, There
  <2> QED
    BY <2>1, <2>2, <2>3 DEF Registers, There
<1>8. CASE Killed(j)
  <2>1. StopsAs(j, "killed") /\ UNCHANGED content
    BY <1>2, <1>8, GoesOrFails DEF Aside, Killed, Untouched, DeployInv
  <2> QED
    BY <1>6, <2>1 DEF StopsAs
<1>9. CASE JobStep(j)
  BY <1>3, <1>4, <1>6, <1>7, <1>9, RegistersLocally
<1> QED
  BY <1>1, <1>8, <1>9 DEF Acts

LEMMA OthersBegin ==
  ASSUME NEW i \in Jobs, NEW c, NEW d, Begins(i, c, d)
  PROVE  RemovesInv' /\ RegistersInv'
<1>1. ASSUME NEW j \in Jobs, Alone(j)' PROVE Removes(j)' /\ Registers(j)'
  <2>1. j = i
    BY <1>1 DEF Alone, Begins
  <2>2. /\ Left(j)' = Kinds /\ job'[j].pc = "look" /\ job'[j].result = "running"
        /\ job'[j].seen = {}
    BY <2>1 DEF Begins
  <2> QED
    BY <2>2 DEF Removes, Registers
<1> QED
  BY <1>1 DEF RemovesInv, RegistersInv

-----------------------------------------------------------------------------
(* Deployments that run into each other, with no other command about and    *)
(* none of them killed.                                                     *)

Peaceful ==
  \A j \in Jobs : job[j].result # "killed" /\ job[j].cmd \in Deploying \cup {"none"}

Begun(j) == job[j].cmd # "none"

\* The canaries _safe_write creates: once there, they stay, and only Chrome's
\* can make a deployment fail.
Safe(j) ==
  /\ Begun(j) => \A k \in Kinds \ (Left(j) \cup {"chrome"}) : There(Of(j, k))
  /\ Active(j) /\ Kind(j) # "chrome" /\ job[j].pc \in {"write", "chmod", "register"}
       => There(Here(j))
  /\ job[j].result = "failed" =>
       job[j].todo # <<>> /\ Kind(j) = "chrome" /\ job[j].pc # "look"

SafeInv == \A j \in Jobs : Safe(j)

\* Job j is at, or past, Chrome's canary at p.
AtChrome(j, p) == job[j].todo # <<>> /\ Kind(j) = "chrome" /\ Here(j) = p
Past(j, p) == Begun(j) /\ "chrome" \notin Left(j) /\ Of(j, "chrome") = p
Started(j, p) == Past(j, p) \/ (AtChrome(j, p) /\ job[j].pc # "look")

\* Whoever unlinked the database at p, somebody will create it again; and one
\* that is whole belongs to a deployment that got it done.
WillCreate(j, p) ==
  Active(j) /\ AtChrome(j, p) /\ job[j].pc \in {"create", "connect"}
GotDone(j, p) ==
  Past(j, p) \/ (Active(j) /\ AtChrome(j, p) /\ job[j].pc = "register")

ChromeAt(p) ==
  /\ content[p] = "none" /\ (\E j \in Jobs : Started(j, p)) =>
       \E i \in Jobs : WillCreate(i, p)
  /\ content[p] = "whole" => \E i \in Jobs : GotDone(i, p)

ChromeInv == \A p \in Places : p[1] = "chrome" => ChromeAt(p)

WinInv == Peaceful => SafeInv /\ ChromeInv

LEMMA StaysPeaceful ==
  ASSUME DeployInv, NEW j \in Jobs, Acts(j), Peaceful'
  PROVE  Peaceful /\ JobStep(j) /\ job[j].cmd \in Deploying \cup {"none"}
<1>1. Active(j) /\ JobTypes /\ Aside(j)
  BY WhoActs DEF DeployInv
<1>2. \A i \in Jobs \ {j} : job'[i].cmd = job[i].cmd /\ job'[i].result = job[i].result
  BY <1>1, Bystanders DEF Stands, StopsAs, Keeps
<1>3. job'[j].cmd = job[j].cmd
  BY StepForms DEF Keeps, Finishes
<1>4. ~Killed(j)
  <2>1. Killed(j) => job'[j].result = "killed"
    BY <1>1, GoesOrFails DEF StopsAs, Aside
  <2> QED
    BY <2>1 DEF Peaceful
<1>5. Peaceful
  BY <1>1, <1>2, <1>3 DEF Peaceful, Active, Deploying
<1> QED
  BY <1>4, <1>5 DEF Peaceful, Acts

\* A deployment removes no file but Chrome's.
LEMMA SafeStays ==
  ASSUME DeployInv, NEW j \in Jobs, JobStep(j), job[j].cmd \in Deploying,
         NEW q \in Places, q[1] # "chrome", content[q] # "none"
  PROVE  content'[q] # "none"
<1>1. Here(j) \in Places /\ Here(j)[1] = Kind(j) /\ Aside(j) /\ Stages(j)
  BY WhoActs DEF Acts
<1>2. content \in [Places -> {"none", "empty", "schema", "whole"}]
  BY DEF DeployInv, FileTypes
<1>3. CASE q # Here(j)
  BY <1>1, <1>3 DEF Aside
<1>4. CASE q = Here(j)
  <2>1. Kind(j) # "chrome"
    BY <1>1, <1>4
  <2>2. /\ ~ChromeLook(j) /\ ~ChromeUnlink(j) /\ ~ChromeCreate(j) /\ ~ChromeChmod(j)
        /\ ~ChromeConnect(j) /\ ~ChromeTable(j) /\ ~ChromeRows(j)
    BY <1>1, <2>1 DEF Stages, At, ChromeLook, ChromeUnlink, ChromeCreate,
       ChromeChmod, ChromeConnect, ChromeTable, ChromeRows
  <2>3. ~Find(j) /\ ~CleanRemove(j)
    BY DEF Find, CleanRemove, At, Deploying
  <2>4. SafeLook(j) \/ SafeChmod(j) \/ Register(j) => content' = content
    BY DEF SafeLook, SafeChmod, Register, Untouched
  <2>5. SafeOverwrite(j) \/ SafeWrite(j) => content'[q] # "none"
    BY <1>2, <1>4 DEF SafeOverwrite, SafeWrite
  <2>6. SafeCreate(j) => content'[q] # "none"
    BY <1>2, <1>4 DEF SafeCreate, Created, Untouched
  <2> QED
    BY <2>2, <2>3, <2>4, <2>5, <2>6 DEF JobStep
<1> QED
  BY <1>3, <1>4

LEMMA SafeLocally ==
  ASSUME DeployInv, NEW j \in Jobs, JobStep(j), job[j].cmd \in Deploying, Safe(j)
  PROVE  \/ /\ Keeps(j) /\ job'[j].result \in {"running", "failed"}
            /\ /\ job'[j].result = "running" /\ Kind(j) # "chrome"
               /\ job'[j].pc \in {"write", "chmod", "register"}
               => content'[Here(j)] # "none"
            /\ job'[j].result = "failed" => Kind(j) = "chrome" /\ job'[j].pc # "look"
         \/ /\ \E noted : Finishes(j, noted)
            /\ Kind(j) # "chrome" => content'[Here(j)] # "none"
<1> DEFINE p == Here(j)
           Result ==
             \/ /\ Keeps(j) /\ job'[j].result \in {"running", "failed"}
                /\ /\ job'[j].result = "running" /\ Kind(j) # "chrome"
                   /\ job'[j].pc \in {"write", "chmod", "register"}
                   => content'[p] # "none"
                /\ job'[j].result = "failed" => Kind(j) = "chrome" /\ job'[j].pc # "look"
             \/ /\ \E noted : Finishes(j, noted)
                /\ Kind(j) # "chrome" => content'[p] # "none"
<1>1. /\ Active(j) /\ UNCHANGED profile /\ Stages(j) /\ JobTypes /\ JobInv
      /\ p \in Places /\ p # NoFile /\ p[1] = Kind(j)
      /\ content \in [Places -> {"none", "empty", "schema", "whole"}]
  BY WhoActs DEF Acts, DeployInv
<1>2. Kind(j) # "chrome" /\ job[j].pc \in {"write", "chmod", "register"}
        => content[p] # "none"
  BY <1>1 DEF Safe, There
<1>3. Kind(j) # "chrome" /\ content[p] # "none" => content'[p] # "none"
  BY <1>1, SafeStays
<1>4. ASSUME NEW label, NEW h, GoesTo(j, label, h),
             Kind(j) = "chrome" \/ label \notin {"write", "chmod", "register"}
               \/ content'[p] # "none"
      PROVE  Result
  BY <1>4 DEF GoesTo
<1>5. ASSUME StopsAs(j, "failed"), Kind(j) = "chrome", job[j].pc # "look"
      PROVE  Result
  BY <1>5 DEF StopsAs
<1>6. ASSUME Deployed(j), Kind(j) = "chrome" \/ content'[p] # "none" PROVE Result
  <2>1. CASE GoesTo(j, "register", job[j].held)
    BY <1>4, <1>6, <2>1
  <2>2. CASE Finishes(j, {})
    BY <1>6, <2>2
  <2> QED
    BY <1>1, <1>6, <2>1, <2>2, DeployedGoes
<1>7. /\ Fails(j) => StopsAs(j, "failed")
      /\ \A label : /\ Then(j, label) => GoesTo(j, label, job[j].held)
                    /\ Holding(j, label) => GoesTo(j, label, p)
  BY <1>1, GoesOrFails
<1> HIDE DEF Result, p
<1> SUFFICES Result
  BY DEF Result, p
<1>11. CASE SafeLook(j)
  BY <1>4, <1>7, <1>11 DEF SafeLook
<1>12. CASE SafeOverwrite(j)
  <2>1. content'[p] # "none" /\ Holding(j, "write")
    BY <1>1, <1>12 DEF SafeOverwrite, p
  <2> QED
    BY <1>4, <1>7, <2>1
<1>13. CASE SafeCreate(j)
  <2>1. \/ Then(j, "overwrite")
        \/ Holding(j, "write") /\ content'[p] # "none"
    BY <1>1, <1>13 DEF SafeCreate, Created, p
  <2> QED
    BY <1>4, <1>7, <2>1
<1>14. CASE SafeWrite(j)
  <2>1. Then(j, "chmod") /\ content'[p] # "none"
    BY <1>1, <1>2, <1>3, <1>14 DEF SafeWrite, At, Stages
  <2> QED
    BY <1>4, <1>7, <2>1
<1>15. CASE SafeChmod(j)
  <2>1. content[p] # "none" /\ content'[p] # "none"
    BY <1>2, <1>3, <1>15 DEF SafeChmod, At
  <2>2. Deployed(j)
    BY <1>15, <2>1 DEF SafeChmod, There, p
  <2> QED
    BY <1>6, <2>1, <2>2
<1>16. CASE ChromeLook(j) \/ ChromeConnect(j)
  <2>1. Kind(j) = "chrome" /\ \E label : Then(j, label) \/ Holding(j, label)
    BY <1>1, <1>16 DEF ChromeLook, ChromeConnect, Stages, At
  <2> QED
    BY <1>4, <1>7, <2>1
<1>17. CASE ChromeUnlink(j)
  <2>1. Kind(j) = "chrome" /\ job[j].pc = "unlink"
    BY <1>1, <1>17 DEF ChromeUnlink, Stages, At
  <2>2. GoesTo(j, "create", job[j].held) \/ StopsAs(j, "failed")
    BY <1>1, <1>17, UnlinkGoes
  <2> QED
    BY <1>4, <1>5, <2>1, <2>2
<1>18. CASE ChromeCreate(j) \/ ChromeChmod(j) \/ ChromeTable(j)
  <2>1. /\ Kind(j) = "chrome" /\ job[j].pc # "look"
        /\ Fails(j) \/ \E label : Then(j, label)
    BY <1>1, <1>18 DEF ChromeCreate, ChromeChmod, ChromeTable, Stages, At
  <2> QED
    BY <1>4, <1>5, <1>7, <2>1
<1>19. CASE ChromeRows(j)
  <2>1. /\ Kind(j) = "chrome" /\ job[j].pc # "look"
        /\ Fails(j) \/ Deployed(j)
    BY <1>1, <1>19 DEF ChromeRows, Stages, At
  <2> QED
    BY <1>5, <1>6, <1>7, <2>1
<1>20. CASE Register(j)
  <2>1. CASE Kind(j) = "chrome"
    <3>1. job[j].pc # "look" /\ (Fails(j) \/ Through(j, {p}))
      BY <1>20 DEF Register, At, p
    <3> QED
      BY <1>1, <1>5, <1>7, <2>1, <3>1, ThroughFinishes DEF Result
  <2>2. CASE Kind(j) # "chrome"
    <3>1. content[p] # "none" /\ content'[p] # "none"
      BY <1>2, <1>3, <1>20, <2>2 DEF Register, At
    <3>2. Through(j, {p})
      BY <1>20, <3>1 DEF Register, There, p
    <3> QED
      BY <1>1, <3>1, <3>2, ThroughFinishes DEF Result
  <2> QED
    BY <2>1, <2>2
<1>21. ~Find(j) /\ ~CleanRemove(j)
  BY DEF Find, CleanRemove, At, Deploying
<1> QED
  BY <1>11, <1>12, <1>13, <1>14, <1>15, <1>16, <1>17, <1>18, <1>19, <1>20, <1>21
  DEF JobStep

LEMMA SafeStep ==
  ASSUME DeployInv, SafeInv, NEW j \in Jobs, JobStep(j), job[j].cmd \in Deploying
  PROVE  SafeInv'
<1>1. Acts(j) /\ JobTypes
  BY DEF Acts, DeployInv
<1>2. /\ Active(j) /\ Aside(j) /\ job[j].todo # <<>>
      /\ Kind(j) \in Kinds /\ Here(j) \in Places /\ Here(j)[1] = Kind(j)
      /\ Here(j) = Of(j, Kind(j))
  BY <1>1, WhoActs
<1>3. ASSUME NEW i \in Jobs, NEW k \in Kinds \ (Left(i) \cup {"chrome"}), Begun(i)
      PROVE  content'[Of(i, k)] # "none"
  <2>1. Of(i, k) \in Places /\ Of(i, k)[1] # "chrome"
    BY <1>1, <1>3, OfIsPlace
  <2>2. content[Of(i, k)] # "none"
    BY <1>3 DEF SafeInv, Safe, There
  <2> QED
    BY <2>1, <2>2, SafeStays
<1>4. ASSUME NEW i \in Jobs \ {j} PROVE Safe(i)'
  <2>1. Stands(i)
    BY <1>1, <1>2, Bystanders
  <2>2. Safe(i)
    BY DEF SafeInv
  <2>3. Begun(i)' => \A k \in Kinds \ (Left(i)' \cup {"chrome"}) :
                       content'[Of(i, k)'] # "none"
    BY <1>3, <2>1 DEF Stands, StopsAs, Keeps, Begun
  <2>4. /\ Active(i)' /\ Kind(i)' # "chrome"
        /\ job'[i].pc \in {"write", "chmod", "register"}
        => content'[Here(i)'] # "none"
    <3> SUFFICES ASSUME Active(i)', Kind(i)' # "chrome",
                        job'[i].pc \in {"write", "chmod", "register"}
                 PROVE  content'[Here(i)'] # "none"
      OBVIOUS
    <3>1. /\ Active(i) /\ Kind(i) # "chrome" /\ Here(i)' = Here(i)
          /\ job[i].pc \in {"write", "chmod", "register"}
      BY <2>1 DEF Stands, StopsAs, Keeps, Active
    <3>2. content[Here(i)] # "none"
      BY <2>2, <3>1 DEF Safe, There
    <3>3. Here(i) \in Places /\ Here(i)[1] # "chrome"
      BY <3>1, HereIsPlace DEF DeployInv, JobInv, Active
    <3> QED
      BY <3>1, <3>2, <3>3, SafeStays
  <2>5. job'[i].result = "failed" =>
          job'[i].todo # <<>> /\ Kind(i)' = "chrome" /\ job'[i].pc # "look"
    BY <2>1, <2>2 DEF Stands, StopsAs, Keeps, Safe
  <2> QED
    BY <2>3, <2>4, <2>5 DEF Safe, There
<1>5. Begun(j)
  BY DEF Begun, Deploying
<1>6. ASSUME Keeps(j), job'[j].result \in {"running", "failed"},
             /\ job'[j].result = "running" /\ Kind(j) # "chrome"
             /\ job'[j].pc \in {"write", "chmod", "register"}
             => content'[Here(j)] # "none",
             job'[j].result = "failed" => Kind(j) = "chrome" /\ job'[j].pc # "look"
      PROVE  Safe(j)'
  <2>1. \A k \in Kinds \ (Left(j)' \cup {"chrome"}) : content'[Of(j, k)'] # "none"
    BY <1>3, <1>5, <1>6 DEF Keeps
  <2>2. /\ job'[j].todo # <<>> /\ Here(j)' = Here(j) /\ Kind(j)' = Kind(j)
    BY <1>2, <1>6 DEF Keeps
  <2>3. /\ Active(j)' /\ Kind(j)' # "chrome"
        /\ job'[j].pc \in {"write", "chmod", "register"}
        => There(Here(j))'
    BY <1>6, <2>2 DEF Active, There
  <2>4. job'[j].result = "failed" =>
          job'[j].todo # <<>> /\ Kind(j)' = "chrome" /\ job'[j].pc # "look"
    BY <1>6, <2>2
  <2> QED
    BY <2>1, <2>3, <2>4 DEF Safe, There
<1>7. ASSUME NEW noted, Finishes(j, noted),
             Kind(j) # "chrome" => content'[Here(j)] # "none"
      PROVE  Safe(j)'
  <2>1. ASSUME NEW k \in Kinds \ (Left(j)' \cup {"chrome"})
        PROVE  content'[Of(j, k)'] # "none"
    <3>1. Of(j, k)' = Of(j, k) /\ (k = Kind(j) \/ k \notin Left(j))
      BY <1>7, <2>1 DEF Finishes
    <3> QED
      BY <1>2, <1>3, <1>5, <1>7, <2>1, <3>1
  <2> QED
    BY <1>7, <2>1 DEF Safe, Finishes, There
<1>8. Safe(j)'
  <2>1. Safe(j)
    BY DEF SafeInv
  <2>2. \/ /\ Keeps(j) /\ job'[j].result \in {"running", "failed"}
           /\ /\ job'[j].result = "running" /\ Kind(j) # "chrome"
              /\ job'[j].pc \in {"write", "chmod", "register"}
              => content'[Here(j)] # "none"
           /\ job'[j].result = "failed" => Kind(j) = "chrome" /\ job'[j].pc # "look"
        \/ /\ \E noted : Finishes(j, noted)
           /\ Kind(j) # "chrome" => content'[Here(j)] # "none"
    BY <2>1, SafeLocally
  <2> QED
    BY <1>6, <1>7, <2>2
<1> QED
  BY <1>4, <1>8 DEF SafeInv

\* What a deployment's step makes of the database at its place: it is being
\* written; somebody is about to create it; it is done; or nothing happens, and
\* the job is not the one that will create it, or that got it done.
LEMMA ChromeLocally ==
  ASSUME DeployInv, NEW j \in Jobs, JobStep(j), job[j].cmd \in Deploying,
         Kind(j) = "chrome", Distinct(job[j].todo), NEW p, p = Here(j)
  PROVE  \/ content'[p] \in {"empty", "schema"}
         \/ content'[p] = "none" /\ WillCreate(j, p)'
         \/ content'[p] = "whole" /\ GotDone(j, p)'
         \/ /\ content'[p] = "none" /\ content[p] = "none"
            /\ job[j].pc \notin {"look", "create", "connect"}
         \/ /\ content'[p] = "whole" /\ content[p] = "whole"
            /\ job[j].pc # "register"
<1>1. /\ Active(j) /\ UNCHANGED profile /\ Stages(j) /\ JobTypes /\ JobInv
      /\ p \in Places /\ p # NoFile /\ job[j].todo # <<>> /\ p = Of(j, "chrome")
      /\ content \in [Places -> {"none", "empty", "schema", "whole"}]
      /\ content' \in [Places -> {"none", "empty", "schema", "whole"}]
  BY WhoActs DEF Acts, DeployInv
<1> DEFINE Same == /\ content' = content
                   /\ content[p] = "none" =>
                        \/ job[j].pc \notin {"look", "create", "connect"}
                        \/ WillCreate(j, p)'
                   /\ content[p] = "whole" =>
                        \/ job[j].pc # "register"
                        \/ GotDone(j, p)'
           Result ==
             \/ content'[p] \in {"empty", "schema"}
             \/ content'[p] = "none" /\ WillCreate(j, p)'
             \/ content'[p] = "whole" /\ GotDone(j, p)'
             \/ /\ content'[p] = "none" /\ content[p] = "none"
                /\ job[j].pc \notin {"look", "create", "connect"}
             \/ /\ content'[p] = "whole" /\ content[p] = "whole"
                /\ job[j].pc # "register"
<1>2. Same => Result
  <2>1. content[p] \in {"none", "empty", "schema", "whole"}
    BY <1>1
  <2> QED
    BY <2>1
<1>3. ASSUME NEW label \in {"create", "connect"}, NEW h, GoesTo(j, label, h)
      PROVE  WillCreate(j, p)'
  BY <1>1, <1>3 DEF GoesTo, Keeps, WillCreate, AtChrome, Active
<1>4. ASSUME NEW h, GoesTo(j, "register", h)
      PROVE  GotDone(j, p)'
  BY <1>1, <1>4 DEF GoesTo, Keeps, GotDone, AtChrome, Active
<1>5. ASSUME NEW noted, Finishes(j, noted)
      PROVE  GotDone(j, p)'
  <2>1. "chrome" \notin Left(j)' /\ "chrome" \in Kinds
    BY <1>5, WhoActs DEF Finishes, Acts
  <2>2. Of(j, "chrome")' = p /\ job'[j].cmd \in Deploying
    BY <1>1, <1>5, <2>1 DEF Finishes
  <2> QED
    BY <2>1, <2>2 DEF GotDone, Past, Begun, Deploying
<1>6. Deployed(j) => GotDone(j, p)'
  BY <1>1, <1>4, <1>5, DeployedGoes
<1>7. \A label : Then(j, label) => GoesTo(j, label, job[j].held)
  BY <1>1, GoesOrFails
<1> HIDE DEF Result
<1> SUFFICES Result
  BY DEF Result
<1> USE DEF There, Untouched
<1>11. CASE ChromeLook(j)
  <2>1. /\ content' = content /\ job[j].pc = "look"
        /\ content[p] = "none" => Then(j, "create")
    BY <1>11 DEF ChromeLook, At
  <2> QED
    BY <1>2, <1>3, <1>7, <2>1
<1>12. CASE ChromeUnlink(j)
  <2>1. CASE There(p)
    <3>1. content'[p] = "none" /\ GoesTo(j, "create", job[j].held)
      BY <1>1, <1>12, <2>1, UnlinkGoes DEF ChromeUnlink, Unlink
    <3> QED
      BY <1>3, <3>1 DEF Result
  <2>2. CASE ~There(p)
    <3>1. content' = content /\ job[j].pc = "unlink"
      BY <1>12, <2>2 DEF ChromeUnlink, At
    <3> QED
      BY <1>2, <3>1
  <2> QED
    BY <2>1, <2>2
<1>13. CASE ChromeCreate(j)
  <2>1. \/ content' = content /\ job[j].pc = "create" /\ content[p] # "none"
        \/ content'[p] = "empty"
    BY <1>1, <1>13 DEF ChromeCreate, At, Created
  <2> QED
    BY <1>2, <2>1 DEF Result
<1>14. CASE ChromeChmod(j)
  <2>1. content' = content /\ job[j].pc = "chmod"
    BY <1>14 DEF ChromeChmod, At
  <2> QED
    BY <1>2, <2>1
<1>15. CASE ChromeConnect(j)
  <2>1. \/ content' = content /\ job[j].pc = "connect" /\ content[p] # "none"
        \/ content'[p] = "empty"
    BY <1>1, <1>15 DEF ChromeConnect, At, Created
  <2> QED
    BY <1>2, <2>1 DEF Result
<1>16. CASE ChromeTable(j)
  <2>1. \/ content' = content /\ job[j].pc = "table"
        \/ content'[p] = "schema"
    BY <1>1, <1>16 DEF ChromeTable, At
  <2> QED
    BY <1>2, <2>1 DEF Result
<1>17. CASE ChromeRows(j)
  <2>1. \/ content' = content /\ job[j].pc = "rows"
        \/ content'[p] = "whole" /\ Deployed(j)
    BY <1>1, <1>17 DEF ChromeRows, At
  <2> QED
    BY <1>2, <1>6, <2>1 DEF Result
<1>18. CASE Register(j)
  <2>1. /\ content' = content /\ job[j].pc = "register"
        /\ content[p] # "none" => Through(j, {p})
    BY <1>18 DEF Register, At
  <2>2. Through(j, {p}) => GotDone(j, p)'
    BY <1>1, <1>5, ThroughFinishes
  <2> QED
    BY <1>2, <2>1, <2>2
<1>19. /\ ~SafeLook(j) /\ ~SafeOverwrite(j) /\ ~SafeCreate(j) /\ ~SafeWrite(j)
       /\ ~SafeChmod(j) /\ ~Find(j) /\ ~CleanRemove(j)
  BY <1>1 DEF SafeLook, SafeOverwrite, SafeCreate, SafeWrite, SafeChmod, Find,
     CleanRemove, At, Stages, Deploying
<1> QED
  BY <1>11, <1>12, <1>13, <1>14, <1>15, <1>16, <1>17, <1>18, <1>19 DEF JobStep

\* A job that takes no part stays where it is with Chrome's canary.
LEMMA ChromeStands ==
  ASSUME NEW i \in Jobs, Stands(i), "chrome" \in Kinds, NEW p
  PROVE  /\ Started(i, p)' <=> Started(i, p)
         /\ WillCreate(i, p)' <=> WillCreate(i, p)
         /\ GotDone(i, p)' <=> GotDone(i, p)
<1>1. /\ Past(i, p)' <=> Past(i, p)
      /\ AtChrome(i, p)' <=> AtChrome(i, p)
      /\ Active(i)' <=> Active(i)
      /\ job'[i].pc = job[i].pc
  BY DEF Stands, StopsAs, Keeps, Past, Begun, AtChrome, Active
<1> QED
  BY <1>1 DEF Started, WillCreate, GotDone

LEMMA ChromeElsewhere ==
  ASSUME DeployInv, NEW j \in Jobs, JobStep(j), NEW p \in Places, p[1] = "chrome",
         p # Here(j), ChromeAt(p)
  PROVE  ChromeAt(p)'
<1>1. Acts(j) /\ JobTypes /\ "chrome" \in Kinds
  BY DEF Acts, DeployInv, Places
<1>2. /\ Aside(j) /\ Here(j) = Of(j, Kind(j)) /\ Kind(j) \in Left(j)
  BY <1>1, WhoActs
<1>3. content'[p] = content[p]
  BY <1>2 DEF Aside
<1>4. \A i \in Jobs \ {j} : /\ Started(i, p)' <=> Started(i, p)
                            /\ WillCreate(i, p)' <=> WillCreate(i, p)
                            /\ GotDone(i, p)' <=> GotDone(i, p)
  BY <1>1, <1>2, Bystanders, ChromeStands
<1>5. ~AtChrome(j, p) /\ ~WillCreate(j, p)
  BY DEF AtChrome, WillCreate
<1>6. Past(j, p) <=> GotDone(j, p)
  BY <1>5 DEF GotDone
<1>7. (Started(j, p)' => Past(j, p)) /\ (Past(j, p) => Past(j, p)')
  <2>1. CASE Keeps(j)
    BY <1>1, <1>5, <2>1 DEF Keeps, Started, Past, Begun, AtChrome
  <2>2. ASSUME NEW noted, Finishes(j, noted)
        PROVE  (Started(j, p)' => Past(j, p)) /\ (Past(j, p) => Past(j, p)')
    <3>1. /\ job'[j].pc = "look" /\ job'[j].cmd = job[j].cmd
          /\ Of(j, "chrome")' = Of(j, "chrome")
          /\ Left(j) = {Kind(j)} \cup Left(j)'
      BY <1>1, <2>2 DEF Finishes
    <3>2. Of(j, "chrome") = p => Kind(j) # "chrome"
      BY <1>2
    <3>3. Past(j, p)' <=> Past(j, p)
      BY <3>1, <3>2 DEF Past, Begun
    <3>4. Started(j, p)' => Past(j, p)'
      BY <3>1 DEF Started
    <3> QED
      BY <3>3, <3>4
  <2> QED
    BY <1>1, <2>1, <2>2, StepForms
<1>8. Past(j, p) => Started(j, p)
  BY DEF Started
<1>9. Past(j, p)' => GotDone(j, p)'
  BY DEF GotDone
<1>10. \A i \in Jobs : /\ Started(i, p)' => Started(i, p)
                       /\ WillCreate(i, p) => WillCreate(i, p)'
                       /\ GotDone(i, p) => GotDone(i, p)'
  BY <1>4, <1>5, <1>6, <1>7, <1>8, <1>9
<1> QED
  BY <1>3, <1>10 DEF ChromeAt

LEMMA ChromeHere ==
  ASSUME DeployInv, OnceInv, NEW j \in Jobs, JobStep(j), job[j].cmd \in Deploying,
         NEW p \in Places, p[1] = "chrome", p = Here(j), ChromeAt(p)
  PROVE  ChromeAt(p)'
<1>1. Acts(j) /\ JobTypes /\ "chrome" \in Kinds
  BY DEF Acts, DeployInv, Places
<1>2. /\ Aside(j) /\ Here(j)[1] = Kind(j) /\ Kind(j) \in Left(j) /\ Active(j)
      /\ job[j].todo # <<>>
  BY <1>1, WhoActs
<1>3. Kind(j) = "chrome" /\ Distinct(job[j].todo)
  BY <1>2 DEF OnceInv
<1>4. \A i \in Jobs \ {j} : /\ WillCreate(i, p)' <=> WillCreate(i, p)
                            /\ GotDone(i, p)' <=> GotDone(i, p)
  BY <1>1, <1>2, Bystanders, ChromeStands
<1>5. CASE content'[p] \in {"empty", "schema"}
  BY <1>5 DEF ChromeAt
<1>6. CASE content'[p] = "none" /\ WillCreate(j, p)'
  BY <1>6 DEF ChromeAt
<1>7. CASE content'[p] = "whole" /\ GotDone(j, p)'
  BY <1>7 DEF ChromeAt
<1>8. CASE /\ content'[p] = "none" /\ content[p] = "none"
           /\ job[j].pc \notin {"look", "create", "connect"}
  <2>1. Started(j, p)
    BY <1>2, <1>3, <1>8 DEF Started, AtChrome
  <2>2. PICK i \in Jobs : WillCreate(i, p)
    BY <1>8, <2>1 DEF ChromeAt
  <2>3. i # j
    BY <1>8, <2>2 DEF WillCreate
  <2>4. WillCreate(i, p)'
    BY <1>4, <2>2, <2>3
  <2> QED
    BY <1>8, <2>4 DEF ChromeAt
<1>9. CASE /\ content'[p] = "whole" /\ content[p] = "whole"
           /\ job[j].pc # "register"
  <2>1. PICK i \in Jobs : GotDone(i, p)
    BY <1>9 DEF ChromeAt
  <2>2. i # j
    BY <1>2, <1>3, <1>9, <2>1 DEF GotDone, Past
  <2>3. GotDone(i, p)'
    BY <1>4, <2>1, <2>2
  <2> QED
    BY <1>9, <2>3 DEF ChromeAt
<1> QED
  BY <1>3, <1>5, <1>6, <1>7, <1>8, <1>9, ChromeLocally

LEMMA WinStep ==
  ASSUME DeployInv, CourseInv, WinInv, NEW j \in Jobs, Acts(j)
  PROVE  WinInv'
<1> SUFFICES ASSUME Peaceful' PROVE SafeInv' /\ ChromeInv'
  BY DEF WinInv
<1>1. Peaceful /\ JobStep(j) /\ job[j].cmd \in Deploying
  BY StaysPeaceful, WhoActs DEF CourseInv, BegunInv, Active
<1>2. SafeInv /\ ChromeInv /\ OnceInv
  BY <1>1 DEF WinInv, CourseInv
<1>3. SafeInv'
  BY <1>1, <1>2, SafeStep
<1>4. \A p \in Places : p[1] = "chrome" => ChromeAt(p)'
  BY <1>1, <1>2, ChromeElsewhere, ChromeHere DEF ChromeInv
<1>5. ChromeInv'
  BY <1>4 DEF ChromeInv, Places
<1> QED
  BY <1>3, <1>5

LEMMA WinBegin ==
  ASSUME DeployInv, CourseInv, WinInv, NEW j \in Jobs, NEW c, NEW d,
         Begins(j, c, d)
  PROVE  WinInv'
<1> SUFFICES ASSUME Peaceful' PROVE SafeInv' /\ ChromeInv'
  BY DEF WinInv
<1>1. /\ job[j].result = "new" /\ job[j].cmd = "none"
      /\ \A i \in Jobs \ {j} : Stands(i) /\ job'[i] = job[i]
      /\ UNCHANGED <<profile, content, private>>
      /\ job'[j].pc = "look" /\ job'[j].result = "running" /\ Left(j)' = Kinds
  BY DEF Begins, CourseInv, BegunInv
<1>2. Peaceful
  BY <1>1 DEF Peaceful
<1>3. SafeInv /\ ChromeInv
  BY <1>2 DEF WinInv
<1>4. ASSUME NEW i \in Jobs PROVE Safe(i)'
  <2>1. CASE i = j
    BY <1>1, <2>1 DEF Safe
  <2>2. CASE i # j
    <3>1. Safe(i) /\ Stands(i)
      BY <1>1, <1>3, <2>2 DEF SafeInv
    <3> QED
      BY <1>1, <3>1 DEF Safe, Stands, StopsAs, Keeps, Begun, Active, There
  <2> QED
    BY <2>1, <2>2
<1>5. ASSUME NEW p \in Places, p[1] = "chrome" PROVE ChromeAt(p)'
  <2>1. "chrome" \in Kinds
    BY <1>5 DEF Places
  <2>2. ~Started(j, p)' /\ ~WillCreate(j, p) /\ ~GotDone(j, p)
    BY <1>1, <2>1 DEF Started, WillCreate, GotDone, Past, Begun, Active
  <2>3. \A i \in Jobs \ {j} : /\ Started(i, p)' <=> Started(i, p)
                              /\ WillCreate(i, p)' <=> WillCreate(i, p)
                              /\ GotDone(i, p)' <=> GotDone(i, p)
    BY <1>1, <2>1, ChromeStands
  <2>4. ChromeAt(p)
    BY <1>3, <1>5 DEF ChromeInv
  <2> QED
    BY <1>1, <2>2, <2>3, <2>4 DEF ChromeAt
<1>6. ChromeInv'
  BY <1>5 DEF ChromeInv, Places
<1> QED
  BY <1>4, <1>6 DEF SafeInv

-----------------------------------------------------------------------------
(* The theorems.                                                           *)

JobsInv ==
  DeployInv /\ CourseInv /\ ArmsInv /\ RemovesInv /\ RegistersInv /\ WinInv

LEMMA JobsInvInit == DeployInit => JobsInv
<1> SUFFICES ASSUME DeployInit PROVE JobsInv
  OBVIOUS
<1>1. /\ \A j \in Jobs : /\ job[j].result = "new" /\ job[j].cmd = "none"
                         /\ job[j].todo = <<>>
      /\ solo = {} /\ \A p \in Places : content[p] = "none"
  BY DEF DeployInit, NotBegun
<1>2. Distinct(<<>>)
  BY DEF Distinct
<1>3. CourseInv
  BY <1>1, <1>2 DEF CourseInv, SoloInv, BegunInv, EndInv, OnceInv, Alone, Active
<1>4. ArmsInv /\ RemovesInv /\ RegistersInv
  BY <1>1 DEF ArmsInv, RemovesInv, RegistersInv, Alone
<1>5. SafeInv
  BY <1>1 DEF SafeInv, Safe, Begun, Active
<1>6. \A j \in Jobs : \A p : ~Started(j, p)
  BY <1>1 DEF Started, Past, AtChrome, Begun
<1>7. ChromeInv
  BY <1>1, <1>6 DEF ChromeInv, ChromeAt
<1> QED
  BY <1>3, <1>4, <1>5, <1>7, DeployInvInit DEF JobsInv, WinInv

LEMMA JobsInvStep == JobsInv /\ [DeployNext]_deployVars => JobsInv'
<1> SUFFICES ASSUME JobsInv, [DeployNext]_deployVars PROVE JobsInv'
  OBVIOUS
<1> USE DEF JobsInv
<1>1. DeployInv'
  BY DeployInvStep
<1>2. CASE UNCHANGED deployVars
  <2>1. CourseInv' /\ ArmsInv' /\ RemovesInv' /\ RegistersInv'
    BY <1>2 DEF deployVars, CourseInv, SoloInv, BegunInv, EndInv, OnceInv, Distinct,
       Alone, Active, ArmsInv, Arms, HereArmed, RemovesInv, Removes, RegistersInv,
       Registers, There, Here, Kind, Place, Left, Elements, Of
  <2>2. WinInv'
    BY <1>2 DEF deployVars, WinInv, Peaceful, SafeInv, Safe, ChromeInv, ChromeAt,
       Started, Past, AtChrome, WillCreate, GotDone, Begun, Active, There, Here,
       Kind, Place, Left, Elements, Of, Places
  <2> QED
    BY <1>1, <2>1, <2>2
<1>3. ASSUME NEW j \in Jobs, Acts(j) PROVE JobsInv'
  <2>1. CourseInv' /\ WinInv'
    BY <1>3, CourseStep, WinStep
  <2>2. ArmsInv' /\ RemovesInv' /\ RegistersInv'
    BY <1>3, ArmsStep, RemovesStep, RegistersStep DEF CourseInv
  <2> QED
    BY <1>1, <2>1, <2>2
<1>4. ASSUME NEW j \in Jobs, NEW c \in Commands, NEW d \in Dirs, Begin(j, c, d)
      PROVE  JobsInv'
  <2>1. CourseInv' /\ Begins(j, c, d)
    BY <1>4, CourseBegin, BeginsRecord
  <2>2. ArmsInv' /\ RemovesInv' /\ RegistersInv' /\ WinInv'
    BY <2>1, ArmsBegin, OthersBegin, WinBegin
  <2> QED
    BY <1>1, <2>1, <2>2
<1> QED
  BY <1>2, <1>3, <1>4 DEF DeployNext, Acts

LEMMA JobsInvariance == DeploySpec => []JobsInv
  BY JobsInvInit, JobsInvStep, PTL DEF DeploySpec

\* Nothing is left to do for a job that ended well.
LEMMA EndedWell ==
  ASSUME CourseInv, NEW j \in Jobs, job[j].result = "ok"
  PROVE  Left(j) = {}
  BY DEF CourseInv, EndInv, Left, Elements

\* A deployment that no other command runs beside cannot fail, and when it has
\* ended every canary is whole and private, whatever earlier commands, killed at
\* any step, have left behind.
THEOREM SoloInitWorks == DeploySpec => []SoloInitArms
<1>1. JobsInv => SoloInitArms
  BY EndedWell DEF JobsInv, ArmsInv, Arms, SoloInitArms, Of
<1> QED
  BY <1>1, JobsInvariance, PTL

\* After a clean that no other command ran beside, nothing is left of the
\* canaries of its working directory and of the home directory.
THEOREM SoloCleanWorks == DeploySpec => []SoloCleanRemoves
<1>1. JobsInv => SoloCleanRemoves
  BY EndedWell DEF JobsInv, RemovesInv, Removes, SoloCleanRemoves, Of
<1> QED
  BY <1>1, JobsInvariance, PTL

\* The search of `run`, which may come to Chrome's canary twice, registers each
\* canary that exists and nothing else, and no missing file makes it fail.
THEOREM SoloRunWorks == DeploySpec => []SoloRunRegisters
<1>1. ASSUME JobsInv, NEW j \in Jobs, Alone(j), job[j].cmd = "run"
      PROVE  /\ job[j].result # "failed"
             /\ job[j].result = "ok" =>
                  job[j].seen = {p \in {Place(k, job[j].cwd) : k \in Kinds} : There(p)}
  <2>1. Registers(j)
    BY <1>1 DEF JobsInv, RegistersInv
  <2>2. job[j].result = "ok" => Left(j) = {}
    BY <1>1, EndedWell DEF JobsInv
  <2> QED
    BY <2>1, <2>2 DEF Registers, Of
<1>2. JobsInv => SoloRunRegisters
  BY <1>1 DEF SoloRunRegisters
<1> QED
  BY <1>2, JobsInvariance, PTL

\* What is left of deployments that ran into each other.
LEMMA SomebodyWins ==
  ASSUME JobsInv,
         \E j \in Jobs : job[j].result # "new",
         \A j \in Jobs : /\ job[j].result \in {"new", "ok", "failed"}
                         /\ job[j].cmd \in Deploying \cup {"none"}
  PROVE  /\ \E j \in Jobs : job[j].result = "ok"
         /\ \A j \in Jobs : job[j].result = "ok" =>
              \A k \in Kinds : content[Place(k, job[j].cwd)] = "whole"
<1>1. \A j \in Jobs : ~Active(j) /\ job[j].result # "killed"
  BY DEF Active
<1>2. /\ SafeInv /\ ChromeInv /\ BegunInv /\ CourseInv /\ JobTypes /\ PartialInv
      /\ content \in [Places -> {"none", "empty", "schema", "whole"}]
  BY <1>1 DEF JobsInv, WinInv, Peaceful, CourseInv, DeployInv, FileTypes
<1>3. \A p \in Places : content[p] \in {"none", "whole"}
  BY <1>1, <1>2 DEF PartialInv, Partial, OwesContent
<1>4. ASSUME NEW j \in Jobs, NEW p \in Places, p[1] = "chrome", Started(j, p)
      PROVE  content[p] = "whole" /\ \E i \in Jobs : Past(i, p)
  BY <1>1, <1>2, <1>3, <1>4 DEF ChromeInv, ChromeAt, WillCreate, GotDone
<1>5. \E j \in Jobs : job[j].result = "ok"
  <2>1. PICK j \in Jobs : job[j].result # "new"
    OBVIOUS
  <2>2. CASE job[j].result = "failed"
    <3>1. job[j].todo # <<>> /\ Kind(j) = "chrome" /\ job[j].pc # "look"
      BY <1>2, <2>2 DEF SafeInv, Safe
    <3>2. Here(j) \in Places /\ Here(j)[1] = "chrome" /\ Started(j, Here(j))
      BY <1>2, <3>1, HereIsPlace DEF Started, AtChrome
    <3>3. PICK i \in Jobs : Past(i, Here(j))
      BY <1>4, <3>2
    <3>4. job[i].result # "new" /\ "chrome" \notin Left(i)
      BY <1>2, <3>3 DEF Past, Begun, BegunInv
    <3>5. job[i].result # "failed"
      <4> SUFFICES ASSUME job[i].todo # <<>>, Kind(i) = "chrome" PROVE FALSE
        BY <1>2 DEF SafeInv, Safe
      <4>1. job[i].todo \in Seq(Kinds)
        BY <1>2 DEF JobTypes, JobRecord
      <4> QED
        BY <3>4, <4>1, TailElements DEF Left, Kind
    <3> QED
      BY <3>4, <3>5
  <2> QED
    BY <2>1, <2>2
<1>6. ASSUME NEW j \in Jobs, job[j].result = "ok", NEW k \in Kinds
      PROVE  content[Of(j, k)] = "whole"
  <2>1. Left(j) = {} /\ Begun(j)
    BY <1>2, <1>6, EndedWell DEF Begun, BegunInv
  <2>2. Of(j, k) \in Places /\ Of(j, k)[1] = k
    BY <1>2, OfIsPlace
  <2>3. CASE k = "chrome"
    <3>1. Started(j, Of(j, k))
      BY <2>1, <2>3 DEF Started, Past
    <3> QED
      BY <1>4, <2>2, <2>3, <3>1
  <2>4. CASE k # "chrome"
    <3>1. content[Of(j, k)] # "none"
      BY <1>2, <2>1, <2>4 DEF SafeInv, Safe, There
    <3> QED
      BY <1>3, <2>2, <3>1
  <2> QED
    BY <2>3, <2>4
<1> QED
  BY <1>5, <1>6 DEF Of

\* However deployments interleave, of those that run to their end at least one
\* succeeds, and the canaries of all that do are whole.
THEOREM SomeInitSucceeds == DeploySpec => []SomeInitWins
<1>1. JobsInv => SomeInitWins
  BY SomebodyWins DEF SomeInitWins
<1> QED
  BY <1>1, JobsInvariance, PTL

-----------------------------------------------------------------------------
(* Permissions, when commands do not run beside each other.                *)

OneAtATime == \A i, j \in Jobs : Active(i) /\ Active(j) => i = j

\* The database a deployment has set the permissions of is still there.
DatabaseInv ==
  \A j \in Jobs : Active(j) /\ job[j].pc \in {"connect", "table", "rows"} =>
    content[Here(j)] # "none"

\* A database open to others has a deployment that was about to close it.
OwesChmod(j, p) ==
  /\ job[j].result \in {"running", "killed"} /\ job[j].todo # <<>>
  /\ Here(j) = p /\ job[j].pc = "chmod"

Bare(p) == p[1] = "chrome" /\ content[p] # "none" /\ p \notin private

BareInv ==
  \A p \in Places : Bare(p) => \E j \in Jobs : OwesChmod(j, p)

LEMMA DatabaseLocally ==
  ASSUME DeployInv, NEW j \in Jobs, Acts(j), Active(j)',
         job'[j].pc \in {"connect", "table", "rows"}
  PROVE  Here(j)' = Here(j) /\ content'[Here(j)] # "none"
<1>1. /\ Active(j) /\ UNCHANGED profile /\ Stages(j) /\ JobTypes /\ JobInv
      /\ Here(j) \in Places
      /\ content \in [Places -> {"none", "empty", "schema", "whole"}]
  BY WhoActs DEF DeployInv
<1>2. ASSUME NEW label, NEW h, GoesTo(j, label, h)
      PROVE  Here(j)' = Here(j) /\ label \in {"connect", "table", "rows"}
  BY <1>2 DEF GoesTo, Keeps
<1>3. \A label : /\ Then(j, label) => GoesTo(j, label, job[j].held)
                 /\ Holding(j, label) => GoesTo(j, label, Here(j))
  BY <1>1, GoesOrFails
<1>4. ~Fails(j) /\ ~Killed(j)
  BY <1>1, GoesOrFails DEF StopsAs, Active
<1>5. \A noted : ~Through(j, noted)
  BY <1>1, ThroughFinishes DEF Finishes
<1>6. ~Deployed(j)
  BY <1>2, <1>3, <1>5 DEF Deployed
<1>11. ~SafeLook(j) /\ ~ChromeLook(j) /\ ~SafeOverwrite(j) /\ ~SafeCreate(j)
  BY <1>2, <1>3 DEF SafeLook, ChromeLook, SafeOverwrite, SafeCreate
<1>12. ~SafeWrite(j) /\ ~SafeChmod(j) /\ ~ChromeRows(j)
  BY <1>2, <1>3, <1>4, <1>6 DEF SafeWrite, SafeChmod, ChromeRows
<1>13. ~ChromeUnlink(j)
  BY <1>1, <1>2, UnlinkGoes DEF StopsAs, Active
<1>14. ~ChromeCreate(j)
  BY <1>2, <1>3, <1>4 DEF ChromeCreate
<1>15. ~Register(j) /\ ~Find(j)
  BY <1>2, <1>3, <1>4, <1>5 DEF Register, Find
<1>16. ~CleanRemove(j)
  BY <1>1, RemoveFinishes DEF Finishes
<1>17. CASE ChromeChmod(j)
  BY <1>2, <1>3, <1>4, <1>17 DEF ChromeChmod, There
<1>18. CASE ChromeConnect(j)
  BY <1>1, <1>2, <1>3, <1>18 DEF ChromeConnect, There, Created, Untouched
<1>19. CASE ChromeTable(j)
  BY <1>1, <1>2, <1>3, <1>4, <1>19 DEF ChromeTable
<1> QED
  BY <1>4, <1>11, <1>12, <1>13, <1>14, <1>15, <1>16, <1>17, <1>18, <1>19
  DEF Acts, JobStep

\* A step leaves its job owing the mode of its database, or finds that database
\* closed, or gone, or somebody else's to close.
LEMMA BareLocally ==
  ASSUME DeployInv, DatabaseInv, NEW j \in Jobs, Acts(j), NEW p, p = Here(j), Bare(p)'
  PROVE  OwesChmod(j, p)' \/ (Bare(p) /\ ~OwesChmod(j, p))
<1>1. /\ Active(j) /\ UNCHANGED profile /\ Stages(j) /\ JobTypes /\ JobInv
      /\ job[j].todo # <<>>
      /\ p \in Places /\ Kind(j) = "chrome"
      /\ content \in [Places -> {"none", "empty", "schema", "whole"}]
  BY WhoActs DEF DeployInv, Bare
<1>2. ASSUME NEW h, GoesTo(j, "chmod", h) PROVE OwesChmod(j, p)'
  BY <1>1, <1>2 DEF GoesTo, Keeps, OwesChmod
<1>3. ASSUME StopsAs(j, "killed") PROVE OwesChmod(j, p) => OwesChmod(j, p)'
  BY <1>1, <1>3 DEF StopsAs, Keeps, OwesChmod
<1>4. UNCHANGED <<content, private>> => Bare(p)
  BY DEF Bare
<1>5. content[p] # "none" /\ private' = private => Bare(p)
  BY DEF Bare
<1>6. job[j].pc # "chmod" => ~OwesChmod(j, p)
  BY DEF OwesChmod
<1> USE DEF Untouched, At, There
<1>11. CASE Killed(j)
  <2>1. StopsAs(j, "killed")
    BY <1>1, <1>11, GoesOrFails
  <2> QED
    BY <1>3, <1>4, <1>11, <2>1 DEF Killed
<1>12. CASE ChromeLook(j) \/ Register(j) \/ Find(j)
  BY <1>4, <1>6, <1>12 DEF ChromeLook, Register, Find
<1>13. CASE ChromeUnlink(j) \/ CleanRemove(j)
  <2>1. content'[p] # "none"
    BY DEF Bare
  <2> QED
    BY <1>1, <1>4, <1>6, <1>13, <2>1 DEF ChromeUnlink, CleanRemove, Unlink
<1>14. CASE ChromeCreate(j)
  <2>1. Then(j, "chmod") => GoesTo(j, "chmod", job[j].held)
    BY <1>1, GoesOrFails
  <2> QED
    BY <1>2, <1>4, <1>6, <1>14, <2>1 DEF ChromeCreate
<1>15. CASE ChromeChmod(j)
  BY <1>1, <1>15 DEF ChromeChmod, Bare
<1>16. CASE ChromeConnect(j) \/ ChromeTable(j) \/ ChromeRows(j)
  <2>1. job[j].pc \in {"connect", "table", "rows"}
    BY <1>16 DEF ChromeConnect, ChromeTable, ChromeRows
  <2>2. content[p] # "none"
    BY <1>1, <2>1 DEF DatabaseInv
  <2>3. private' = private
    BY <1>16, <2>2 DEF ChromeConnect, ChromeTable, ChromeRows
  <2> QED
    BY <1>5, <1>6, <2>1, <2>2, <2>3
<1>17. /\ ~SafeLook(j) /\ ~SafeOverwrite(j) /\ ~SafeCreate(j) /\ ~SafeWrite(j)
       /\ ~SafeChmod(j)
  BY <1>1 DEF SafeLook, SafeOverwrite, SafeCreate, SafeWrite, SafeChmod, Stages
<1> QED
  BY <1>11, <1>12, <1>13, <1>14, <1>15, <1>16, <1>17 DEF Acts, JobStep

LEMMA PrivacyStep ==
  ASSUME DeployInv, DatabaseInv, BareInv, OneAtATime, NEW j \in Jobs, Acts(j)
  PROVE  DatabaseInv' /\ BareInv'
<1>1. Active(j) /\ Aside(j) /\ \A i \in Jobs \ {j} : Stands(i)
  BY WhoActs, Bystanders DEF DeployInv
<1>2. \A i \in Jobs \ {j} : ~Active(i)'
  BY <1>1 DEF OneAtATime, Stands, StopsAs, Active
<1>3. DatabaseInv'
  BY <1>2, DatabaseLocally DEF DatabaseInv
<1>4. ASSUME NEW i \in Jobs \ {j}, NEW p, OwesChmod(i, p) PROVE OwesChmod(i, p)'
  BY <1>1, <1>4 DEF OwesChmod, Stands, StopsAs, Keeps
<1>5. ASSUME NEW p \in Places, Bare(p)' PROVE \E i \in Jobs : OwesChmod(i, p)'
  <2>1. CASE OwesChmod(j, p)'
    BY <2>1
  <2>2. CASE Bare(p) /\ ~OwesChmod(j, p)
    <3>1. PICK i \in Jobs : OwesChmod(i, p)
      BY <2>2 DEF BareInv
    <3> QED
      BY <1>4, <2>2, <3>1
  <2>3. CASE p # Here(j)
    <3>1. Bare(p)
      BY <1>1, <1>5, <2>3 DEF Bare, Aside
    <3> QED
      BY <2>2, <2>3, <3>1 DEF OwesChmod
  <2> QED
    BY <1>5, <2>1, <2>2, <2>3, BareLocally
<1>6. BareInv'
  BY <1>5 DEF BareInv, Places
<1> QED
  BY <1>3, <1>6

LEMMA PrivacyBegin ==
  ASSUME DatabaseInv, BareInv, NEW j \in Jobs, NEW c, NEW d, Begins(j, c, d)
  PROVE  DatabaseInv' /\ BareInv'
<1>1. /\ job[j].result = "new" /\ job'[j].pc = "look"
      /\ \A i \in Jobs \ {j} : Stands(i)
      /\ UNCHANGED <<content, private>>
  BY DEF Begins
<1>2. DatabaseInv'
  BY <1>1 DEF DatabaseInv, Stands, StopsAs, Keeps, Active
<1>3. ASSUME NEW p \in Places, Bare(p)' PROVE \E i \in Jobs : OwesChmod(i, p)'
  <2>1. Bare(p)
    BY <1>1, <1>3 DEF Bare
  <2>2. PICK i \in Jobs : OwesChmod(i, p)
    BY <2>1 DEF BareInv
  <2>3. i # j
    BY <1>1, <2>2 DEF OwesChmod
  <2> QED
    BY <1>1, <2>2, <2>3 DEF OwesChmod, Stands, StopsAs, Keeps
<1>4. BareInv'
  BY <1>3 DEF BareInv, Places
<1> QED
  BY <1>2, <1>4

\* The strict permissions that racing deployments can defeat hold as long as one
\* command at a time is running: each may fail, and the next one take over.
THEOREM StrictOneAtATime == DeploySpec /\ []OneAtATime => []StrictPermissions
<1>1. DeployInit => DatabaseInv /\ BareInv
  BY DEF DeployInit, NotBegun, DatabaseInv, BareInv, Bare, Active
<1>2. DeployInv /\ OneAtATime /\ DatabaseInv /\ BareInv /\ [DeployNext]_deployVars
        => DatabaseInv' /\ BareInv'
  <2> SUFFICES ASSUME DeployInv, OneAtATime, DatabaseInv, BareInv,
                      [DeployNext]_deployVars
               PROVE  DatabaseInv' /\ BareInv'
    OBVIOUS
  <2>1. CASE UNCHANGED deployVars
    BY <2>1 DEF deployVars, DatabaseInv, BareInv, Bare, OwesChmod, Active, Here,
       Kind, Place, Places
  <2>2. ASSUME NEW j \in Jobs, Acts(j) PROVE DatabaseInv' /\ BareInv'
    BY <2>2, PrivacyStep
  <2>3. ASSUME NEW j \in Jobs, NEW c \in Commands, NEW d \in Dirs, Begin(j, c, d)
        PROVE  DatabaseInv' /\ BareInv'
    BY <2>3, BeginsRecord, PrivacyBegin
  <2> QED
    BY <2>1, <2>2, <2>3 DEF DeployNext, Acts
<1>3. DeployInv /\ BareInv => StrictPermissions
  BY DEF DeployInv, ExposedInv, Exposed, OwesMode, BareInv, Bare, OwesChmod,
     StrictPermissions, There
<1> QED
  BY <1>1, <1>2, <1>3, DeployInvariance, PTL DEF DeploySpec

=============================================================================
