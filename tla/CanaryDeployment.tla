-------------------------- MODULE CanaryDeployment --------------------------
(***************************************************************************)
(* canary/deployer.py and canary/registry.py under the commands that use   *)
(* them: `deceptenv init`, `clean` and the start of `run` (cli.py), and    *)
(* the dashboard's /api/init and /api/clean (web.py).  A job is one        *)
(* execution of a command.  Its system calls are single steps: jobs        *)
(* interleave between any two of them, and a job may be killed there.      *)
(* mkdir and permissions of directories are left out.                      *)
(***************************************************************************)
EXTENDS Integers, Sequences

CONSTANTS
  Jobs,     \* executions of a command
  Kinds,    \* canaries deployed, a subset of AllKinds
  Dirs,     \* working directories a command may be run in
  NoFile    \* no file

AllKinds == {"aws", "chrome", "env", "sys"}

ASSUME DeploymentAssumption ==
  /\ Kinds \subseteq AllKinds /\ Kinds # {}
  /\ "home" \notin Dirs
  /\ NoFile \notin AllKinds \X (Dirs \cup {"home"})

VARIABLES
  profile,   \* Chrome's profile directory exists
  content,   \* of the file at each place; "none" where there is no file
  private,   \* places whose file has mode 0600
  job,       \* what each job is doing
  solo,      \* history: jobs during which no other job was running
  latest     \* history: the job that began last

deployVars == <<profile, content, private, job, solo, latest>>

\* get_*_path: the .env canary lies under the working directory, and so does
\* Chrome's when there is no profile directory to put it in.
Place(k, d) ==
  IF k = "env" \/ (k = "chrome" /\ ~profile) THEN <<k, d>> ELSE <<k, "home">>

Places == Kinds \X (Dirs \cup {"home"})
There(p) == content[p] # "none"

Commands == {"init", "web_init", "clean", "run"}

\* Fault: clean and run do not search the canary directory.
AgendaWithoutSearch(c) ==
  LET only(k) == IF k \in Kinds THEN <<k>> ELSE <<>>
  IN  CASE c = "init" -> only("aws") \o only("chrome") \o only("env") \o only("sys")
        [] c = "web_init" ->
             only("env") \o only("aws") \o only("chrome") \o only("sys")
        [] c \in {"clean", "run"} -> only("aws") \o only("chrome") \o only("sys")

\* The canaries each command goes through, in its order.  clean and run search
\* the canary directory first, so they may come to Chrome's canary twice.
Agenda(c) ==
  LET only(k) == IF k \in Kinds THEN <<k>> ELSE <<>>
      search == IF profile THEN only("env") ELSE only("chrome") \o only("env")
  IN  CASE c = "init" -> only("aws") \o only("chrome") \o only("env") \o only("sys")
        [] c = "web_init" ->
             only("env") \o only("aws") \o only("chrome") \o only("sys")
        [] c \in {"clean", "run"} ->
             search \o only("aws") \o only("chrome") \o only("sys")

NotBegun == [cmd |-> "none", cwd |-> "home", todo |-> <<>>, pc |-> "look",
             held |-> NoFile, seen |-> {}, result |-> "new"]

Labels == {"look", "overwrite", "create", "write", "chmod", "unlink",
           "connect", "table", "rows", "register", "remove"}

DeployTypeOK ==
  /\ profile \in BOOLEAN
  /\ content \in [Places -> {"none", "empty", "schema", "whole"}]
  /\ private \in SUBSET {p \in Places : There(p)}
  /\ DOMAIN job = Jobs
  /\ \A j \in Jobs :
       /\ job[j].cmd \in Commands \cup {"none"}
       /\ job[j].cwd \in Dirs \cup {"home"}
       /\ job[j].todo \in Seq(Kinds)
       /\ job[j].pc \in Labels
       /\ job[j].held \in Places \cup {NoFile}
       /\ job[j].seen \in SUBSET Places
       /\ job[j].result \in {"new", "running", "ok", "failed", "killed"}
  /\ solo \in SUBSET Jobs
  /\ latest \in Jobs \cup {NoFile}

DeployInit ==
  /\ profile \in BOOLEAN
  /\ content = [p \in Places |-> "none"]
  /\ private = {}
  /\ job = [j \in Jobs |-> NotBegun]
  /\ solo = {}
  /\ latest = NoFile

Active(j) == job[j].result = "running"
Kind(j) == Head(job[j].todo)
Here(j) == Place(Kind(j), job[j].cwd)

\* Job j, of a command in cs, is about to take the step at `label`.
At(j, label, cs) ==
  Active(j) /\ job[j].cmd \in cs /\ job[j].pc = label

Deploying == {"init", "web_init"}

\* The job goes on to another step for the same canary.
Then(j, label) == job' = [job EXCEPT ![j].pc = label]

\* The job has opened the file at its place, and goes on.
Holding(j, label) ==
  job' = [job EXCEPT ![j].pc = label, ![j].held = Here(j)]

\* The job is through with its canary, `noted` are the paths it remembers.
Through(j, noted) ==
  job' = [job EXCEPT ![j].todo = Tail(@), ![j].pc = "look", ![j].held = NoFile,
                     ![j].seen = @ \cup noted,
                     ![j].result = IF Len(job[j].todo) = 1 THEN "ok" ELSE @]

\* An exception nothing on the way handles: the command prints it, or dies.
Fails(j) ==
  job' = [job EXCEPT ![j].result = "failed", ![j].held = NoFile]

Untouched == UNCHANGED <<content, private>>
Constant == UNCHANGED <<profile, solo, latest>>

\* A file comes into being at p, empty and with the umask's permissions.
Created(p) ==
  /\ content' = [content EXCEPT ![p] = "empty"]
  /\ private' = private \ {p}

-----------------------------------------------------------------------------
Begin(j, c, d) ==
  /\ job[j].result = "new"
  /\ job' = [job EXCEPT ![j] = [NotBegun EXCEPT !.cmd = c, !.cwd = d,
                                  !.todo = Agenda(c), !.result = "running"]]
  /\ LET running == {i \in Jobs : Active(i)}
     IN solo' = IF running = {} THEN solo \cup {j} ELSE solo \ running
  /\ latest' = j
  /\ UNCHANGED <<profile, content, private>>

\* The job is killed: what it wrote so far stays.
Killed(j) ==
  /\ Active(j)
  /\ job' = [job EXCEPT ![j].result = "killed", ![j].held = NoFile]
  /\ Untouched /\ Constant

-----------------------------------------------------------------------------
(* _safe_write, for every canary but Chrome's.                             *)

SafeLook(j) ==
  /\ At(j, "look", Deploying) /\ Kind(j) # "chrome"
  /\ Then(j, IF There(Here(j)) THEN "overwrite" ELSE "create")
  /\ Untouched /\ Constant

\* open(final_path, "wb") truncates the file, or creates it if it has gone.
SafeOverwrite(j) ==
  /\ At(j, "overwrite", Deploying)
  /\ content' = [content EXCEPT ![Here(j)] = "empty"]
  /\ UNCHANGED private
  /\ Holding(j, "write")
  /\ Constant

\* open(final_path, "xb"); if the file is there by now, open it with "wb".
SafeCreate(j) ==
  /\ At(j, "create", Deploying) /\ Kind(j) # "chrome"
  /\ IF There(Here(j))
     THEN Then(j, "overwrite") /\ Untouched
     ELSE Holding(j, "write") /\ Created(Here(j))
  /\ Constant

\* Where the job goes when its canary is deployed: only `init` registers.
Deployed(j) ==
  IF job[j].cmd = "init" THEN Then(j, "register") ELSE Through(j, {})

\* Fault: chmod is forgotten.
SafeWriteWithoutChmod(j) ==
  /\ At(j, "write", Deploying)
  /\ content' = IF job[j].held = NoFile THEN content
                ELSE [content EXCEPT ![Here(j)] = "whole"]
  /\ Deployed(j)
  /\ UNCHANGED private /\ Constant

\* The content is written and the file closed, unlinked by now or not.
SafeWrite(j) ==
  /\ At(j, "write", Deploying)
  /\ content' = IF job[j].held = NoFile THEN content
                ELSE [content EXCEPT ![Here(j)] = "whole"]
  /\ Then(j, "chmod")
  /\ UNCHANGED private /\ Constant

\* Fault: a file that has gone by the time of chmod is taken for deployed.
SafeChmodUnchecked(j) ==
  /\ At(j, "chmod", Deploying) /\ Kind(j) # "chrome"
  /\ private' = private \cup {Here(j)}
  /\ Deployed(j)
  /\ UNCHANGED content /\ Constant

SafeChmod(j) ==
  /\ At(j, "chmod", Deploying) /\ Kind(j) # "chrome"
  /\ IF There(Here(j))
     THEN private' = private \cup {Here(j)} /\ Deployed(j)
     ELSE UNCHANGED private /\ Fails(j)
  /\ UNCHANGED content /\ Constant

-----------------------------------------------------------------------------
(* deploy_chrome_cookies.                                                  *)

\* Fault: the previous database is not unlinked.
ChromeLookKeeping(j) ==
  /\ At(j, "look", Deploying) /\ Kind(j) = "chrome"
  /\ Then(j, "create")
  /\ Untouched /\ Constant

ChromeLook(j) ==
  /\ At(j, "look", Deploying) /\ Kind(j) = "chrome"
  /\ Then(j, IF There(Here(j)) THEN "unlink" ELSE "create")
  /\ Untouched /\ Constant

\* After a file at p is unlinked its holders write to a file without a name.
Unlink(j, p, after) ==
  /\ content' = [content EXCEPT ![p] = "none"]
  /\ private' = private \ {p}
  /\ job' = [i \in Jobs |-> IF i = j THEN after
                            ELSE IF job[i].held = p
                                 THEN [job[i] EXCEPT !.held = NoFile]
                                 ELSE job[i]]

ChromeUnlink(j) ==
  /\ At(j, "unlink", Deploying)
  /\ IF There(Here(j))
     THEN Unlink(j, Here(j), [job[j] EXCEPT !.pc = "create"])
     ELSE Fails(j) /\ Untouched
  /\ Constant

\* Fault: a deployment that cannot create its database removes what is there.
ChromeCreateCleaningUp(j) ==
  /\ At(j, "create", Deploying) /\ Kind(j) = "chrome"
  /\ IF There(Here(j))
     THEN Unlink(j, Here(j), [job[j] EXCEPT !.result = "failed"])
     ELSE Then(j, "chmod") /\ Created(Here(j))
  /\ Constant

ChromeCreate(j) ==
  /\ At(j, "create", Deploying) /\ Kind(j) = "chrome"
  /\ IF There(Here(j))
     THEN Fails(j) /\ Untouched
     ELSE Then(j, "chmod") /\ Created(Here(j))
  /\ Constant

ChromeChmod(j) ==
  /\ At(j, "chmod", Deploying) /\ Kind(j) = "chrome"
  /\ IF There(Here(j))
     THEN private' = private \cup {Here(j)} /\ Then(j, "connect")
     ELSE UNCHANGED private /\ Fails(j)
  /\ UNCHANGED content /\ Constant

\* sqlite3.connect opens the file, and creates one where there is none.
ChromeConnect(j) ==
  /\ At(j, "connect", Deploying)
  /\ IF There(Here(j)) THEN Untouched ELSE Created(Here(j))
  /\ Holding(j, "table")
  /\ Constant

\* CREATE TABLE commits by itself.  It fails on a table that exists, and
\* SQLite refuses to write to a database file that has been unlinked.
ChromeTable(j) ==
  /\ At(j, "table", Deploying)
  /\ IF job[j].held # NoFile /\ content[Here(j)] = "empty"
     THEN content' = [content EXCEPT ![Here(j)] = "schema"] /\ Then(j, "rows")
     ELSE UNCHANGED content /\ Fails(j)
  /\ UNCHANGED private /\ Constant

\* Fault: the commit is missing.
ChromeRowsUncommitted(j) ==
  /\ At(j, "rows", Deploying)
  /\ IF job[j].held # NoFile THEN Deployed(j) ELSE Fails(j)
  /\ Untouched /\ Constant

\* The three rows, in one transaction.
ChromeRows(j) ==
  /\ At(j, "rows", Deploying)
  /\ IF job[j].held # NoFile
     THEN content' = [content EXCEPT ![Here(j)] = "whole"] /\ Deployed(j)
     ELSE UNCHANGED content /\ Fails(j)
  /\ UNCHANGED private /\ Constant

-----------------------------------------------------------------------------
(* CanaryRegistry.register, and the commands that look for canaries.       *)

\* Fault: a path that is registered already is an error for the caller, too.
RegisterOnce(j) ==
  /\ At(j, "register", {"init", "run"})
  /\ IF Here(j) \notin job[j].seen /\ There(Here(j))
     THEN Through(j, {Here(j)})
     ELSE Fails(j)
  /\ Untouched /\ Constant

\* Each command has a registry of its own.  A path that is registered already
\* is skipped; hashing a file that has gone raises, and nobody handles that.
Register(j) ==
  /\ At(j, "register", {"init", "run"})
  /\ IF Here(j) \in job[j].seen \/ There(Here(j))
     THEN Through(j, {Here(j)})
     ELSE Fails(j)
  /\ Untouched /\ Constant

\* exists() or is_file(), for run and clean.
Find(j) ==
  /\ At(j, "look", {"clean", "run"})
  /\ IF There(Here(j)) /\ (job[j].cmd = "clean" => Here(j) \notin job[j].seen)
     THEN Then(j, IF job[j].cmd = "clean" THEN "remove" ELSE "register")
     ELSE Through(j, {})
  /\ Untouched /\ Constant

\* path.unlink(missing_ok=True).
CleanRemove(j) ==
  /\ At(j, "remove", {"clean"})
  /\ Unlink(j, Here(j),
            [job[j] EXCEPT !.todo = Tail(@), !.pc = "look",
                           !.seen = @ \cup {Here(j)},
                           !.result = IF Len(job[j].todo) = 1 THEN "ok" ELSE @])
  /\ Constant

JobStep(j) ==
  \/ SafeLook(j) \/ SafeOverwrite(j) \/ SafeCreate(j) \/ SafeWrite(j)
  \/ SafeChmod(j)
  \/ ChromeLook(j) \/ ChromeUnlink(j) \/ ChromeCreate(j) \/ ChromeChmod(j)
  \/ ChromeConnect(j) \/ ChromeTable(j) \/ ChromeRows(j)
  \/ Register(j) \/ Find(j) \/ CleanRemove(j)

DeployNext ==
  \E j \in Jobs :
    \/ \E c \in Commands, d \in Dirs : Begin(j, c, d)
    \/ Killed(j) \/ JobStep(j)

DeploySpec == DeployInit /\ [][DeployNext]_deployVars

-----------------------------------------------------------------------------
(* Properties.                                                             *)

\* Some deployment that is still under way, or was killed, is at place p and
\* has come to one of the given steps.
OwedBySomeone(p, labels) ==
  \E j \in Jobs :
    /\ job[j].result \in {"running", "killed"} /\ job[j].todo # <<>>
    /\ Here(j) = p /\ job[j].pc \in labels

\* Whatever the commands do to each other, a canary without its content is one
\* that a deployment is still writing, or was killed while writing.
NeverLeftPartial ==
  \A p \in Places :
    content[p] \in {"empty", "schema"} =>
      OwedBySomeone(p, {"write", "chmod", "connect", "table", "rows"})

\* The same for the 0600 permissions of the canaries _safe_write creates.
ExposedOnlyWhileWritten ==
  \A p \in Places :
    p[1] # "chrome" /\ There(p) /\ p \notin private =>
      OwedBySomeone(p, {"write", "chmod"})

\* No other job ran beside j, and none has begun since.
Alone(j) == j = latest /\ j \in solo

\* A deployment nobody interferes with succeeds and arms every canary, over
\* whatever earlier jobs, killed ones included, have left behind.
SoloInitArms ==
  \A j \in Jobs : Alone(j) /\ job[j].cmd \in Deploying =>
    /\ job[j].result # "failed"
    /\ job[j].result = "ok" =>
         \A k \in Kinds : LET p == Place(k, job[j].cwd) IN
           content[p] = "whole" /\ p \in private

\* A clean nobody interferes with leaves no canary of its working directory or
\* the home directory behind.
SoloCleanRemoves ==
  \A j \in Jobs : Alone(j) /\ job[j].cmd = "clean" /\ job[j].result = "ok" =>
    \A k \in Kinds : ~There(Place(k, job[j].cwd))

\* A start of `run` nobody interferes with registers exactly the canaries that
\* are there, though its search may come to one of them twice.
SoloRunRegisters ==
  \A j \in Jobs : Alone(j) /\ job[j].cmd = "run" =>
    /\ job[j].result # "failed"
    /\ job[j].result = "ok" =>
         job[j].seen = {p \in {Place(k, job[j].cwd) : k \in Kinds} : There(p)}

\* Deployments that run into each other may fail, but never all of them, and
\* the canaries of those that succeed are whole in the end.
SomeInitWins ==
  /\ \E j \in Jobs : job[j].result # "new"
  /\ \A j \in Jobs : /\ job[j].result \in {"new", "ok", "failed"}
                     /\ job[j].cmd \in Deploying \cup {"none"}
  => /\ \E j \in Jobs : job[j].result = "ok"
     /\ \A j \in Jobs : job[j].result = "ok" =>
          \A k \in Kinds : content[Place(k, job[j].cwd)] = "whole"

\* "strict 0o600 permissions": once every command has ended by itself, no
\* canary is left with other permissions.
StrictPermissions ==
  (\A j \in Jobs : job[j].result \in {"new", "ok", "failed"}) =>
    \A p \in Places : There(p) => p \in private

=============================================================================
