-------------------------------- MODULE Backups --------------------------------
(***************************************************************************)
(* Runs of the backup: an administrator or the cron entry starts one when  *)
(* the table backup_runs shows none in progress; a goroutine packs what is *)
(* to be saved into a staging directory named after the second in which it *)
(* began, copies it to the remote drive, removes old folders there and     *)
(* writes how it ended into the row, all within a time limit.              *)
(***************************************************************************)
EXTENDS Naturals, FiniteSets

CONSTANTS
    Run,         \* ids of runs: a bound
    Trigger,     \* requests and cron jobs that start a run at one time: a bound
    Part,        \* what can be saved: of "db", "uploads" and "configs"
    Available,   \* the parts there are: buckets configured, snapshot mounted
    Scopes,      \* the scopes the settings may hold
    Kept,        \* retention_count
    LastSecond   \* the clock stops there: a bound

ASSUME BackupConstants ==
    /\ Part \subseteq {"db", "uploads", "configs"}
    /\ Available \subseteq Part
    /\ "db" \in Part => "db" \in Available
    /\ Scopes \subseteq SUBSET Part
    /\ Kept \in Nat \ {0}
    /\ LastSecond \in Nat \ {0}

VARIABLES
    now,         \* the clock, in seconds
    status,      \* backup_runs.status; "none" before the row, "deleted" after it
    scope,       \* the scope columns of the row
    path,        \* remote_path: the folder of a successful run
    trigger,     \* where each request to start a run is
    job,         \* the goroutine of each run
    dirs,        \* the staging directories that exist
    stage,       \* what is in them
    remote,      \* what is in the folders on the drive
    overlapped,  \* history: runs whose goroutine met another's
    lost         \* history: runs whose end nobody writes: the UPDATE failed, the
                 \* process stopped, or the INSERT was not known to have succeeded

rows == <<status, scope, path>>
disk == <<dirs, stage>>
vars == <<now, rows, trigger, job, disk, remote, overlapped, lost>>

Second == 1..LastSecond
Status == {"none", "pending", "running", "success", "failed", "deleted"}

\* A file of which only the beginning was produced is "cut".
File  == {"absent", "cut", "whole"}
Empty == [p \in Part |-> "absent"]
Files(f) == {p \in Part : f[p] # "absent"}

\* A goroutine packs while there are parts "todo", then sends; "purge" is what the
\* retention has found to remove.
JobState == [at: {"none", "begin", "stage", "pack", "list", "purge", "fail", "clean"},
             stamp: Second \cup {0},
             todo: SUBSET Part,
             sent: SUBSET Part,
             purge: SUBSET Second,
             expired: BOOLEAN]

NoJob == [at |-> "none", stamp |-> 0, todo |-> {}, sent |-> {}, purge |-> {},
          expired |-> FALSE]

TypeOK ==
    /\ now \in Second
    /\ status \in [Run -> Status]
    /\ scope \in [Run -> SUBSET Part]
    /\ path \in [Run -> Second \cup {0}]
    /\ trigger \in [Trigger -> {"idle", "free"}]
    /\ job \in [Run -> JobState]
    /\ dirs \subseteq Second
    /\ stage \in [Second -> [Part -> File]]
    /\ remote \in [Second -> [Part -> File]]
    /\ overlapped \subseteq Run
    /\ lost \subseteq Run

-----------------------------------------------------------------------------
Init ==
    /\ now = 1
    /\ status = [r \in Run |-> "none"]
    /\ scope = [r \in Run |-> {}]
    /\ path = [r \in Run |-> 0]
    /\ trigger = [t \in Trigger |-> "idle"]
    /\ job = [r \in Run |-> NoJob]
    /\ dirs = {}
    /\ stage = [s \in Second |-> Empty]
    /\ remote = [s \in Second |-> Empty]
    /\ overlapped = {}
    /\ lost = {}

Active == {r \in Run : job[r].at # "none"}

HasRunningBackup == \E r \in Run : status[r] \in {"pending", "running"}

-----------------------------------------------------------------------------
(* Starting a run: RunNow and triggerScheduled.                             *)

\* HasRunningBackup finds none.
Check(t) ==
    /\ trigger[t] = "idle"
    /\ ~HasRunningBackup
    /\ trigger' = [trigger EXCEPT ![t] = "free"]
    /\ UNCHANGED <<now, rows, job, disk, remote, overlapped, lost>>

\* The drive is not connected, or a statement fails.
GiveUp(t) ==
    /\ trigger[t] = "free"
    /\ trigger' = [trigger EXCEPT ![t] = "idle"]
    /\ UNCHANGED <<now, rows, job, disk, remote, overlapped, lost>>

\* CreateRun with the scope of the settings, then the goroutine.
Create(t, r, parts) ==
    /\ trigger[t] = "free"
    /\ status[r] = "none"
    /\ status' = [status EXCEPT ![r] = "pending"]
    /\ scope' = [scope EXCEPT ![r] = parts]
    /\ trigger' = [trigger EXCEPT ![t] = "idle"]
    /\ job' = [job EXCEPT ![r] = [NoJob EXCEPT !.at = "begin",
                                               !.todo = parts \cap Available]]
    /\ overlapped' = IF Active = {} THEN overlapped ELSE overlapped \cup Active \cup {r}
    /\ UNCHANGED <<now, path, disk, remote, lost>>

\* The INSERT is done and its answer lost (a cancelled request, a broken connection):
\* CreateRun reports an error, no goroutine starts, and the row is there.
CreateUnanswered(t, r, parts) ==
    /\ trigger[t] = "free"
    /\ status[r] = "none"
    /\ status' = [status EXCEPT ![r] = "pending"]
    /\ scope' = [scope EXCEPT ![r] = parts]
    /\ trigger' = [trigger EXCEPT ![t] = "idle"]
    /\ lost' = lost \cup {r}
    /\ UNCHANGED <<now, path, job, disk, remote, overlapped>>

-----------------------------------------------------------------------------
(* The goroutine: RunBackup.                                                *)

At(r, where) == job[r].at = where

Goto(r, where) == job' = [job EXCEPT ![r].at = where]

\* UpdateRunStatus, whose error nobody looks at: it fails once the time limit is
\* over, and may fail before.  A row that was deleted is not written.
WriteStatus(r, st) ==
    \/ /\ ~job[r].expired
       /\ status' = [status EXCEPT ![r] = IF @ = "deleted" THEN @ ELSE st]
       /\ path' = [path EXCEPT ![r] = IF status'[r] = "success" THEN job[r].stamp ELSE @]
       /\ UNCHANGED lost
    \/ /\ lost' = IF st = "running" THEN lost ELSE lost \cup {r}
       /\ UNCHANGED <<status, path>>

Begin(r) ==
    /\ At(r, "begin")
    /\ WriteStatus(r, "running")
    /\ Goto(r, "stage")
    /\ UNCHANGED <<now, scope, trigger, disk, remote, overlapped>>

\* MkdirAll accepts a directory that is there, with what is in it.
MakeStage(r) ==
    /\ At(r, "stage")
    /\ \/ /\ dirs' = dirs \cup {now}
          /\ job' = [job EXCEPT ![r].at = "pack", ![r].stamp = now]
       \/ /\ UNCHANGED dirs
          /\ Goto(r, "fail")
    /\ UNCHANGED <<now, rows, trigger, stage, remote, overlapped, lost>>

\* It is the turn of part p: the database, the uploads, the configuration.
Turn(r, p) ==
    /\ At(r, "pack")
    /\ ~job[r].expired
    /\ p \in job[r].todo
    /\ p = "uploads" => "db" \notin job[r].todo
    /\ p = "configs" => job[r].todo = {"configs"}

Pack(r, p, file) ==
    /\ stage' = [stage EXCEPT ![job[r].stamp][p] = file]
    /\ job' = [job EXCEPT ![r].todo = @ \ {p}]
    /\ UNCHANGED <<now, rows, trigger, remote, overlapped, lost>>

\* The exit status of "pg_dump | gzip > file" is that of gzip: when pg_dump fails
\* the file is cut and the command succeeds.
Dump(r) ==
    /\ Turn(r, "db")
    /\ job[r].stamp \in dirs
    /\ \E file \in {"cut", "whole"} : Pack(r, "db", file)
    /\ UNCHANGED dirs

\* mirrorUploads makes its directory, and with it the staging directory.
Mirror(r) ==
    /\ Turn(r, "uploads")
    /\ Pack(r, "uploads", "whole")
    /\ dirs' = dirs \cup {job[r].stamp}

Archive(r) ==
    /\ Turn(r, "configs")
    /\ job[r].stamp \in dirs
    /\ Pack(r, "configs", "whole")
    /\ UNCHANGED dirs

Sending(r) == At(r, "pack") /\ job[r].todo = {}

\* rclone copy, file by file.
Send(r, p) ==
    /\ Sending(r)
    /\ ~job[r].expired
    /\ p \in Files(stage[job[r].stamp]) \ job[r].sent
    /\ remote' = [remote EXCEPT ![job[r].stamp][p] = stage[job[r].stamp][p]]
    /\ job' = [job EXCEPT ![r].sent = @ \cup {p}]
    /\ UNCHANGED <<now, rows, trigger, disk, overlapped, lost>>

\* Variant with a bug: the error of rclone copy is not looked at.
SentUnchecked(r) ==
    /\ Sending(r)
    /\ Goto(r, "list")
    /\ UNCHANGED <<now, rows, trigger, disk, remote, overlapped, lost>>

\* rclone copy ends well; the size is asked for, whatever the answer.
Sent(r) ==
    /\ Sending(r)
    /\ job[r].stamp \in dirs
    /\ Files(stage[job[r].stamp]) \subseteq job[r].sent
    /\ Goto(r, "list")
    /\ UNCHANGED <<now, rows, trigger, disk, remote, overlapped, lost>>

\* Variant with a bug: an error ends the run without a word.
CommandFailsQuietly(r) ==
    /\ At(r, "pack")
    /\ Goto(r, "clean")
    /\ UNCHANGED <<now, rows, trigger, disk, remote, overlapped, lost>>

\* Variant with a bug: old folders are removed after a failed copy as well.
CommandFailsRetains(r) ==
    /\ At(r, "pack")
    /\ Goto(r, IF Sending(r) THEN "list" ELSE "fail")
    /\ UNCHANGED <<now, rows, trigger, disk, remote, overlapped, lost>>

\* A command of the run fails, or the time limit kills it.
CommandFails(r) ==
    /\ At(r, "pack")
    /\ Goto(r, "fail")
    /\ UNCHANGED <<now, rows, trigger, disk, remote, overlapped, lost>>

Folders == {s \in Second : Files(remote[s]) # {}}

Newer(s) == {x \in Folders : x > s}

\* Variant with a bug: one folder too many is old.
OldOffByOne == {s \in Folders : Cardinality(Newer(s)) + 1 >= Kept}

\* The folders after the Kept newest.
Old == {s \in Folders : Cardinality(Newer(s)) >= Kept}

\* rclone lsf; its failure is a warning.
List(r) ==
    /\ At(r, "list")
    /\ \/ /\ ~job[r].expired
          /\ job' = [job EXCEPT ![r].at = "purge", ![r].purge = Old]
       \/ Goto(r, "purge")
    /\ UNCHANGED <<now, rows, trigger, disk, remote, overlapped, lost>>

\* rclone purge of the next folder, newest first; its failure is a line in the log.
Purge(r) ==
    /\ At(r, "purge")
    /\ \E s \in job[r].purge :
        /\ \A x \in job[r].purge : x <= s
        /\ job' = [job EXCEPT ![r].purge = @ \ {s}]
        /\ \/ ~job[r].expired /\ remote' = [remote EXCEPT ![s] = Empty]
           \/ UNCHANGED remote
    /\ UNCHANGED <<now, rows, trigger, disk, overlapped, lost>>

Succeed(r) ==
    /\ At(r, "purge")
    /\ job[r].purge = {}
    /\ WriteStatus(r, "success")
    /\ Goto(r, "clean")
    /\ UNCHANGED <<now, scope, trigger, disk, remote, overlapped>>

Fail(r) ==
    /\ At(r, "fail")
    /\ WriteStatus(r, "failed")
    /\ Goto(r, "clean")
    /\ UNCHANGED <<now, scope, trigger, disk, remote, overlapped>>

\* The deferred RemoveAll, if the directory was made.
Clean(r) ==
    /\ At(r, "clean")
    /\ dirs' = dirs \ {job[r].stamp}
    /\ stage' = [s \in Second |-> IF s = job[r].stamp THEN Empty ELSE stage[s]]
    /\ job' = [job EXCEPT ![r] = NoJob]
    /\ UNCHANGED <<now, rows, trigger, remote, overlapped, lost>>

\* The time limit of 60 minutes.
Expire(r) ==
    /\ r \in Active
    /\ ~job[r].expired
    /\ job' = [job EXCEPT ![r].expired = TRUE]
    /\ UNCHANGED <<now, rows, trigger, disk, remote, overlapped, lost>>

-----------------------------------------------------------------------------
(* Around the runs.                                                         *)

\* DELETE /admin/backup/runs/{id}, of a run in any state.
DeleteRun(r) ==
    /\ status[r] \notin {"none", "deleted"}
    /\ status' = [status EXCEPT ![r] = "deleted"]
    /\ UNCHANGED <<now, scope, path, trigger, job, disk, remote, overlapped, lost>>

Tick ==
    /\ now < LastSecond
    /\ now' = now + 1
    /\ UNCHANGED <<rows, trigger, job, disk, remote, overlapped, lost>>

\* The process restarts: goroutines are gone, rows and directories are as they were.
Restart ==
    /\ trigger' = [t \in Trigger |-> "idle"]
    /\ job' = [r \in Run |-> NoJob]
    /\ lost' = lost \cup Active
    /\ UNCHANGED <<now, rows, disk, remote, overlapped>>

Next ==
    \/ \E t \in Trigger : Check(t) \/ GiveUp(t)
    \/ \E t \in Trigger, r \in Run, parts \in Scopes :
           Create(t, r, parts) \/ CreateUnanswered(t, r, parts)
    \/ \E r \in Run :
        \/ Begin(r) \/ MakeStage(r)
        \/ Dump(r) \/ Mirror(r) \/ Archive(r)
        \/ (\E p \in Part : Send(r, p)) \/ Sent(r) \/ CommandFails(r)
        \/ List(r) \/ Purge(r)
        \/ Succeed(r) \/ Fail(r) \/ Clean(r)
        \/ Expire(r) \/ DeleteRun(r)
    \/ Tick
    \/ Restart

Spec == Init /\ [][Next]_vars

-----------------------------------------------------------------------------
\* A run that met no other and is recorded as a success left a file for every part
\* of its scope that there is in its folder, unless retention has removed the
\* folder since for the sake of Kept newer ones.
SuccessIsComplete ==
    \A r \in Run : status[r] = "success" /\ r \notin overlapped =>
        \/ scope[r] \cap Available \subseteq Files(remote[path[r]])
        \/ Cardinality(Newer(path[r])) >= Kept

\* No folder is removed unless Kept newer ones are there, also when runs overlap and
\* what one listed is old news when it purges.
KeepsNewest ==
    [][\A s \in Folders \ Folders' : Cardinality(Newer(s)) >= Kept]_vars

\* While runs do not overlap, once one has succeeded there is on the drive a folder
\* with all that some run was to save, whatever incomplete folders failed runs leave:
\* only a run whose own folder is complete, and is the newest, removes others.
GoodBackupRemains ==
    overlapped = {} /\ (\E r \in Run : status[r] = "success") =>
        \E r \in Run, s \in Second :
            /\ status[r] # "none"
            /\ scope[r] \cap Available \subseteq Files(remote[s])

\* Every way through RunBackup writes how the run ended: a row says that it is in
\* progress only while it is, or when that write or the answer to the INSERT was lost
\* or the process restarted.
StuckRunsExplained ==
    \A r \in Run : status[r] \in {"pending", "running"} => r \in Active \cup lost

\* "pg_dump failed" (backup_service.go:109-110) and the comment "dump Postgres [...]
\* then push everything" (lines 21-23): a success with the database in its scope
\* has put a whole dump into its folder.
SuccessHasWholeDump ==
    \A r \in Run : status[r] = "success" /\ "db" \in scope[r] /\ r \notin overlapped =>
        remote[path[r]]["db"] \in {"absent", "whole"}
================================================================================
