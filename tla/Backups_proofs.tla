---------------------------- MODULE Backups_proofs ----------------------------
(***************************************************************************)
(* Proofs about the backups, for any number of runs, of requests that      *)
(* start them and of folders to keep: types, StuckRunsExplained,           *)
(* KeepsNewest, SuccessIsComplete and GoodBackupRemains.  The last section *)
(* is about their scheduler (BackupScheduler), for any cron expressions and *)
(* any number of entry ids: types, NoForgottenEntry and FiresWhatWasRead.  *)
(***************************************************************************)
EXTENDS Backups, BackupScheduler, FiniteSetTheorems, TLAPS

\* A run packs, sends and removes only after its staging directory got its name,
\* and a success names the folder it has filled.
StampsInv ==
    /\ \A r \in Run : job[r].at \in {"pack", "list", "purge"} => job[r].stamp \in Second
    /\ \A r \in Run : status[r] = "success" => path[r] \in Second

TypeInv == TypeOK /\ StampsInv

\* A goroutine that has only to clean up has written how it ended, or tried to.
EndWritten ==
    \A r \in Run : At(r, "clean") => status[r] \notin {"pending", "running"} \/ r \in lost

\* What a run has found to remove stays old, whatever other runs send or remove.
PurgeInv ==
    \A r \in Run : \A s \in job[r].purge :
        At(r, "purge") /\ Cardinality(Newer(s)) >= Kept

\* No folder is of the future, and a goroutine's row is there or was.
ClockInv ==
    /\ \A s \in Folders : s <= now
    /\ \A r \in Active : job[r].stamp <= now /\ status[r] # "none"

Wanted(r) == scope[r] \cap Available

\* A run that met no other is the only one. What is not packed yet it has still to
\* do, what it sent is in its folder, and from the listing on the folder has all that
\* was wanted. No folder is newer than its own, so that it is not going to remove it.
OnItsWay(r) ==
    /\ job[r].at \in {"begin", "stage"} => Wanted(r) \subseteq job[r].todo /\ job[r].sent = {}
    /\ At(r, "pack") =>
           /\ Wanted(r) \ job[r].todo \subseteq Files(stage[job[r].stamp])
           /\ job[r].sent \subseteq Files(remote[job[r].stamp])
    /\ job[r].at \in {"list", "purge"} => Wanted(r) \subseteq Files(remote[job[r].stamp])
    /\ job[r].at \in {"pack", "list", "purge"} => \A s \in Folders : s <= job[r].stamp
    /\ job[r].stamp \notin job[r].purge

AloneInv == \A r \in Active \ overlapped : Active = {r} /\ OnItsWay(r)


-----------------------------------------------------------------------------
(* Jobs as records. *)

LEMMA JobFields ==
    ASSUME TypeOK, NEW r \in Run
    PROVE  /\ job[r] \in JobState
           /\ job[r].at \in {"none", "begin", "stage", "pack", "list", "purge", "fail",
                             "clean"}
           /\ job[r].stamp \in Second \cup {0}
           /\ job[r].todo \subseteq Part
           /\ job[r].sent \subseteq Part
           /\ job[r].purge \subseteq Second
           /\ job[r].expired \in BOOLEAN
BY DEF TypeOK, JobState

LEMMA NoJobFields ==
    /\ NoJob \in JobState
    /\ NoJob.at = "none" /\ NoJob.stamp = 0 /\ NoJob.purge = {} /\ NoJob.sent = {}
BY DEF NoJob, JobState

Places == {"stage", "pack", "list", "purge", "fail", "clean"}

\* A job that goes on to another place.
LEMMA JobMoves ==
    ASSUME NEW x \in JobState, NEW where \in Places
    PROVE  /\ [x EXCEPT !.at = where] \in JobState
           /\ [x EXCEPT !.at = where].at = where
           /\ [x EXCEPT !.at = where].stamp = x.stamp
           /\ [x EXCEPT !.at = where].todo = x.todo
           /\ [x EXCEPT !.at = where].sent = x.sent
           /\ [x EXCEPT !.at = where].purge = x.purge
BY DEF JobState, Places

\* What a step leaves alone that changes the job of r only.
OthersKept(r) == \A q \in Run \ {r} : job'[q] = job[q]

LEMMA GotoKeeps ==
    ASSUME TypeOK, NEW r \in Run, NEW where \in Places, Goto(r, where)
    PROVE  /\ job' \in [Run -> JobState]
           /\ OthersKept(r)
           /\ job'[r].at = where /\ job'[r].stamp = job[r].stamp
           /\ job'[r].todo = job[r].todo /\ job'[r].sent = job[r].sent
           /\ job'[r].purge = job[r].purge
<1>1. job' = [job EXCEPT ![r] = [job[r] EXCEPT !.at = where]]
    BY DEF Goto
<1>2. job[r] \in JobState
    BY JobFields
<1> DEFINE x == [job[r] EXCEPT !.at = where]
<1>3. /\ x \in JobState /\ x.at = where /\ x.stamp = job[r].stamp
      /\ x.todo = job[r].todo /\ x.sent = job[r].sent /\ x.purge = job[r].purge
    BY <1>2, JobMoves
<1> HIDE DEF x
<1>4. job' = [job EXCEPT ![r] = x]
    BY <1>1 DEF x
<1>5. job'[r] = x /\ job' \in [Run -> JobState] /\ OthersKept(r)
    BY <1>3, <1>4 DEF TypeOK, OthersKept
<1> QED BY <1>3, <1>5

LEMMA CreateKeeps ==
    ASSUME TypeOK, NEW t \in Trigger, NEW r \in Run,
           NEW parts \in Scopes, Create(t, r, parts)
    PROVE  /\ job' \in [Run -> JobState]
           /\ OthersKept(r)
           /\ job'[r].at = "begin" /\ job'[r].stamp = 0
           /\ job'[r].todo = parts \cap Available /\ job'[r].sent = {}
           /\ job'[r].purge = {}
<1> DEFINE x == [NoJob EXCEPT !.at = "begin", !.todo = parts \cap Available]
<1>1. parts \cap Available \subseteq Part
    BY BackupConstants
<1>2. /\ x \in JobState /\ x.at = "begin" /\ x.stamp = 0
      /\ x.todo = parts \cap Available /\ x.sent = {} /\ x.purge = {}
    BY <1>1 DEF NoJob, JobState
<1>3. job' = [job EXCEPT ![r] = x]
    BY DEF Create
<1> HIDE DEF x
<1>4. job'[r] = x /\ job' \in [Run -> JobState] /\ OthersKept(r)
    BY <1>2, <1>3 DEF TypeOK, OthersKept
<1> QED BY <1>2, <1>4

\* MakeStage, Pack, Send, List, Purge and Expire: the stamp, what is left to do, what
\* was sent, what is to be removed, and the limit.
LEMMA JobLearns ==
    ASSUME TypeOK, NEW r \in Run, NEW x, job' = [job EXCEPT ![r] = x], x \in JobState
    PROVE  job' \in [Run -> JobState] /\ OthersKept(r) /\ job'[r] = x
BY DEF TypeOK, OthersKept

LEMMA MakeStageKeeps ==
    ASSUME TypeOK, NEW r \in Run,
           job' = [job EXCEPT ![r].at = "pack", ![r].stamp = now]
    PROVE  /\ job' \in [Run -> JobState]
           /\ OthersKept(r)
           /\ job'[r].at = "pack" /\ job'[r].stamp = now
           /\ job'[r].todo = job[r].todo /\ job'[r].sent = job[r].sent
           /\ job'[r].purge = job[r].purge
<1> DEFINE x == [job[r] EXCEPT !.at = "pack", !.stamp = now]
<1>1. /\ x \in JobState /\ x.at = "pack" /\ x.stamp = now
      /\ x.todo = job[r].todo /\ x.sent = job[r].sent /\ x.purge = job[r].purge
  <2>1. job[r] \in JobState /\ now \in Second
      BY DEF TypeOK
  <2> QED BY <2>1 DEF JobState
<1>2. job' = [job EXCEPT ![r] = x]
    OBVIOUS
<1> HIDE DEF x
<1> QED BY <1>1, <1>2, JobLearns

LEMMA PackKeeps ==
    ASSUME TypeOK, NEW r \in Run, NEW p,
           job' = [job EXCEPT ![r].todo = @ \ {p}]
    PROVE  /\ job' \in [Run -> JobState]
           /\ OthersKept(r)
           /\ job'[r].at = job[r].at /\ job'[r].stamp = job[r].stamp
           /\ job'[r].todo = job[r].todo \ {p} /\ job'[r].sent = job[r].sent
           /\ job'[r].purge = job[r].purge
<1> DEFINE x == [job[r] EXCEPT !.todo = job[r].todo \ {p}]
<1>1. /\ x \in JobState /\ x.at = job[r].at /\ x.stamp = job[r].stamp
      /\ x.todo = job[r].todo \ {p} /\ x.sent = job[r].sent /\ x.purge = job[r].purge
  <2>1. job[r] \in JobState
      BY DEF TypeOK
  <2> QED BY <2>1 DEF JobState
<1>2. job' = [job EXCEPT ![r] = x]
    OBVIOUS
<1> HIDE DEF x
<1> QED BY <1>1, <1>2, JobLearns

LEMMA SendKeeps ==
    ASSUME TypeOK, NEW r \in Run, NEW p \in Part,
           job' = [job EXCEPT ![r].sent = @ \cup {p}]
    PROVE  /\ job' \in [Run -> JobState]
           /\ OthersKept(r)
           /\ job'[r].at = job[r].at /\ job'[r].stamp = job[r].stamp
           /\ job'[r].todo = job[r].todo /\ job'[r].sent = job[r].sent \cup {p}
           /\ job'[r].purge = job[r].purge
<1> DEFINE x == [job[r] EXCEPT !.sent = job[r].sent \cup {p}]
<1>1. /\ x \in JobState /\ x.at = job[r].at /\ x.stamp = job[r].stamp
      /\ x.todo = job[r].todo /\ x.sent = job[r].sent \cup {p} /\ x.purge = job[r].purge
  <2>1. job[r] \in JobState
      BY DEF TypeOK
  <2> QED BY <2>1 DEF JobState
<1>2. job' = [job EXCEPT ![r] = x]
    OBVIOUS
<1> HIDE DEF x
<1> QED BY <1>1, <1>2, JobLearns

LEMMA ListKeeps ==
    ASSUME TypeOK, NEW r \in Run,
           job' = [job EXCEPT ![r].at = "purge", ![r].purge = Old]
    PROVE  /\ job' \in [Run -> JobState]
           /\ OthersKept(r)
           /\ job'[r].at = "purge" /\ job'[r].stamp = job[r].stamp
           /\ job'[r].todo = job[r].todo /\ job'[r].sent = job[r].sent
           /\ job'[r].purge = Old
<1>0. Old \subseteq Second
    BY DEF Old, Folders
<1> DEFINE x == [job[r] EXCEPT !.at = "purge", !.purge = Old]
<1>1. /\ x \in JobState /\ x.at = "purge" /\ x.stamp = job[r].stamp
      /\ x.todo = job[r].todo /\ x.sent = job[r].sent /\ x.purge = Old
  <2>1. job[r] \in JobState
      BY DEF TypeOK
  <2> QED BY <1>0, <2>1 DEF JobState
<1>2. job' = [job EXCEPT ![r] = x]
    OBVIOUS
<1> HIDE DEF x
<1> QED BY <1>1, <1>2, JobLearns

LEMMA PurgeKeeps ==
    ASSUME TypeOK, NEW r \in Run, NEW s,
           job' = [job EXCEPT ![r].purge = @ \ {s}]
    PROVE  /\ job' \in [Run -> JobState]
           /\ OthersKept(r)
           /\ job'[r].at = job[r].at /\ job'[r].stamp = job[r].stamp
           /\ job'[r].todo = job[r].todo /\ job'[r].sent = job[r].sent
           /\ job'[r].purge = job[r].purge \ {s}
<1> DEFINE x == [job[r] EXCEPT !.purge = job[r].purge \ {s}]
<1>1. /\ x \in JobState /\ x.at = job[r].at /\ x.stamp = job[r].stamp
      /\ x.todo = job[r].todo /\ x.sent = job[r].sent /\ x.purge = job[r].purge \ {s}
  <2>1. job[r] \in JobState
      BY DEF TypeOK
  <2> QED BY <2>1 DEF JobState
<1>2. job' = [job EXCEPT ![r] = x]
    OBVIOUS
<1> HIDE DEF x
<1> QED BY <1>1, <1>2, JobLearns

LEMMA ExpireKeeps ==
    ASSUME TypeOK, NEW r \in Run,
           job' = [job EXCEPT ![r].expired = TRUE]
    PROVE  /\ job' \in [Run -> JobState]
           /\ OthersKept(r)
           /\ job'[r].at = job[r].at /\ job'[r].stamp = job[r].stamp
           /\ job'[r].todo = job[r].todo /\ job'[r].sent = job[r].sent
           /\ job'[r].purge = job[r].purge
<1> DEFINE x == [job[r] EXCEPT !.expired = TRUE]
<1>1. /\ x \in JobState /\ x.at = job[r].at /\ x.stamp = job[r].stamp
      /\ x.todo = job[r].todo /\ x.sent = job[r].sent /\ x.purge = job[r].purge
  <2>1. job[r] \in JobState
      BY DEF TypeOK
  <2> QED BY <2>1 DEF JobState
<1>2. job' = [job EXCEPT ![r] = x]
    OBVIOUS
<1> HIDE DEF x
<1> QED BY <1>1, <1>2, JobLearns

-----------------------------------------------------------------------------
(* Rows and files. *)

LEMMA WriteKeeps ==
    ASSUME TypeOK, NEW r \in Run, NEW st \in {"running", "success", "failed"},
           WriteStatus(r, st)
    PROVE  /\ status' \in [Run -> Status] /\ path' \in [Run -> Second \cup {0}]
           /\ lost' \subseteq Run /\ lost \subseteq lost'
           /\ \A q \in Run \ {r} : status'[q] = status[q] /\ path'[q] = path[q]
           /\ \/ /\ status[r] # "deleted" /\ status'[r] = st
                 /\ path'[r] = IF st = "success" THEN job[r].stamp ELSE path[r]
              \/ status[r] = "deleted" /\ status'[r] = "deleted"
              \/ /\ status'[r] = status[r] /\ path'[r] = path[r]
                 /\ st # "running" => r \in lost'
<1>1. CASE /\ status' = [status EXCEPT ![r] = IF @ = "deleted" THEN @ ELSE st]
           /\ path' = [path EXCEPT ![r] = IF status'[r] = "success" THEN job[r].stamp ELSE @]
           /\ UNCHANGED lost
  <2>1. job[r].stamp \in Second \cup {0}
      BY JobFields
  <2>2. status' \in [Run -> Status] /\ path' \in [Run -> Second \cup {0}]
      BY <1>1, <2>1 DEF TypeOK, Status
  <2>3. /\ \A q \in Run \ {r} : status'[q] = status[q] /\ path'[q] = path[q]
        /\ status'[r] = IF status[r] = "deleted" THEN "deleted" ELSE st
        /\ path'[r] = IF status'[r] = "success" THEN job[r].stamp ELSE path[r]
      BY <1>1 DEF TypeOK
  <2> QED BY <1>1, <2>2, <2>3 DEF TypeOK
<1>2. CASE /\ lost' = IF st = "running" THEN lost ELSE lost \cup {r}
           /\ UNCHANGED <<status, path>>
    BY <1>2 DEF TypeOK
<1> QED BY <1>1, <1>2 DEF WriteStatus

\* One file of one folder, on the disk or on the drive.
LEMMA FilesType ==
    ASSUME NEW f \in [Second -> [Part -> File]], NEW s, NEW p, NEW file \in File
    PROVE  [f EXCEPT ![s][p] = file] \in [Second -> [Part -> File]]
<1>1. CASE s \in Second
  <2>1. [f[s] EXCEPT ![p] = file] \in [Part -> File]
      BY <1>1
  <2> QED BY <2>1
<1>2. CASE s \notin Second
    BY <1>2
<1> QED BY <1>1, <1>2

LEMMA EmptyType == Empty \in [Part -> File]
BY DEF Empty, File

\* The variables have the types TypeOK gives them, and whoever fills a folder or is
\* recorded as a success has one.
THEOREM TypeCorrect == Spec => []TypeInv
<1>1. Init => TypeInv
    BY BackupConstants, NoJobFields, EmptyType DEF Init, TypeInv, TypeOK, StampsInv, Second, Status
<1>2. TypeInv /\ [Next]_vars => TypeInv'
  <2> SUFFICES ASSUME TypeInv, [Next]_vars PROVE TypeInv'
      OBVIOUS
  <2> USE DEF TypeInv
  <2>1. ASSUME NEW t \in Trigger, Check(t) \/ GiveUp(t) PROVE TypeInv'
    <3>1. trigger' \in [Trigger -> {"idle", "free"}]
        BY <2>1 DEF Check, GiveUp, TypeOK
    <3> QED BY <2>1, <3>1 DEF Check, GiveUp, TypeOK, StampsInv, rows, disk
  <2>2. ASSUME NEW t \in Trigger, NEW r \in Run, NEW parts \in Scopes, Create(t, r, parts)
        PROVE  TypeInv'
    <3>1. job' \in [Run -> JobState] /\ OthersKept(r) /\ job'[r].at = "begin"
        BY <2>2, CreateKeeps
    <3>2. parts \in SUBSET Part
        BY BackupConstants
    <3>3. /\ status' \in [Run -> Status] /\ scope' \in [Run -> SUBSET Part]
          /\ trigger' \in [Trigger -> {"idle", "free"}]
          /\ overlapped' \subseteq Run
        BY <2>2, <3>2 DEF Create, TypeOK, Status, Active
    <3>4. \A q \in Run : status'[q] = "success" => status[q] = "success"
        BY <2>2 DEF Create, TypeOK
    <3> QED BY <2>2, <3>1, <3>3, <3>4 DEF Create, TypeOK, StampsInv, OthersKept, disk
  <2>3. ASSUME NEW r \in Run, Begin(r) PROVE TypeInv'
    <3>1. job' \in [Run -> JobState] /\ OthersKept(r) /\ job'[r].at = "stage"
        BY <2>3, GotoKeeps DEF Begin, Places
    <3>2. /\ status' \in [Run -> Status] /\ path' \in [Run -> Second \cup {0}]
          /\ lost' \subseteq Run
          /\ \A q \in Run : status'[q] = "success" => status[q] = "success" /\ path'[q] = path[q]
        BY <2>3, WriteKeeps DEF Begin
    <3> QED BY <2>3, <3>1, <3>2 DEF Begin, TypeOK, StampsInv, OthersKept, disk
  <2>4. ASSUME NEW r \in Run, MakeStage(r) PROVE TypeInv'
    <3>1. job' \in [Run -> JobState] /\ OthersKept(r)
          /\ \/ job'[r].at = "pack" /\ job'[r].stamp = now
             \/ job'[r].at = "fail"
        BY <2>4, MakeStageKeeps, GotoKeeps DEF MakeStage, Places
    <3>2. dirs' \subseteq Second /\ now \in Second
        BY <2>4 DEF MakeStage, TypeOK
    <3> QED BY <2>4, <3>1, <3>2 DEF MakeStage, TypeOK, StampsInv, OthersKept, rows
  <2>5. ASSUME NEW r \in Run, Dump(r) \/ Mirror(r) \/ Archive(r) PROVE TypeInv'
    <3> PICK p \in Part, file \in {"cut", "whole"} : Turn(r, p) /\ Pack(r, p, file)
        BY <2>5 DEF Dump, Mirror, Archive, Turn, At, TypeOK, JobState
    <3>1. /\ job' \in [Run -> JobState] /\ OthersKept(r)
          /\ job'[r].at = job[r].at /\ job'[r].stamp = job[r].stamp
        BY PackKeeps DEF Pack
    <3>2. stage' \in [Second -> [Part -> File]]
        BY FilesType DEF Pack, TypeOK, File
    <3>3. dirs' \subseteq Second
        BY <2>5 DEF Dump, Mirror, Archive, Turn, At, TypeOK, StampsInv
    <3> QED BY <3>1, <3>2, <3>3 DEF Pack, TypeOK, StampsInv, OthersKept, rows
  <2>6. ASSUME NEW r \in Run, NEW p \in Part, Send(r, p) PROVE TypeInv'
    <3>1. /\ job' \in [Run -> JobState] /\ OthersKept(r)
          /\ job'[r].at = job[r].at /\ job'[r].stamp = job[r].stamp
        BY <2>6, SendKeeps DEF Send
    <3>2. stage[job[r].stamp][p] \in File
        BY <2>6 DEF Send, Sending, At, TypeOK, StampsInv
    <3>3. remote' \in [Second -> [Part -> File]]
        BY <2>6, <3>2, FilesType DEF Send, TypeOK
    <3> QED BY <2>6, <3>1, <3>3 DEF Send, TypeOK, StampsInv, OthersKept, rows, disk
  <2>7. ASSUME NEW r \in Run, Sent(r) \/ CommandFails(r) \/ List(r) PROVE TypeInv'
    <3>1. job[r].at \in {"pack", "list"}
        BY <2>7 DEF Sent, Sending, CommandFails, List, At
    <3>2. job' \in [Run -> JobState] /\ OthersKept(r) /\ job'[r].stamp = job[r].stamp
        BY <2>7, GotoKeeps, ListKeeps DEF Sent, CommandFails, List, Places
    <3> QED BY <2>7, <3>1, <3>2 DEF Sent, CommandFails, List, TypeOK, StampsInv, OthersKept,
                                    rows, disk
  <2>8. ASSUME NEW r \in Run, Purge(r) PROVE TypeInv'
    <3> PICK s \in job[r].purge :
            /\ job' = [job EXCEPT ![r].purge = @ \ {s}]
            /\ \/ remote' = [remote EXCEPT ![s] = Empty]
               \/ UNCHANGED remote
        BY <2>8 DEF Purge
    <3>1. /\ job' \in [Run -> JobState] /\ OthersKept(r)
          /\ job'[r].at = job[r].at /\ job'[r].stamp = job[r].stamp
        BY PurgeKeeps
    <3>2. remote' \in [Second -> [Part -> File]]
        BY EmptyType DEF TypeOK
    <3> QED BY <2>8, <3>1, <3>2 DEF Purge, TypeOK, StampsInv, OthersKept, rows, disk
  <2>9. ASSUME NEW r \in Run, Succeed(r) PROVE TypeInv'
    <3>1. job' \in [Run -> JobState] /\ OthersKept(r) /\ job'[r].at = "clean"
        BY <2>9, GotoKeeps DEF Succeed, Places
    <3>2. job[r].stamp \in Second
        BY <2>9 DEF Succeed, At, StampsInv
    <3>3. /\ status' \in [Run -> Status] /\ path' \in [Run -> Second \cup {0}]
          /\ lost' \subseteq Run
          /\ \A q \in Run : status'[q] = "success" => path'[q] \in Second
        BY <2>9, <3>2, WriteKeeps DEF Succeed, StampsInv
    <3> QED BY <2>9, <3>1, <3>3 DEF Succeed, TypeOK, StampsInv, OthersKept, disk
  <2>10. ASSUME NEW r \in Run, Fail(r) PROVE TypeInv'
    <3>1. job' \in [Run -> JobState] /\ OthersKept(r) /\ job'[r].at = "clean"
        BY <2>10, GotoKeeps DEF Fail, Places
    <3>2. /\ status' \in [Run -> Status] /\ path' \in [Run -> Second \cup {0}]
          /\ lost' \subseteq Run
          /\ \A q \in Run : status'[q] = "success" => path'[q] \in Second
        BY <2>10, WriteKeeps DEF Fail, StampsInv
    <3> QED BY <2>10, <3>1, <3>2 DEF Fail, TypeOK, StampsInv, OthersKept, disk
  <2>11. ASSUME NEW r \in Run, Clean(r) PROVE TypeInv'
    <3>1. job' \in [Run -> JobState] /\ OthersKept(r) /\ job'[r].at = "none"
        BY <2>11, NoJobFields, JobLearns DEF Clean
    <3>2. stage' \in [Second -> [Part -> File]] /\ dirs' \subseteq Second
        BY <2>11, EmptyType DEF Clean, TypeOK
    <3> QED BY <2>11, <3>1, <3>2 DEF Clean, TypeOK, StampsInv, OthersKept, rows
  <2>12. ASSUME NEW r \in Run, Expire(r) PROVE TypeInv'
    <3>1. /\ job' \in [Run -> JobState] /\ OthersKept(r)
          /\ job'[r].at = job[r].at /\ job'[r].stamp = job[r].stamp
        BY <2>12, ExpireKeeps DEF Expire
    <3> QED BY <2>12, <3>1 DEF Expire, TypeOK, StampsInv, OthersKept, rows, disk
  <2>13. ASSUME NEW r \in Run, DeleteRun(r) PROVE TypeInv'
      BY <2>13 DEF DeleteRun, TypeOK, StampsInv, Status, disk
  <2>14. CASE Tick
      BY <2>14, BackupConstants DEF Tick, TypeOK, StampsInv, Second, rows, disk
  <2>15. CASE Restart
    <3>1. \A r \in Run : job'[r] = NoJob
        BY <2>15 DEF Restart
    <3>2. job' \in [Run -> JobState]
        BY <2>15, NoJobFields DEF Restart
    <3> QED BY <2>15, <3>1, <3>2, NoJobFields DEF Restart, TypeOK, StampsInv, Active, rows, disk
  <2>16. CASE UNCHANGED vars
      BY <2>16 DEF vars, TypeOK, StampsInv, rows, disk
  <2>17. ASSUME NEW t \in Trigger, NEW r \in Run, NEW parts \in Scopes,
                CreateUnanswered(t, r, parts)
         PROVE  TypeInv'
    <3>1. parts \in SUBSET Part
        BY BackupConstants
    <3>2. /\ status' \in [Run -> Status] /\ scope' \in [Run -> SUBSET Part]
          /\ trigger' \in [Trigger -> {"idle", "free"}]
          /\ lost' \subseteq Run
        BY <2>17, <3>1 DEF CreateUnanswered, TypeOK, Status
    <3>3. \A q \in Run : status'[q] = "success" => status[q] = "success"
        BY <2>17 DEF CreateUnanswered, TypeOK
    <3> QED BY <2>17, <3>2, <3>3 DEF CreateUnanswered, TypeOK, StampsInv, disk
  <2> QED BY <2>1, <2>2, <2>3, <2>4, <2>5, <2>6, <2>7, <2>8, <2>9, <2>10, <2>11, <2>12,
             <2>13, <2>14, <2>15, <2>16, <2>17 DEF Next
<1> QED BY <1>1, <1>2, PTL DEF Spec

-----------------------------------------------------------------------------
(* How runs end *)

StuckInv == EndWritten /\ StuckRunsExplained

\* A step of a goroutine that stays active and leaves the rows alone.
LEMMA StuckKept ==
    ASSUME TypeInv, StuckInv, NEW r \in Run, OthersKept(r), r \in Active,
           job'[r].at \notin {"none", "clean"}, UNCHANGED <<status, lost>>
    PROVE  StuckInv'
BY DEF StuckInv, EndWritten, StuckRunsExplained, OthersKept, Active, At

\* A row says that a run is in progress only while it is, or when the write of its
\* end was lost or the process restarted: no way through RunBackup forgets it.
THEOREM RunsExplained == Spec => []StuckRunsExplained
<1>1. Init => StuckInv
    BY NoJobFields DEF Init, StuckInv, EndWritten, StuckRunsExplained, At
<1>2. TypeInv /\ StuckInv /\ [Next]_vars => StuckInv'
  <2> SUFFICES ASSUME TypeInv, StuckInv, [Next]_vars PROVE StuckInv'
      OBVIOUS
  <2>0. TypeOK
      BY DEF TypeInv
  <2>1. ASSUME NEW t \in Trigger, NEW r \in Run, NEW parts \in Scopes, Create(t, r, parts)
        PROVE  StuckInv'
    <3>1. OthersKept(r) /\ job'[r].at = "begin"
        BY <2>0, <2>1, CreateKeeps
    <3>2. UNCHANGED lost /\ \A q \in Run \ {r} : status'[q] = status[q]
        BY <2>0, <2>1 DEF Create, TypeOK
    <3> QED BY <3>1, <3>2 DEF StuckInv, EndWritten, StuckRunsExplained, OthersKept, Active, At
  <2>2. ASSUME NEW r \in Run, Begin(r) PROVE StuckInv'
    <3>1. OthersKept(r) /\ job'[r].at = "stage"
        BY <2>0, <2>2, GotoKeeps DEF Begin, Places
    <3>2. lost \subseteq lost' /\ \A q \in Run \ {r} : status'[q] = status[q]
        BY <2>0, <2>2, WriteKeeps DEF Begin
    <3> QED BY <3>1, <3>2 DEF StuckInv, EndWritten, StuckRunsExplained, OthersKept, Active, At
  <2>3. ASSUME NEW r \in Run, Succeed(r) \/ Fail(r) PROVE StuckInv'
    <3>1. OthersKept(r) /\ job'[r].at = "clean"
        BY <2>0, <2>3, GotoKeeps DEF Succeed, Fail, Places
    <3>2. /\ lost \subseteq lost' /\ \A q \in Run \ {r} : status'[q] = status[q]
          /\ status'[r] \in {"success", "failed", "deleted"} \/ r \in lost'
        BY <2>0, <2>3, WriteKeeps DEF Succeed, Fail
    <3> QED BY <3>1, <3>2 DEF StuckInv, EndWritten, StuckRunsExplained, OthersKept, Active, At
  <2>4. ASSUME NEW r \in Run, MakeStage(r) PROVE StuckInv'
    <3>1. OthersKept(r) /\ job'[r].at \in {"pack", "fail"}
        BY <2>0, <2>4, MakeStageKeeps, GotoKeeps DEF MakeStage, Places
    <3> QED BY <2>4, <3>1, StuckKept DEF MakeStage, At, Active, rows
  <2>5. ASSUME NEW r \in Run, Dump(r) \/ Mirror(r) \/ Archive(r) \/ \E p \in Part : Send(r, p)
        PROVE  StuckInv'
    <3>1. OthersKept(r) /\ job'[r].at = job[r].at
      <4>1. CASE Dump(r) \/ Mirror(r) \/ Archive(r)
          BY <2>0, <4>1, PackKeeps DEF Dump, Mirror, Archive, Pack
      <4>2. CASE \E p \in Part : Send(r, p)
          BY <2>0, <4>2, SendKeeps DEF Send
      <4> QED BY <2>5, <4>1, <4>2
    <3> QED BY <2>5, <3>1, StuckKept
            DEF Dump, Mirror, Archive, Turn, Pack, Send, Sending, At, Active, rows
  <2>6. ASSUME NEW r \in Run, Sent(r) \/ CommandFails(r) \/ List(r) PROVE StuckInv'
    <3>1. OthersKept(r) /\ job'[r].at \in {"list", "fail", "purge"}
        BY <2>0, <2>6, ListKeeps, GotoKeeps DEF Sent, CommandFails, List, Places
    <3> QED BY <2>6, <3>1, StuckKept
            DEF Sent, Sending, CommandFails, List, At, Active, rows
  <2>7. ASSUME NEW r \in Run, Purge(r) PROVE StuckInv'
    <3>1. OthersKept(r) /\ job'[r].at = job[r].at
        BY <2>0, <2>7, PurgeKeeps DEF Purge
    <3> QED BY <2>7, <3>1, StuckKept DEF Purge, At, Active, rows
  <2>8. ASSUME NEW r \in Run, Clean(r) PROVE StuckInv'
    <3>1. OthersKept(r) /\ job'[r].at = "none" /\ UNCHANGED <<status, lost>>
        BY <2>0, <2>8, NoJobFields, JobLearns DEF Clean, rows
    <3> QED BY <2>8, <3>1
            DEF Clean, StuckInv, EndWritten, StuckRunsExplained, OthersKept, Active, At
  <2>9. ASSUME NEW r \in Run, Expire(r) PROVE StuckInv'
    <3>1. OthersKept(r) /\ job'[r].at = job[r].at /\ UNCHANGED <<status, lost>>
        BY <2>0, <2>9, ExpireKeeps DEF Expire, rows
    <3> QED BY <3>1 DEF StuckInv, EndWritten, StuckRunsExplained, OthersKept, Active, At
  <2>10. ASSUME NEW r \in Run, DeleteRun(r) PROVE StuckInv'
      BY <2>0, <2>10
         DEF DeleteRun, TypeOK, StuckInv, EndWritten, StuckRunsExplained, Active, At
  <2>11. CASE Restart
      BY <2>11, NoJobFields
         DEF Restart, StuckInv, EndWritten, StuckRunsExplained, Active, At, rows
  <2>12. ASSUME \/ \E t \in Trigger : Check(t) \/ GiveUp(t)
                \/ Tick
                \/ UNCHANGED vars
         PROVE  StuckInv'
    <3>1. UNCHANGED <<status, job, lost>>
        BY <2>12 DEF Check, GiveUp, Tick, vars, rows
    <3> QED BY <3>1 DEF StuckInv, EndWritten, StuckRunsExplained, Active, At
  <2>13. ASSUME NEW t \in Trigger, NEW r \in Run, NEW parts \in Scopes,
                CreateUnanswered(t, r, parts)
         PROVE  StuckInv'
    <3>1. /\ UNCHANGED job /\ lost' = lost \cup {r}
          /\ \A q \in Run \ {r} : status'[q] = status[q]
        BY <2>0, <2>13 DEF CreateUnanswered, TypeOK
    <3> QED BY <3>1 DEF StuckInv, EndWritten, StuckRunsExplained, Active, At
  <2> QED BY <2>1, <2>2, <2>3, <2>4, <2>5, <2>6, <2>7, <2>8, <2>9, <2>10, <2>11, <2>12,
             <2>13 DEF Next
<1>3. StuckInv => StuckRunsExplained
    BY DEF StuckInv
<1> QED BY <1>1, <1>2, <1>3, TypeCorrect, PTL DEF Spec

-----------------------------------------------------------------------------
(* Folders *)

\* Seconds are finitely many, and so are the folders that are newer than one.
LEMMA SecondsFinite ==
    \A S : S \subseteq Second => IsFiniteSet(S) /\ Cardinality(S) \in Nat
<1>1. IsFiniteSet(Second)
    BY BackupConstants, FS_Interval DEF Second
<1> QED BY <1>1, FS_Subset, FS_CardinalityType

LEMMA MoreIsMore ==
    ASSUME NEW S, NEW T, S \subseteq T, T \subseteq Second, Cardinality(S) >= Kept
    PROVE  Cardinality(T) >= Kept
<1>1. IsFiniteSet(T) /\ Cardinality(T) \in Nat /\ Cardinality(S) \in Nat
    BY SecondsFinite
<1>2. Cardinality(S) <= Cardinality(T)
    BY <1>1, FS_Subset
<1> QED BY <1>1, <1>2, BackupConstants

\* A folder that is old stays old when one is added, or an old one is removed: those
\* that make the removed one old are still there.
LEMMA OldStaysOld ==
    ASSUME TypeOK, TypeOK', NEW s \in Second, Cardinality(Newer(s)) >= Kept,
           \A x \in Folders \ Folders' : Cardinality(Newer(x)) >= Kept,
           \A x, y \in Folders \ Folders' : x = y
    PROVE  Cardinality(Newer(s)') >= Kept
<1>0. Folders' \subseteq Second
    BY DEF Folders
<1>1. CASE Newer(s) \subseteq Newer(s)'
    BY <1>0, <1>1, MoreIsMore DEF Newer
<1>2. CASE ~ (Newer(s) \subseteq Newer(s)')
  <2>1. PICK x \in Folders \ Folders' : x > s
      BY <1>2 DEF Newer
  <2>2. \A y \in Newer(x) : y \in Folders' /\ y > s
    <3> SUFFICES ASSUME NEW y \in Newer(x) PROVE y \in Folders' /\ y > s
        OBVIOUS
    <3>1. y \in Folders /\ y > x /\ y # x
        BY <2>1 DEF Newer, Folders, Second
    <3>2. y \in Folders'
        BY <2>1, <3>1
    <3>3. y > s
        BY <2>1, <3>1, BackupConstants DEF Folders, Second
    <3> QED BY <3>2, <3>3
  <2>3. Newer(x) \subseteq Newer(s)'
      BY <2>2 DEF Newer
  <2> QED BY <1>0, <2>1, <2>3, MoreIsMore DEF Newer
<1> QED BY <1>1, <1>2

\* What a step does to the folders: it sends a file, or empties one folder that some
\* run has found to remove, or does nothing to them.
FileSent == \E r \in Run, p \in Part : Send(r, p)

FolderRemoved(r, s) ==
    /\ Purge(r)
    /\ s \in job[r].purge
    /\ remote' = [remote EXCEPT ![s] = Empty]

LEMMA SendAdds ==
    ASSUME TypeInv, NEW r \in Run, NEW p \in Part, Send(r, p)
    PROVE  /\ \A s \in Second : Files(remote[s]) \subseteq Files(remote'[s])
           /\ job[r].stamp \in Second
           /\ p \in Files(remote'[job[r].stamp])
           /\ Folders' = Folders \cup {job[r].stamp}
<1>1. job[r].stamp \in Second
    BY DEF TypeInv, StampsInv, Send, Sending, At
<1>2. /\ stage[job[r].stamp][p] # "absent"
      /\ remote'[job[r].stamp] = [remote[job[r].stamp] EXCEPT ![p] = stage[job[r].stamp][p]]
      /\ \A s \in Second \ {job[r].stamp} : remote'[s] = remote[s]
    BY <1>1 DEF TypeInv, TypeOK, Send, Files
<1>3. remote[job[r].stamp] \in [Part -> File]
    BY <1>1 DEF TypeInv, TypeOK
<1>4. p \in Files(remote'[job[r].stamp])
    BY <1>2, <1>3 DEF Files
<1>5. \A s \in Second : Files(remote[s]) \subseteq Files(remote'[s])
    BY <1>2, <1>3 DEF Files
<1>6. Folders' = Folders \cup {job[r].stamp}
    BY <1>1, <1>2, <1>4, <1>5 DEF Folders
<1> QED BY <1>1, <1>4, <1>5, <1>6

LEMMA RemoteSteps ==
    ASSUME TypeInv, [Next]_vars
    PROVE  \/ UNCHANGED remote
           \/ FileSent
           \/ \E r \in Run, s \in Second : FolderRemoved(r, s)
<1>1. ASSUME NEW r \in Run, Purge(r)
      PROVE  \/ UNCHANGED remote
             \/ \E s \in Second : FolderRemoved(r, s)
    BY <1>1, JobFields DEF Purge, FolderRemoved, TypeInv
<1>2. ASSUME \/ \E t \in Trigger : Check(t) \/ GiveUp(t)
             \/ \E t \in Trigger, r \in Run, parts \in Scopes :
                    Create(t, r, parts) \/ CreateUnanswered(t, r, parts)
             \/ \E r \in Run :
                    \/ Begin(r) \/ MakeStage(r) \/ Dump(r) \/ Mirror(r) \/ Archive(r)
                    \/ Sent(r) \/ CommandFails(r) \/ List(r)
                    \/ Succeed(r) \/ Fail(r) \/ Clean(r) \/ Expire(r) \/ DeleteRun(r)
             \/ Tick \/ Restart \/ UNCHANGED vars
      PROVE  UNCHANGED remote
    BY <1>2 DEF Check, GiveUp, Create, CreateUnanswered, Begin, MakeStage, Dump, Mirror,
                Archive, Pack, Sent, CommandFails, List, Succeed, Fail, Clean, Expire, DeleteRun, Tick, Restart, vars
<1> QED BY <1>1, <1>2 DEF Next, FileSent

\* No step removes a folder that is not old.
LEMMA OnlyOldRemoved ==
    ASSUME TypeInv, PurgeInv, [Next]_vars
    PROVE  /\ \A x \in Folders \ Folders' : Cardinality(Newer(x)) >= Kept
           /\ \A x, y \in Folders \ Folders' : x = y
<1>1. CASE UNCHANGED remote
    BY <1>1 DEF Folders
<1>2. CASE FileSent
    BY <1>2, SendAdds DEF FileSent
<1>3. ASSUME NEW r \in Run, NEW s \in Second, FolderRemoved(r, s)
      PROVE  /\ \A x \in Folders \ Folders' : Cardinality(Newer(x)) >= Kept
             /\ \A x, y \in Folders \ Folders' : x = y
  <2>1. Folders \ Folders' \subseteq {s}
      BY <1>3 DEF FolderRemoved, Folders, TypeInv, TypeOK
  <2>2. Cardinality(Newer(s)) >= Kept
      BY <1>3 DEF FolderRemoved, PurgeInv
  <2> QED BY <2>1, <2>2
<1> QED BY <1>1, <1>2, <1>3, RemoteSteps

\* What the runs have found to remove: a run that lists finds what is old, any other
\* step leaves it at most what it was.
LEMMA PurgeSteps ==
    ASSUME TypeInv, PurgeInv, [Next]_vars, NEW r \in Run
    PROVE  \/ job'[r].purge = {}
           \/ job'[r].at = "purge" /\ job'[r].purge = Old
           \/ job'[r].at = job[r].at /\ job'[r].purge \subseteq job[r].purge
<1>0. TypeOK /\ (~ At(r, "purge") => job[r].purge = {})
    BY DEF TypeInv, PurgeInv
<1>1. CASE UNCHANGED job
    BY <1>1
<1>2. CASE Restart
    BY <1>2, NoJobFields DEF Restart
<1>3. ASSUME NEW q \in Run, OthersKept(q), q # r
      PROVE  job'[r].at = job[r].at /\ job'[r].purge \subseteq job[r].purge
    BY <1>3 DEF OthersKept
<1>4. ASSUME NEW t \in Trigger, NEW q \in Run, NEW parts \in Scopes, Create(t, q, parts)
      PROVE  OthersKept(q) /\ job'[q].purge = {}
    BY <1>0, <1>4, CreateKeeps
<1>5. ASSUME NEW q \in Run,
             Begin(q) \/ MakeStage(q) \/ Sent(q) \/ CommandFails(q) \/ Fail(q) \/ Succeed(q)
      PROVE  OthersKept(q) /\ job'[q].purge = {}
  <2>1. job[q].purge = {}
      BY <1>5 DEF Begin, MakeStage, Sent, Sending, CommandFails, Fail, Succeed, At, PurgeInv
  <2>2. OthersKept(q) /\ job'[q].purge = job[q].purge
      BY <1>0, <1>5, GotoKeeps, MakeStageKeeps
         DEF Begin, MakeStage, Sent, CommandFails, Fail, Succeed, Places
  <2> QED BY <2>1, <2>2
<1>6. ASSUME NEW q \in Run, \/ Dump(q) \/ Mirror(q) \/ Archive(q)
                            \/ \E p \in Part : Send(q, p)
                            \/ Expire(q)
      PROVE  OthersKept(q) /\ job'[q].at = job[q].at /\ job'[q].purge = job[q].purge
  <2>1. CASE Dump(q) \/ Mirror(q) \/ Archive(q)
      BY <1>0, <2>1, PackKeeps DEF Dump, Mirror, Archive, Pack
  <2>2. CASE \E p \in Part : Send(q, p)
      BY <1>0, <2>2, SendKeeps DEF Send
  <2>3. CASE Expire(q)
      BY <1>0, <2>3, ExpireKeeps DEF Expire
  <2> QED BY <1>6, <2>1, <2>2, <2>3
<1>7. ASSUME NEW q \in Run, List(q)
      PROVE  /\ OthersKept(q)
             /\ \/ job'[q].at = "purge" /\ job'[q].purge = Old
                \/ job'[q].purge = {}
  <2>1. job[q].purge = {}
      BY <1>7 DEF List, At, PurgeInv
  <2> QED BY <1>0, <1>7, <2>1, ListKeeps, GotoKeeps DEF List, Places
<1>8. ASSUME NEW q \in Run, Purge(q)
      PROVE  OthersKept(q) /\ job'[q].at = job[q].at /\ job'[q].purge \subseteq job[q].purge
  <2>1. PICK s \in job[q].purge : job' = [job EXCEPT ![q].purge = @ \ {s}]
      BY <1>8 DEF Purge
  <2> QED BY <1>0, <2>1, PurgeKeeps
<1>9. ASSUME NEW q \in Run, Clean(q)
      PROVE  OthersKept(q) /\ job'[q].purge = {}
    BY <1>0, <1>9, NoJobFields, JobLearns DEF Clean
<1>10. ASSUME \/ \E t \in Trigger : Check(t) \/ GiveUp(t)
              \/ \E t \in Trigger, q \in Run, parts \in Scopes : CreateUnanswered(t, q, parts)
              \/ \E q \in Run : DeleteRun(q)
              \/ Tick \/ UNCHANGED vars
       PROVE  UNCHANGED job
    BY <1>10 DEF Check, GiveUp, CreateUnanswered, DeleteRun, Tick, vars
<1> QED BY <1>1, <1>2, <1>3, <1>4, <1>5, <1>6, <1>7, <1>8, <1>9, <1>10 DEF Next

LEMMA PurgeHolds == Spec => []PurgeInv
<1>1. Init => PurgeInv
    BY NoJobFields DEF Init, PurgeInv
<1>2. TypeInv /\ TypeInv' /\ PurgeInv /\ [Next]_vars => PurgeInv'
  <2> SUFFICES ASSUME TypeInv, TypeInv', PurgeInv, [Next]_vars,
                      NEW r \in Run, NEW s \in job'[r].purge
               PROVE  job'[r].at = "purge" /\ Cardinality(Newer(s)') >= Kept
      BY DEF PurgeInv, At
  <2>1. \/ job'[r].at = "purge" /\ s \in Old
        \/ job'[r].at = job[r].at /\ s \in job[r].purge
      BY PurgeSteps
  <2>2. job'[r].at = "purge" /\ s \in Second /\ Cardinality(Newer(s)) >= Kept
      BY <2>1, JobFields DEF Old, Folders, PurgeInv, At, TypeInv
  <2> QED BY <2>2, OnlyOldRemoved, OldStaysOld DEF TypeInv
<1> QED BY <1>1, <1>2, TypeCorrect, PTL DEF Spec

\* No folder is removed unless Kept newer ones are there, also when runs overlap and
\* remove what they listed long ago: what was old then is old still.
THEOREM NewestAreKept == Spec => KeepsNewest
<1>1. TypeInv /\ PurgeInv /\ [Next]_vars
          => [\A s \in Folders \ Folders' : Cardinality(Newer(s)) >= Kept]_vars
    BY OnlyOldRemoved
<1> QED BY <1>1, TypeCorrect, PurgeHolds, PTL DEF Spec, KeepsNewest

-----------------------------------------------------------------------------
(* Time *)

\* Who is active after a step was so before, with the same stamp or the present as
\* its stamp, or was just created.
LEMMA ActiveSteps ==
    ASSUME TypeInv, [Next]_vars, NEW r \in Active'
    PROVE  \/ r \in Active /\ (job'[r].stamp = job[r].stamp \/ job'[r].stamp = now)
           \/ /\ \E t \in Trigger, parts \in Scopes : Create(t, r, parts)
              /\ job'[r].stamp = 0
<1>0. TypeOK /\ r \in Run
    BY DEF TypeInv, Active
<1>1. CASE UNCHANGED job
    BY <1>1 DEF Active
<1>2. CASE Restart
    BY <1>2, NoJobFields DEF Restart, Active
<1>3. ASSUME NEW q \in Run, OthersKept(q), q # r
      PROVE  r \in Active /\ job'[r].stamp = job[r].stamp
    BY <1>0, <1>3 DEF OthersKept, Active
<1>4. ASSUME NEW t \in Trigger, NEW q \in Run, NEW parts \in Scopes, Create(t, q, parts)
      PROVE  OthersKept(q) /\ job'[q].stamp = 0
    BY <1>0, <1>4, CreateKeeps
<1>5. ASSUME NEW q \in Run,
             \/ Begin(q) \/ Sent(q) \/ CommandFails(q) \/ Fail(q) \/ Succeed(q) \/ List(q)
      PROVE  OthersKept(q) /\ q \in Active /\ job'[q].stamp = job[q].stamp
  <2>1. q \in Active
      BY <1>5 DEF Begin, Sent, Sending, CommandFails, Fail, Succeed, List, Active, At
  <2>2. CASE List(q)
      BY <1>0, <2>1, <2>2, GotoKeeps, ListKeeps DEF List, Places
  <2>3. CASE ~ List(q)
      BY <1>0, <1>5, <2>1, <2>3, GotoKeeps DEF Begin, Sent, CommandFails, Fail, Succeed, Places
  <2> QED BY <2>2, <2>3
<1>6. ASSUME NEW q \in Run, MakeStage(q)
      PROVE  /\ OthersKept(q) /\ q \in Active
             /\ job'[q].stamp = job[q].stamp \/ job'[q].stamp = now
    BY <1>0, <1>6, GotoKeeps, MakeStageKeeps DEF MakeStage, Places, Active, At
<1>7. ASSUME NEW q \in Run, \/ Dump(q) \/ Mirror(q) \/ Archive(q)
                            \/ \E p \in Part : Send(q, p)
                            \/ Expire(q)
      PROVE  OthersKept(q) /\ q \in Active /\ job'[q].stamp = job[q].stamp
  <2>1. q \in Active
      BY <1>7 DEF Dump, Mirror, Archive, Turn, Send, Sending, Expire, Active, At
  <2>2. CASE Dump(q) \/ Mirror(q) \/ Archive(q)
      BY <1>0, <2>1, <2>2, PackKeeps DEF Dump, Mirror, Archive, Pack
  <2>3. CASE \E p \in Part : Send(q, p)
      BY <1>0, <2>1, <2>3, SendKeeps DEF Send
  <2>4. CASE Expire(q)
      BY <1>0, <2>1, <2>4, ExpireKeeps DEF Expire
  <2> QED BY <1>7, <2>2, <2>3, <2>4
<1>8. ASSUME NEW q \in Run, Purge(q)
      PROVE  OthersKept(q) /\ q \in Active /\ job'[q].stamp = job[q].stamp
  <2>1. PICK s \in job[q].purge : job' = [job EXCEPT ![q].purge = @ \ {s}]
      BY <1>8 DEF Purge
  <2> QED BY <1>0, <1>8, <2>1, PurgeKeeps DEF Purge, Active, At
<1>9. ASSUME NEW q \in Run, Clean(q)
      PROVE  OthersKept(q) /\ q \notin Active'
    BY <1>0, <1>9, NoJobFields, JobLearns DEF Clean, Active
<1>10. ASSUME \/ \E t \in Trigger : Check(t) \/ GiveUp(t)
              \/ \E t \in Trigger, q \in Run, parts \in Scopes : CreateUnanswered(t, q, parts)
              \/ \E q \in Run : DeleteRun(q)
              \/ Tick \/ UNCHANGED vars
       PROVE  UNCHANGED job
    BY <1>10 DEF Check, GiveUp, CreateUnanswered, DeleteRun, Tick, vars
<1> QED BY <1>1, <1>2, <1>3, <1>4, <1>5, <1>6, <1>7, <1>8, <1>9, <1>10 DEF Next

\* What a step does to the rows.
LEMMA RowSteps ==
    ASSUME TypeInv, [Next]_vars, NEW r \in Run
    PROVE  /\ status[r] # "none" => status'[r] # "none" /\ scope'[r] = scope[r]
           /\ status'[r] = "success" =>
                  \/ status[r] = "success" /\ path'[r] = path[r]
                  \/ Succeed(r) /\ path'[r] = job[r].stamp /\ UNCHANGED scope
           /\ overlapped \subseteq overlapped'
<1>0. TypeOK
    BY DEF TypeInv
<1>1. ASSUME NEW t \in Trigger, NEW q \in Run, NEW parts \in Scopes,
             Create(t, q, parts) \/ CreateUnanswered(t, q, parts)
      PROVE  /\ status[r] # "none" => status'[r] # "none" /\ scope'[r] = scope[r]
             /\ status'[r] = "success" => status[r] = "success" /\ path'[r] = path[r]
             /\ overlapped \subseteq overlapped'
    BY <1>0, <1>1 DEF Create, CreateUnanswered, TypeOK
<1>2. ASSUME NEW q \in Run, Begin(q) \/ Fail(q)
      PROVE  /\ status[r] # "none" => status'[r] # "none" /\ scope'[r] = scope[r]
             /\ status'[r] = "success" => status[r] = "success" /\ path'[r] = path[r]
             /\ overlapped \subseteq overlapped'
  <2>1. UNCHANGED <<scope, overlapped>>
      BY <1>2 DEF Begin, Fail
  <2>2. PICK st \in {"running", "failed"} : WriteStatus(q, st)
      BY <1>2 DEF Begin, Fail
  <2> QED BY <1>0, <2>1, <2>2, WriteKeeps
<1>3. ASSUME NEW q \in Run, Succeed(q)
      PROVE  /\ status[r] # "none" => status'[r] # "none" /\ scope'[r] = scope[r]
             /\ status'[r] = "success" =>
                    \/ status[r] = "success" /\ path'[r] = path[r]
                    \/ Succeed(r) /\ path'[r] = job[r].stamp /\ UNCHANGED scope
             /\ overlapped \subseteq overlapped'
  <2>1. UNCHANGED <<scope, overlapped>> /\ WriteStatus(q, "success")
      BY <1>3 DEF Succeed
  <2> QED BY <1>0, <1>3, <2>1, WriteKeeps
<1>4. ASSUME NEW q \in Run, DeleteRun(q)
      PROVE  /\ status[r] # "none" => status'[r] # "none" /\ scope'[r] = scope[r]
             /\ status'[r] = "success" => status[r] = "success" /\ path'[r] = path[r]
             /\ overlapped \subseteq overlapped'
    BY <1>0, <1>4 DEF DeleteRun, TypeOK
<1>5. ASSUME \/ \E t \in Trigger : Check(t) \/ GiveUp(t)
             \/ \E q \in Run :
                    \/ MakeStage(q) \/ Dump(q) \/ Mirror(q) \/ Archive(q)
                    \/ (\E p \in Part : Send(q, p)) \/ Sent(q) \/ CommandFails(q)
                    \/ List(q) \/ Purge(q) \/ Clean(q) \/ Expire(q)
             \/ Tick \/ Restart \/ UNCHANGED vars
      PROVE  UNCHANGED <<status, path, scope, overlapped>>
    BY <1>5 DEF Check, GiveUp, MakeStage, Dump, Mirror, Archive, Pack, Send, Sent,
                CommandFails, List, Purge, Clean, Expire, Tick, Restart, vars, rows
<1> QED BY <1>0, <1>1, <1>2, <1>3, <1>4, <1>5 DEF Next

\* And to the clock.
LEMMA ClockSteps ==
    ASSUME TypeInv, [Next]_vars
    PROVE  now \in Second /\ now' \in Second /\ now <= now'
<1>1. now \in Second /\ now <= now
    BY BackupConstants DEF TypeInv, TypeOK, Second
<1>2. CASE Tick
    BY <1>1, <1>2, BackupConstants DEF Tick, Second
<1>3. CASE ~ Tick
  <2>1. UNCHANGED now
      BY <1>3 DEF Next, Check, GiveUp, Create, CreateUnanswered, Begin, MakeStage, Dump,
                  Mirror, Archive, Pack, Send, Sent, CommandFails, List, Purge, Succeed, Fail, Clean, Expire,
                  DeleteRun, Restart, vars
  <2> QED BY <1>1, <2>1
<1> QED BY <1>2, <1>3

LEMMA ClockHolds == Spec => []ClockInv
<1>1. Init => ClockInv
    BY NoJobFields DEF Init, ClockInv, Folders, Files, Empty, Active
<1>2. TypeInv /\ ClockInv /\ [Next]_vars => ClockInv'
  <2> SUFFICES ASSUME TypeInv, ClockInv, [Next]_vars PROVE ClockInv'
      OBVIOUS
  <2>1. ASSUME NEW s \in Folders' PROVE s <= now'
    <3>1. s \in Second /\ (s \in Folders \/ \E r \in Run, p \in Part : Send(r, p) /\ s = job[r].stamp)
      <4>1. s \in Second
          BY DEF Folders
      <4>2. CASE UNCHANGED remote
          BY <4>1, <4>2 DEF Folders
      <4>3. CASE FileSent
          BY <4>1, <4>3, SendAdds DEF FileSent
      <4>4. ASSUME NEW r \in Run, NEW x \in Second, FolderRemoved(r, x)
            PROVE  s \in Folders
        <5>1. s = x => Files(remote'[s]) = {}
            BY <4>4 DEF FolderRemoved, Files, Empty, TypeInv, TypeOK
        <5>2. s # x => remote'[s] = remote[s]
            BY <4>4 DEF FolderRemoved, TypeInv, TypeOK
        <5> QED BY <4>1, <5>1, <5>2 DEF Folders
      <4> QED BY <4>1, <4>2, <4>3, <4>4, RemoteSteps
    <3>2. s <= now
        BY <3>1 DEF ClockInv, Send, Sending, At, Active
    <3> QED BY <3>1, <3>2, ClockSteps, BackupConstants DEF Second
  <2>2. ASSUME NEW r \in Active' PROVE job'[r].stamp <= now' /\ status'[r] # "none"
    <3>0. r \in Run
        BY DEF Active
    <3>1. CASE r \in Active /\ (job'[r].stamp = job[r].stamp \/ job'[r].stamp = now)
      <4>1. job[r].stamp <= now /\ status[r] # "none"
          BY <3>1 DEF ClockInv
      <4>2. now' \in Second /\ now \in Second /\ now <= now' /\ status'[r] # "none"
          BY <3>0, <4>1, RowSteps, ClockSteps
      <4>3. job[r].stamp \in Second \cup {0}
          BY <3>0, JobFields DEF TypeInv
      <4> QED BY <3>1, <4>1, <4>2, <4>3, BackupConstants DEF Second
    <3>2. CASE /\ \E t \in Trigger, parts \in Scopes : Create(t, r, parts)
               /\ job'[r].stamp = 0
      <4>1. status'[r] = "pending" /\ now' \in Second
          BY <3>0, <3>2, ClockSteps DEF Create, TypeInv, TypeOK
      <4> QED BY <3>2, <4>1, BackupConstants DEF Second
    <3> QED BY <3>1, <3>2, ActiveSteps
  <2> QED BY <2>1, <2>2 DEF ClockInv
<1> QED BY <1>1, <1>2, TypeCorrect, PTL DEF Spec

-----------------------------------------------------------------------------
(* Runs that meet no other *)

\* Being on its way is about the run's own job, scope, folder and directory.
LEMMA OnItsWayKept ==
    ASSUME TypeInv, TypeInv', NEW r \in Run, OnItsWay(r),
           job'[r].at = job[r].at, job'[r].stamp = job[r].stamp,
           job'[r].todo = job[r].todo, job'[r].sent = job[r].sent,
           job'[r].purge \subseteq job[r].purge,
           scope'[r] = scope[r], UNCHANGED stage, Folders' \subseteq Folders,
           job[r].at \in {"pack", "list", "purge"} =>
               Files(remote'[job[r].stamp]) = Files(remote[job[r].stamp])
    PROVE  OnItsWay(r)'
<1>1. Wanted(r)' = Wanted(r)
    BY DEF Wanted
<1>2. \A s : Files(stage'[s]) = Files(stage[s])
    OBVIOUS
<1> QED BY <1>1, <1>2 DEF OnItsWay, At

\* The steps of the goroutine of r that take it to another place.
LEMMA WayBegin ==
    ASSUME TypeInv, NEW r \in Run, OnItsWay(r), Begin(r)
    PROVE  OnItsWay(r)'
<1>1. /\ job'[r].at = "stage" /\ job'[r].stamp = job[r].stamp /\ job'[r].todo = job[r].todo
      /\ job'[r].sent = job[r].sent /\ job'[r].purge = job[r].purge
    BY GotoKeeps DEF Begin, Places, TypeInv
<1>2. Wanted(r)' = Wanted(r)
    BY DEF Begin, Wanted
<1> QED BY <1>1, <1>2 DEF OnItsWay, Begin, At

LEMMA WayMakeStage ==
    ASSUME TypeInv, PurgeInv, ClockInv, NEW r \in Run, OnItsWay(r), MakeStage(r)
    PROVE  OnItsWay(r)'
<1>0. At(r, "stage") /\ UNCHANGED <<scope, remote>> /\ job[r].purge = {}
    BY DEF MakeStage, At, rows, PurgeInv
<1>1. \/ /\ job'[r].at = "pack" /\ job'[r].stamp = now /\ job'[r].todo = job[r].todo
         /\ job'[r].sent = job[r].sent /\ job'[r].purge = job[r].purge
      \/ job'[r].at = "fail" /\ job'[r].purge = job[r].purge
    BY GotoKeeps, MakeStageKeeps DEF MakeStage, Places, TypeInv
<1>2. Wanted(r)' = Wanted(r) /\ Folders' = Folders
    BY <1>0 DEF Wanted, Folders
<1>3. Wanted(r) \subseteq job[r].todo /\ job[r].sent = {}
    BY <1>0 DEF OnItsWay, At
<1>4. \A s \in Folders : s <= now
    BY DEF ClockInv
<1> QED BY <1>0, <1>1, <1>2, <1>3, <1>4 DEF OnItsWay, At

LEMMA WayPack ==
    ASSUME TypeInv, NEW r \in Run, NEW p \in Part, NEW file \in {"cut", "whole"},
           OnItsWay(r), Turn(r, p), Pack(r, p, file)
    PROVE  OnItsWay(r)'
<1>1. /\ job[r].at = "pack" /\ job'[r].at = "pack" /\ job'[r].stamp = job[r].stamp
      /\ job'[r].todo = job[r].todo \ {p} /\ job'[r].sent = job[r].sent
      /\ job'[r].purge = job[r].purge
    BY PackKeeps DEF Turn, Pack, At, TypeInv
<1>2. Wanted(r)' = Wanted(r) /\ Folders' = Folders /\ UNCHANGED remote
    BY DEF Pack, rows, Wanted, Folders
<1>3. stage'[job[r].stamp] = [stage[job[r].stamp] EXCEPT ![p] = file]
      /\ stage[job[r].stamp] \in [Part -> File]
    BY <1>1 DEF Pack, TypeInv, TypeOK, StampsInv
<1>4. Files(stage'[job[r].stamp]) = Files(stage[job[r].stamp]) \cup {p}
    BY <1>3 DEF Files
<1> QED BY <1>1, <1>2, <1>4 DEF OnItsWay, At

LEMMA WaySend ==
    ASSUME TypeInv, NEW r \in Run, NEW p \in Part, OnItsWay(r), Send(r, p)
    PROVE  OnItsWay(r)'
<1>1. /\ job[r].at = "pack" /\ job'[r].at = "pack" /\ job'[r].stamp = job[r].stamp
      /\ job'[r].todo = job[r].todo /\ job'[r].sent = job[r].sent \cup {p}
      /\ job'[r].purge = job[r].purge
    BY SendKeeps DEF Send, Sending, At, TypeInv
<1>2. Wanted(r)' = Wanted(r) /\ UNCHANGED stage
    BY DEF Send, rows, disk, Wanted
<1>3. /\ Files(remote[job[r].stamp]) \subseteq Files(remote'[job[r].stamp])
      /\ p \in Files(remote'[job[r].stamp])
      /\ Folders' = Folders \cup {job[r].stamp}
      /\ job[r].stamp \in Second
    BY SendAdds
<1>4. job[r].stamp <= job[r].stamp
    BY <1>3, BackupConstants DEF Second
<1> QED BY <1>1, <1>2, <1>3, <1>4 DEF OnItsWay, At

LEMMA WaySent ==
    ASSUME TypeInv, PurgeInv, NEW r \in Run, OnItsWay(r), Sent(r)
    PROVE  OnItsWay(r)'
<1>1. /\ job[r].at = "pack" /\ job[r].todo = {} /\ job[r].purge = {}
      /\ job'[r].at = "list" /\ job'[r].stamp = job[r].stamp
      /\ job'[r].purge = job[r].purge
    BY GotoKeeps DEF Sent, Sending, At, Places, TypeInv, PurgeInv
<1>2. Wanted(r)' = Wanted(r) /\ Folders' = Folders /\ UNCHANGED remote
    BY DEF Sent, rows, disk, Wanted, Folders
<1>3. Wanted(r) \subseteq Files(remote[job[r].stamp])
    BY <1>1 DEF OnItsWay, At, Sent
<1> QED BY <1>1, <1>2, <1>3 DEF OnItsWay, At

LEMMA WayEnds ==
    ASSUME TypeInv, PurgeInv, NEW r \in Run, OnItsWay(r),
           CommandFails(r) \/ Succeed(r) \/ Fail(r)
    PROVE  OnItsWay(r)'
<1>1. /\ job'[r].at \in {"fail", "clean"} /\ job'[r].stamp = job[r].stamp
      /\ job'[r].purge = job[r].purge
    BY GotoKeeps DEF CommandFails, Succeed, Fail, Places, TypeInv
<1> QED BY <1>1 DEF OnItsWay, At

\* The folder of a run that is alone is the newest, and so never old.
LEMMA OwnIsNotOld ==
    ASSUME TypeInv, NEW r \in Run, job[r].stamp \in Second,
           \A s \in Folders : s <= job[r].stamp
    PROVE  job[r].stamp \notin Old
<1>1. Newer(job[r].stamp) = {}
    BY BackupConstants DEF Newer, Folders, Second
<1>2. Cardinality({}) = 0
    BY FS_EmptySet
<1>3. ~ (0 >= Kept)
    BY BackupConstants
<1>4. job[r].stamp \in Old => Cardinality(Newer(job[r].stamp)) >= Kept
    BY DEF Old
<1> QED BY <1>1, <1>2, <1>3, <1>4

LEMMA WayList ==
    ASSUME TypeInv, PurgeInv, NEW r \in Run, OnItsWay(r), List(r)
    PROVE  OnItsWay(r)'
<1>1. /\ job[r].at = "list" /\ job[r].purge = {} /\ job[r].stamp \in Second
      /\ job'[r].at = "purge" /\ job'[r].stamp = job[r].stamp
      /\ job'[r].purge \in {Old, {}}
    BY GotoKeeps, ListKeeps DEF List, At, Places, TypeInv, PurgeInv, StampsInv
<1>2. Wanted(r)' = Wanted(r) /\ Folders' = Folders /\ UNCHANGED remote
    BY DEF List, rows, Wanted, Folders
<1>3. job[r].stamp \notin Old
    BY <1>1, OwnIsNotOld DEF OnItsWay
<1> QED BY <1>1, <1>2, <1>3 DEF OnItsWay, At

LEMMA WayPurge ==
    ASSUME TypeInv, TypeInv', NEW r \in Run, OnItsWay(r), Purge(r)
    PROVE  OnItsWay(r)'
<1>1. PICK s \in job[r].purge :
          /\ job' = [job EXCEPT ![r].purge = @ \ {s}]
          /\ remote' = [remote EXCEPT ![s] = Empty] \/ UNCHANGED remote
    BY DEF Purge
<1>2. /\ job'[r].at = job[r].at /\ job'[r].stamp = job[r].stamp
      /\ job'[r].todo = job[r].todo /\ job'[r].sent = job[r].sent
      /\ job'[r].purge \subseteq job[r].purge
    BY <1>1, PurgeKeeps DEF TypeInv
<1>3. job[r].stamp \in Second /\ job[r].stamp # s
    BY <1>1 DEF Purge, At, TypeInv, StampsInv, OnItsWay
<1>4. remote'[job[r].stamp] = remote[job[r].stamp]
    BY <1>1, <1>3 DEF TypeInv, TypeOK
<1>5. Folders' \subseteq Folders
  <2>1. \A x \in Second : remote'[x] = remote[x] \/ remote'[x] = Empty
      BY <1>1 DEF TypeInv, TypeOK
  <2>2. Files(Empty) = {}
      BY DEF Files, Empty
  <2> QED BY <2>1, <2>2 DEF Folders
<1>6. UNCHANGED <<scope, stage>>
    BY DEF Purge, rows, disk
<1> QED BY <1>2, <1>4, <1>5, <1>6, OnItsWayKept

LEMMA AloneHolds == Spec => []AloneInv
<1>1. Init => AloneInv
    BY NoJobFields DEF Init, AloneInv, Active
<1>2. TypeInv /\ TypeInv' /\ PurgeInv /\ ClockInv /\ AloneInv /\ [Next]_vars => AloneInv'
  <2> SUFFICES ASSUME TypeInv, TypeInv', PurgeInv, ClockInv, AloneInv, [Next]_vars,
                      NEW r \in Active' \ overlapped'
               PROVE  Active' = {r} /\ OnItsWay(r)'
      BY DEF AloneInv
  <2>0. r \in Run /\ TypeOK
      BY DEF Active, TypeInv
  <2>1. ASSUME NEW t \in Trigger, NEW q \in Run, NEW parts \in Scopes, Create(t, q, parts)
        PROVE  Active' = {r} /\ OnItsWay(r)'
    <3>1. /\ OthersKept(q) /\ job'[q].at = "begin" /\ job'[q].todo = parts \cap Available
          /\ job'[q].sent = {} /\ job'[q].purge = {}
        BY <2>0, <2>1, CreateKeeps
    <3>2. Active' \subseteq Active \cup {q}
        BY <3>1 DEF Active, OthersKept
    <3>3. Active = {} /\ r = q
        BY <2>1, <3>2 DEF Create
    <3>4. Active' = {r}
        BY <3>2, <3>3
    <3>5. Wanted(r)' = parts \cap Available
        BY <2>0, <2>1, <3>3 DEF Create, Wanted, TypeOK
    <3> QED BY <3>1, <3>3, <3>4, <3>5 DEF OnItsWay, At
  <2>2. CASE ~ \E t \in Trigger, q \in Run, parts \in Scopes : Create(t, q, parts)
    <3>1. Active' \subseteq Active /\ r \notin overlapped
        BY <2>0, <2>2, ActiveSteps, RowSteps DEF Active
    <3>2. Active = {r} /\ OnItsWay(r)
        BY <3>1 DEF AloneInv
    <3>3. Active' = {r}
        BY <3>1, <3>2
    <3>4. ASSUME NEW q \in Active, job[q].at # "none" PROVE q = r
        BY <3>2
    <3>5. ASSUME NEW q \in Run, \/ Begin(q) \/ MakeStage(q) \/ Dump(q) \/ Mirror(q)
                                \/ Archive(q) \/ (\E p \in Part : Send(q, p)) \/ Sent(q)
                                \/ CommandFails(q) \/ List(q) \/ Purge(q) \/ Succeed(q)
                                \/ Fail(q) \/ Clean(q) \/ Expire(q)
          PROVE  OnItsWay(r)'
      <4>1. q = r
          BY <3>2, <3>5 DEF Begin, MakeStage, Dump, Mirror, Archive, Turn, Send, Sending, Sent,
                            CommandFails, List, Purge, Succeed, Fail, Clean, Expire, At, Active
      <4>2. ASSUME Dump(r) \/ Mirror(r) \/ Archive(r) PROVE OnItsWay(r)'
        <5>1. PICK p \in Part, file \in {"cut", "whole"} : Turn(r, p) /\ Pack(r, p, file)
            BY <2>0, <4>2 DEF Dump, Mirror, Archive, Turn, At, TypeOK, JobState
        <5> QED BY <2>0, <3>2, <5>1, WayPack
      <4>3. ASSUME Expire(r) PROVE OnItsWay(r)'
        <5>1. /\ job'[r].at = job[r].at /\ job'[r].stamp = job[r].stamp
              /\ job'[r].todo = job[r].todo /\ job'[r].sent = job[r].sent
              /\ job'[r].purge = job[r].purge
            BY <2>0, <4>3, ExpireKeeps DEF Expire
        <5>2. UNCHANGED <<scope, stage, remote>>
            BY <4>3 DEF Expire, rows, disk
        <5>3. Folders' = Folders
            BY <5>2 DEF Folders
        <5> QED BY <2>0, <3>2, <5>1, <5>2, <5>3, OnItsWayKept
      <4>4. ~ Clean(r)
        <5>1. Clean(r) => job'[r] = NoJob
            BY <2>0, NoJobFields, JobLearns DEF Clean
        <5> QED BY <5>1, NoJobFields DEF Active
      <4> QED BY <2>0, <3>2, <3>5, <4>1, <4>2, <4>3, <4>4, WayBegin, WayMakeStage, WaySend,
                 WaySent, WayEnds, WayList, WayPurge
    <3>6. ASSUME \/ \E t \in Trigger : Check(t) \/ GiveUp(t)
                 \/ \E q \in Run : DeleteRun(q)
                 \/ Tick \/ UNCHANGED vars
          PROVE  OnItsWay(r)'
      <4>1. UNCHANGED <<job, scope, stage, remote>>
          BY <3>6 DEF Check, GiveUp, DeleteRun, Tick, vars, rows, disk
      <4>2. Folders' = Folders
          BY <4>1 DEF Folders
      <4> QED BY <2>0, <3>2, <4>1, <4>2, OnItsWayKept
    <3>7. ASSUME NEW t \in Trigger, NEW q \in Run, NEW parts \in Scopes,
                 CreateUnanswered(t, q, parts)
          PROVE  OnItsWay(r)'
      <4>1. UNCHANGED <<job, stage, remote>>
          BY <3>7 DEF CreateUnanswered, disk
      <4>2. Folders' = Folders
          BY <4>1 DEF Folders
      <4>3. status[r] # "none"
          BY <3>2 DEF ClockInv
      <4>4. scope'[r] = scope[r]
          BY <2>0, <3>7, <4>3 DEF CreateUnanswered, TypeOK
      <4> QED BY <2>0, <3>2, <4>1, <4>2, <4>4, OnItsWayKept
    <3>8. ~ Restart
        BY <2>0, NoJobFields DEF Restart, Active
    <3> QED BY <2>2, <3>3, <3>5, <3>6, <3>7, <3>8 DEF Next
  <2> QED BY <2>1, <2>2
<1> QED BY <1>1, <1>2, TypeCorrect, PurgeHolds, ClockHolds, PTL DEF Spec

-----------------------------------------------------------------------------
(* What is on the drive *)

\* A run that has to remove what it found has all it wanted in its own folder, which
\* is not among those, when it met no other.
LEMMA PurgerIsComplete ==
    ASSUME AloneInv, NEW r \in Run, job[r].at = "purge", r \notin overlapped
    PROVE  /\ Wanted(r) \subseteq Files(remote[job[r].stamp])
           /\ job[r].stamp \notin job[r].purge
BY DEF AloneInv, OnItsWay, Active

\* A folder keeps its files in a step that does not empty it.
LEMMA FilesKept ==
    ASSUME TypeInv, [Next]_vars, NEW s \in Second,
           \A r \in Run : ~ FolderRemoved(r, s)
    PROVE  Files(remote[s]) \subseteq Files(remote'[s])
<1>1. CASE UNCHANGED remote
    BY <1>1
<1>2. CASE FileSent
    BY <1>2, SendAdds DEF FileSent
<1>3. ASSUME NEW r \in Run, NEW x \in Second, FolderRemoved(r, x)
      PROVE  Files(remote[s]) \subseteq Files(remote'[s])
  <2>1. remote' = [remote EXCEPT ![x] = Empty] /\ s # x
      BY <1>3 DEF FolderRemoved
  <2>2. remote'[s] = remote[s]
      BY <2>1 DEF TypeInv, TypeOK
  <2> QED BY <2>2
<1> QED BY <1>1, <1>2, <1>3, RemoteSteps

\* A run that met no other and is recorded as a success left all it was to save in
\* its folder, until the retention removed that for Kept newer ones.
THEOREM SuccessesAreComplete == Spec => []SuccessIsComplete
<1>1. Init => SuccessIsComplete
    BY DEF Init, SuccessIsComplete
<1>2. /\ TypeInv /\ TypeInv' /\ PurgeInv /\ AloneInv /\ SuccessIsComplete
      /\ [Next]_vars
      => SuccessIsComplete'
  <2> SUFFICES ASSUME TypeInv, TypeInv', PurgeInv, AloneInv, SuccessIsComplete, [Next]_vars,
                      NEW r \in Run, status'[r] = "success", r \notin overlapped',
                      NEW f, f = path'[r]
               PROVE  \/ scope'[r] \cap Available \subseteq Files(remote'[f])
                      \/ Cardinality(Newer(f)') >= Kept
      BY DEF SuccessIsComplete
  <2>0. r \notin overlapped
      BY RowSteps
  <2>1. CASE status[r] = "success" /\ f = path[r]
    <3>1. f \in Second /\ scope'[r] = scope[r]
        BY <2>1, RowSteps DEF TypeInv, StampsInv
    <3>2. \/ Wanted(r) \subseteq Files(remote[f])
          \/ Cardinality(Newer(f)) >= Kept
        BY <2>0, <2>1 DEF SuccessIsComplete, Wanted
    <3>3. ASSUME Cardinality(Newer(f)) >= Kept
          PROVE  Cardinality(Newer(f)') >= Kept
        BY <3>1, <3>3, OnlyOldRemoved, OldStaysOld DEF TypeInv
    <3>4. ASSUME NEW q \in Run, FolderRemoved(q, f)
          PROVE  Cardinality(Newer(f)) >= Kept
        BY <3>4 DEF FolderRemoved, PurgeInv
    <3>5. ASSUME \A q \in Run : ~ FolderRemoved(q, f)
          PROVE  Files(remote[f]) \subseteq Files(remote'[f])
        BY <3>1, <3>5, FilesKept
    <3> QED BY <3>1, <3>2, <3>3, <3>4, <3>5 DEF Wanted
  <2>2. CASE Succeed(r) /\ f = job[r].stamp /\ UNCHANGED scope
    <3>1. job[r].at = "purge" /\ UNCHANGED remote
        BY <2>2 DEF Succeed, At
    <3>2. Wanted(r) \subseteq Files(remote[job[r].stamp])
        BY <2>0, <3>1, PurgerIsComplete
    <3> QED BY <2>2, <3>1, <3>2 DEF Wanted
  <2> QED BY <2>1, <2>2, RowSteps
<1> QED BY <1>1, <1>2, TypeCorrect, PurgeHolds, AloneHolds, PTL DEF Spec

\* Runs that met no other never leave the drive without a folder that has all
\* that some run wanted, once one of them has succeeded.
THEOREM GoodBackupKept == Spec => []GoodBackupRemains
<1>1. Init => GoodBackupRemains
    BY DEF Init, GoodBackupRemains
<1>2. /\ TypeInv /\ ClockInv /\ AloneInv /\ GoodBackupRemains /\ [Next]_vars
      => GoodBackupRemains'
  <2> SUFFICES ASSUME TypeInv, ClockInv, AloneInv, GoodBackupRemains, [Next]_vars,
                      overlapped' = {}, NEW q \in Run, status'[q] = "success"
               PROVE  \E r \in Run, s \in Second :
                          /\ status'[r] # "none"
                          /\ Wanted(r)' \subseteq Files(remote'[s])
      BY DEF GoodBackupRemains, Wanted
  <2>0. overlapped = {}
      BY RowSteps
  <2>1. ASSUME NEW r \in Run, NEW s \in Second, status[r] # "none",
               Wanted(r) \subseteq Files(remote[s]),
               \A x \in Run : ~ FolderRemoved(x, s)
        PROVE  status'[r] # "none" /\ Wanted(r)' \subseteq Files(remote'[s])
    <3>1. status'[r] # "none" /\ scope'[r] = scope[r]
        BY <2>1, RowSteps
    <3>2. Files(remote[s]) \subseteq Files(remote'[s])
        BY <2>1, FilesKept
    <3> QED BY <2>1, <3>1, <3>2 DEF Wanted
  <2>2. ASSUME NEW x \in Run, job[x].at = "purge"
        PROVE  /\ job[x].stamp \in Second
               /\ status[x] # "none"
               /\ Wanted(x) \subseteq Files(remote[job[x].stamp])
               /\ job[x].stamp \notin job[x].purge
               /\ Active = {x}
      BY <2>0, <2>2, PurgerIsComplete DEF ClockInv, Active, AloneInv, TypeInv, StampsInv
  <2>3. ASSUME NEW x \in Run, job[x].at = "purge"
        PROVE  \A y \in Run : ~ FolderRemoved(y, job[x].stamp)
    <3> SUFFICES ASSUME NEW y \in Run, FolderRemoved(y, job[x].stamp) PROVE FALSE
        OBVIOUS
    <3>1. y = x
        BY <2>2, <2>3 DEF FolderRemoved, Purge, At, Active
    <3> QED BY <2>2, <2>3, <3>1 DEF FolderRemoved
  <2>4. CASE \E x \in Run : job[x].at = "purge"
      BY <2>1, <2>2, <2>3, <2>4
  <2>5. CASE \A x \in Run : job[x].at # "purge"
    <3>1. status[q] = "success"
        BY <2>5, RowSteps DEF Succeed, At
    <3>2. \A x \in Run, s \in Second : ~ FolderRemoved(x, s)
        BY <2>5 DEF FolderRemoved, Purge, At
    <3>3. PICK r \in Run, s \in Second : status[r] # "none" /\ Wanted(r) \subseteq Files(remote[s])
        BY <2>0, <3>1 DEF GoodBackupRemains, Wanted
    <3> QED BY <2>1, <3>2, <3>3
  <2> QED BY <2>4, <2>5
<1> QED BY <1>1, <1>2, TypeCorrect, ClockHolds, AloneHolds, PTL DEF Spec

-----------------------------------------------------------------------------
(* The scheduler *)

\* What is in the cron table is the entry the scheduler remembers, for the settings
\* it remembers, and these are the settings it read last.  The second part is what a
\* poll that finds nothing changed relies on.
EntryIsCurrent ==
    \A e \in entries :
        /\ e.id = entryID
        /\ cur = [enabled |-> TRUE, expr |-> e.expr]
        /\ lastRead = {cur}

SchedulerInv == SchedulerTypeOK /\ EntryIsCurrent

\* Once the remembered entry is removed the table is empty.
LEMMA RemovalEmpties ==
    ASSUME SchedulerInv
    PROVE  Remaining = {}
BY DEF SchedulerInv, EntryIsCurrent, Remaining

LEMMA SchedulerStarts == SchedulerInit => SchedulerInv
<1> SUFFICES ASSUME SchedulerInit PROVE SchedulerInv
  OBVIOUS
<1>1. settings \in Schedule /\ cur \in Schedule
  BY SchedulerConstants DEF SchedulerInit, Schedule, AtStart
<1>2. up \in BOOLEAN /\ entries = {} /\ lastRead = {} /\ entryID = None /\ spoilt = {}
  BY DEF SchedulerInit
<1> QED BY <1>1, <1>2 DEF SchedulerInv, SchedulerTypeOK, EntryIsCurrent

\* A reload keeps the invariant, whichever way it goes.
LEMMA ReloadKeeps ==
    ASSUME SchedulerInv, Reload, settings' = settings, up' \in BOOLEAN
    PROVE  SchedulerInv'
<1> USE DEF SchedulerInv, SchedulerTypeOK, EntryIsCurrent, Schedule
<1>1. CASE ~Changed
  BY <1>1 DEF Reload, Changed
<1>2. CASE Changed /\ SwitchOff
  BY <1>2, RemovalEmpties DEF Reload, SwitchOff
<1>3. CASE Changed /\ SwitchOn
  <2>1. PICK id \in EntryId :
            /\ entries' = {[id |-> id, expr |-> settings.expr]}
            /\ entryID' = id
    BY <1>3, RemovalEmpties DEF SwitchOn
  <2>2. /\ cur' = settings /\ lastRead' = {settings} /\ settings.enabled
        /\ spoilt' = {}
    BY <1>3 DEF Reload, SwitchOn
  <2>3. settings = [enabled |-> TRUE, expr |-> settings.expr]
    BY <2>2
  <2>4. SchedulerTypeOK'
    BY <2>1, <2>2
  <2>5. EntryIsCurrent'
    BY <2>1, <2>2, <2>3
  <2> QED BY <2>4, <2>5
<1>4. CASE Changed /\ Reject
  BY <1>4, RemovalEmpties DEF Reload, Reject
<1> QED BY <1>1, <1>2, <1>3, <1>4 DEF Reload

LEMMA SchedulerSteps == SchedulerInv /\ [SchedulerNext]_schedulerVars => SchedulerInv'
<1> SUFFICES ASSUME SchedulerInv, [SchedulerNext]_schedulerVars PROVE SchedulerInv'
  OBVIOUS
<1>1. ASSUME NEW s \in Schedule, Save(s) PROVE SchedulerInv'
  BY <1>1 DEF Save, SchedulerInv, SchedulerTypeOK, EntryIsCurrent
<1>2. CASE Poll
  BY <1>2, ReloadKeeps DEF Poll, SchedulerInv, SchedulerTypeOK
<1>3. CASE Start
  <2>1. CASE Reload
    BY <1>3, <2>1, ReloadKeeps DEF Start
  <2>2. CASE ReadFails
    BY <1>3, <2>2 DEF Start, ReadFails, SchedulerInv, SchedulerTypeOK, EntryIsCurrent
  <2> QED BY <1>3, <2>1, <2>2 DEF Start
<1>4. CASE Crash
  BY <1>4, SchedulerConstants DEF Crash, AtStart, SchedulerInv, SchedulerTypeOK, EntryIsCurrent, Schedule
<1>5. CASE UNCHANGED schedulerVars
  BY <1>5 DEF schedulerVars, SchedulerInv, SchedulerTypeOK, EntryIsCurrent
<1> QED BY <1>1, <1>2, <1>3, <1>4, <1>5 DEF SchedulerNext

THEOREM SchedulerHolds == SchedulerSpec => []SchedulerInv
<1> QED BY SchedulerStarts, SchedulerSteps, PTL DEF SchedulerSpec

\* What the scheduler remembers is in force, or is the schedule that a refused
\* expression removed: this is why a poll that finds nothing changed may return, and
\* the safety half of SavesTakeEffect and DisablingTakesEffect.
RememberedIsInForce == InForce(cur) \/ cur \in spoilt

LEMMA RememberedKept ==
    ASSUME SchedulerInv, RememberedIsInForce, Reload
    PROVE  RememberedIsInForce'
<1> USE DEF RememberedIsInForce, InForce
<1>1. CASE ~Changed
  BY <1>1 DEF Reload
<1>2. CASE Changed /\ SwitchOff
  BY <1>2, RemovalEmpties DEF Reload, SwitchOff
<1>3. CASE Changed /\ SwitchOn
  <2>1. PICK id : entries' = {[id |-> id, expr |-> settings.expr]}
    BY <1>3, RemovalEmpties DEF SwitchOn
  <2>2. cur' = settings /\ settings.enabled
    BY <1>3 DEF SwitchOn
  <2> QED BY <2>1, <2>2
<1>4. CASE Changed /\ Reject
  <2>1. /\ entries' = {} /\ cur' = cur
        /\ spoilt' = spoilt \cup {[enabled |-> TRUE, expr |-> e.expr] : e \in entries}
    BY <1>4, RemovalEmpties DEF Reject
  <2>2. CASE entries = {}
    BY <2>1, <2>2
  <2>3. CASE entries # {}
    <3>1. PICK e \in entries : cur = [enabled |-> TRUE, expr |-> e.expr]
      BY <2>3 DEF SchedulerInv, EntryIsCurrent
    <3> QED BY <2>1, <3>1
  <2> QED BY <2>2, <2>3
<1> QED BY <1>1, <1>2, <1>3, <1>4 DEF Reload

\* What the scheduler remembers of the settings is what the cron table holds, unless
\* an expression was refused since it was put in force.
THEOREM RememberedHolds == SchedulerSpec => []RememberedIsInForce
<1>1. SchedulerInit => RememberedIsInForce
  BY DEF SchedulerInit, AtStart, RememberedIsInForce, InForce
<1>2. SchedulerInv /\ RememberedIsInForce /\ [SchedulerNext]_schedulerVars
      => RememberedIsInForce'
  <2> SUFFICES ASSUME SchedulerInv, RememberedIsInForce, [SchedulerNext]_schedulerVars
               PROVE  RememberedIsInForce'
    OBVIOUS
  <2>1. ASSUME UNCHANGED <<cur, entries, spoilt>> PROVE RememberedIsInForce'
    BY <2>1 DEF RememberedIsInForce, InForce
  <2>2. CASE Reload
    BY <2>2, RememberedKept
  <2>3. CASE Crash
    BY <2>3 DEF Crash, AtStart, RememberedIsInForce, InForce
  <2> QED
    BY <2>1, <2>2, <2>3 DEF SchedulerNext, Save, Poll, Start, ReadFails, schedulerVars
<1> QED BY <1>1, <1>2, SchedulerHolds, PTL DEF SchedulerSpec

\* The variables of the scheduler have the types SchedulerTypeOK gives them.
THEOREM SchedulerTypeCorrect == SchedulerSpec => []SchedulerTypeOK
<1>1. SchedulerInv => SchedulerTypeOK
  BY DEF SchedulerInv
<1> QED BY SchedulerHolds, <1>1, PTL

\* However settings are saved, polls come and the process restarts, the scheduler
\* never loses sight of an entry (backup_scheduler.go:41-54).
THEOREM NothingForgotten == SchedulerSpec => []NoForgottenEntry
<1>1. SchedulerInv => NoForgottenEntry
  <2> SUFFICES ASSUME SchedulerInv, NEW e \in entries, NEW f \in entries
               PROVE  e.id = entryID /\ e = f
    BY DEF NoForgottenEntry
  <2>1. e.id = entryID /\ f.id = entryID /\ e.expr = f.expr
    BY DEF SchedulerInv, EntryIsCurrent
  <2>2. e \in [id: EntryId, expr: Expr] /\ f \in [id: EntryId, expr: Expr]
    BY DEF SchedulerInv, SchedulerTypeOK
  <2> QED BY <2>1, <2>2
<1> QED BY SchedulerHolds, <1>1, PTL

\* An entry stands for the settings read last (backup_scheduler.go:33-53).
THEOREM FiresOnlyWhatWasRead == SchedulerSpec => []FiresWhatWasRead
<1>1. SchedulerInv => FiresWhatWasRead
  BY DEF SchedulerInv, EntryIsCurrent, FiresWhatWasRead
<1> QED BY SchedulerHolds, <1>1, PTL
===============================================================================
