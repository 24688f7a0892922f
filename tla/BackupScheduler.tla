---------------------------- MODULE BackupScheduler ----------------------------
(***************************************************************************)
(* The scheduler of backups: the settings an administrator saves, the poll *)
(* that compares them every minute with the copy it keeps in memory, and   *)
(* the one entry it adds to and removes from the cron table.  What an      *)
(* entry does when it fires is in Backups.                                  *)
(***************************************************************************)
CONSTANTS
    Expr,      \* cron expressions; any string can be saved
    Valid,     \* those the cron library accepts
    Blank,     \* the empty expression, the scheduler's at start
    Default,   \* the expression of a new installation
    EntryId,   \* ids of cron entries: as many as may exist at one time
    None       \* no id (0 in the code)

ASSUME SchedulerConstants ==
    /\ Valid \subseteq Expr
    /\ Blank \in Expr \ Valid
    /\ Default \in Valid
    /\ None \notin EntryId \cup Expr

VARIABLES
    settings,   \* what backup_settings holds of the schedule
    up,         \* whether the process runs
    cur,        \* curEnabled and curExpr
    entryID,    \* the entry the scheduler remembers
    entries,    \* the entries of the cron table, each of which will fire
    lastRead,   \* history: the settings last read since the process started, if any
    spoilt      \* history: the schedule that was in force when an expression was
                \* refused, until another one is put in force

schedulerVars == <<settings, up, cur, entryID, entries, lastRead, spoilt>>

Schedule == [enabled: BOOLEAN, expr: Expr]

SchedulerTypeOK ==
    /\ settings \in Schedule
    /\ up \in BOOLEAN
    /\ cur \in Schedule
    /\ entryID \in EntryId \cup {None}
    /\ entries \subseteq [id: EntryId, expr: Expr]
    /\ lastRead \subseteq Schedule
    /\ spoilt \subseteq Schedule

-----------------------------------------------------------------------------
AtStart == [enabled |-> FALSE, expr |-> Blank]

SchedulerInit ==
    /\ settings = [enabled |-> FALSE, expr |-> Default]
    /\ up = FALSE
    /\ cur = AtStart
    /\ entryID = None
    /\ entries = {}
    /\ lastRead = {}
    /\ spoilt = {}

\* PUT /admin/backup/settings.  The expression is stored as it comes.
Save(s) ==
    /\ up
    /\ settings' = s
    /\ UNCHANGED <<up, cur, entryID, entries, lastRead, spoilt>>

\* Variant with a bug: the old entry is not removed.
NothingRemoved == entries

Remaining == {e \in entries : e.id # entryID}

\* Variant with a bug: what was refused is remembered as if it were in force.
RejectForgets ==
    /\ settings.enabled
    /\ settings.expr \notin Valid
    /\ cur' = settings
    /\ UNCHANGED <<entryID, entries, spoilt>>

\* Variant with a bug: that the schedule is off is not remembered.
SwitchOffForgets ==
    /\ ~settings.enabled
    /\ entries' = Remaining
    /\ entryID' = None
    /\ spoilt' = {}
    /\ UNCHANGED cur

SwitchOff ==
    /\ ~settings.enabled
    /\ entries' = Remaining
    /\ entryID' = None
    /\ cur' = settings
    /\ spoilt' = {}

SwitchOn ==
    /\ settings.enabled
    /\ settings.expr \in Valid
    /\ \E id \in EntryId \ {e.id : e \in Remaining} :
        /\ entries' = Remaining \cup {[id |-> id, expr |-> settings.expr]}
        /\ entryID' = id
    /\ cur' = settings
    /\ spoilt' = {}

\* AddFunc refuses the expression, after the old entry has been removed; what
\* the scheduler remembers of the settings stays as it was.
Reject ==
    /\ settings.enabled
    /\ settings.expr \notin Valid
    /\ entries' = Remaining
    /\ entryID' = None
    /\ spoilt' = spoilt \cup {[enabled |-> TRUE, expr |-> e.expr] : e \in entries}
    /\ UNCHANGED cur

\* Variant with a bug: only the expression is compared.
ChangedExpr == settings.expr # cur.expr

Changed == settings # cur

\* reload, when the settings can be read.
Reload ==
    /\ IF Changed THEN SwitchOff \/ SwitchOn \/ Reject
                  ELSE UNCHANGED <<cur, entryID, entries, spoilt>>
    /\ lastRead' = {settings}

\* reload, when they cannot.
ReadFails == UNCHANGED <<cur, entryID, entries, lastRead, spoilt>>

\* The ticker of the polling goroutine.
Poll ==
    /\ up
    /\ Reload
    /\ UNCHANGED <<settings, up>>

\* Start: the first reload, whose failure is only logged.
Start ==
    /\ ~up
    /\ up' = TRUE
    /\ Reload \/ ReadFails
    /\ UNCHANGED settings

\* The process ends; what it kept in memory is gone.
Crash ==
    /\ up
    /\ up' = FALSE
    /\ cur' = AtStart
    /\ entryID' = None
    /\ entries' = {}
    /\ lastRead' = {}
    /\ spoilt' = {}
    /\ UNCHANGED settings

SchedulerNext ==
    \/ \E s \in Schedule : Save(s)
    \/ Poll
    \/ Start
    \/ Crash

SchedulerSpec == SchedulerInit /\ [][SchedulerNext]_schedulerVars

\* The ticker keeps ticking, and a poll that cannot read the settings is followed
\* by one that can.
FairSchedulerSpec == SchedulerSpec /\ WF_schedulerVars(Poll)

-----------------------------------------------------------------------------
\* The cron table holds no entry but the one the scheduler remembers, and so can
\* remove: a forgotten entry would start backups until the process ends.
NoForgottenEntry ==
    /\ \A e \in entries : e.id = entryID
    /\ \A e, f \in entries : e = f

\* An entry stands for the settings as they were last read: a schedule that was
\* read since, valid or not, enabled or not, has replaced it.
FiresWhatWasRead ==
    \A e \in entries : lastRead = {[enabled |-> TRUE, expr |-> e.expr]}

InForce(s) == {e.expr : e \in entries} = IF s.enabled THEN {s.expr} ELSE {}

\* Once the settings are disabled and stay so, no entry is left, whatever was
\* saved before.
DisablingTakesEffect ==
    \A x \in Expr :
        LET off == [enabled |-> FALSE, expr |-> x] IN
        <>[](up /\ settings = off) => <>[]InForce(off)

\* "A config save takes effect without a redeploy" (the comment on Start): a schedule
\* that is possible, saved and left so is put in force, whatever was saved, refused
\* or restarted before.  The one exception is the schedule that was in force when an
\* expression was refused, if it is the next to be saved: the scheduler still
\* remembers it and sees no change.
SavesTakeEffect ==
    \A x \in Valid :
        LET on == [enabled |-> TRUE, expr |-> x] IN
        <>[](up /\ settings = on) => <>[](InForce(on) \/ on \in spoilt)
================================================================================
