---------------------------- MODULE TableSessions ----------------------------
(***************************************************************************)
(* Table sessions: what the QR scan, the payment request, its confirmation *)
(* and the closing of a session do to the rows of "tables", "sessions" and *)
(* "payment_requests".                                                     *)
(*                                                                         *)
(* A request is a job that runs one SQL statement per step.  None of these *)
(* handlers opens a transaction, so the steps of two requests interleave   *)
(* freely and a request may stop between two of them: a database error, a  *)
(* cancelled r.Context() or a crash of the process.                        *)
(***************************************************************************)

CONSTANTS
    Table,              \* ids of the tables
    ActiveBranchTable,  \* those whose branch has status 'active'
    Session,            \* ids (gen_random_uuid) session rows may get: a bound
    Payment,            \* ids payment rows may get: a bound
    Job,                \* requests in progress at one time: a bound
    NoTable, NoSession, NoPayment

ASSUME ConstantsAssumption ==
    /\ ActiveBranchTable \subseteq Table
    /\ NoTable \notin Table
    /\ NoSession \notin Session
    /\ NoPayment \notin Payment

VARIABLES
    tableStatus,   \* tables.status
    sessions,      \* the rows of sessions
    payments,      \* the rows of payment_requests
    job,           \* the requests in progress, with what each has read
    mishap,        \* history: what went wrong at each table
    halted         \* history: the active sessions a confirmation of which stopped
                   \* between its two writes, and none has begun since

vars == <<tableStatus, sessions, payments, job, mishap, halted>>

TableStatus == {"ready", "serving", "locked", "maintenance", "paying"}

NoSessionRow == [table |-> NoTable, status |-> "none"]
SessionRow ==
    [table: Table, status: {"active", "payment_requested", "closed"}]
    \cup {NoSessionRow}

NoPaymentRow == [session |-> NoSession, status |-> "none"]
PaymentRow ==
    [session: Session, status: {"requested", "confirmed"}] \cup {NoPaymentRow}

(***************************************************************************)
(* "at" is the next statement of the request; the other fields are what it *)
(* has read so far.                                                        *)
(***************************************************************************)
Idle == [at |-> "idle", table |-> NoTable, seen |-> "none", session |-> NoSession]
ScanStage  == {"scan_find", "scan_create", "scan_serve"}
CloseStage == {"close_session", "close_table"}
JobState ==
    [at: ScanStage, table: Table, seen: TableStatus, session: {NoSession}]
    \cup [at: CloseStage, table: Table, seen: {"none"}, session: Session]
    \cup [at: {"pay_insert", "confirm_session"}, table: Table,
          seen: {"none"}, session: Session]
    \cup {Idle}

(***************************************************************************)
(* What may disturb a table: two scans both found it without a session     *)
(* ("twin_scan"); a scan or a closing began while another one of the same  *)
(* table was in progress ("overlap"); a scan or a closing stopped between  *)
(* its two writes ("abort"); a confirmation reopened a closed session      *)
(* ("reopen").                                                             *)
(***************************************************************************)
Mishap == {"twin_scan", "overlap", "abort", "reopen"}

TypeOK ==
    /\ tableStatus \in [Table -> TableStatus]
    /\ sessions \in [Session -> SessionRow]
    /\ payments \in [Payment -> PaymentRow]
    /\ job \in [Job -> JobState]
    /\ mishap \in SUBSET (Table \X Mishap)
    /\ halted \subseteq Session

-----------------------------------------------------------------------------
(* What the queries return. *)

\* FindActiveByTable: the rows its WHERE clause accepts. It returns the newest
\* of them to the customer, which changes no state.
OpenSessions(t) ==
    {s \in Session : /\ sessions[s].table = t
                     /\ sessions[s].status \in {"active", "payment_requested"}}

\* The checks of ResolveQRAndCreateSession on the row the token led to.
Servable(t, status) ==
    t \in ActiveBranchTable /\ status \in {"ready", "serving"}

Paid(s) == \E p \in Payment : payments[p] = [session |-> s, status |-> "confirmed"]

BusyAt(t) == {j \in Job : job[j].table = t /\ job[j].at \in ScanStage \cup CloseStage}

Note(t, what) == mishap \cup {<<t, m>> : m \in what}

\* UPDATE sessions SET status = ... WHERE id = s
SetSessionStatus(s, status) == sessions' = [sessions EXCEPT ![s].status = status]

\* UPDATE tables SET status = ... WHERE id = t
SetTableStatus(t, status) == tableStatus' = [tableStatus EXCEPT ![t] = status]

Goto(j, state) == job' = [job EXCEPT ![j] = state]

-----------------------------------------------------------------------------
(* GET /qr/{token}. A refused request is a step that changes nothing. *)

\* FindActiveByToken reads the table and its branch in one statement.
ScanStart(j, t) ==
    /\ job[j] = Idle
    /\ IF Servable(t, tableStatus[t])
       THEN /\ Goto(j, [at |-> "scan_find", table |-> t, seen |-> tableStatus[t],
                        session |-> NoSession])
            /\ mishap' = Note(t, IF BusyAt(t) = {} THEN {} ELSE {"overlap"})
       ELSE UNCHANGED <<job, mishap>>
    /\ UNCHANGED <<tableStatus, sessions, payments, halted>>

\* Variant with a bug: only an 'active' session counts as open.
ScanFindActiveOnly(j) ==
    LET t == job[j].table IN
    /\ job[j].at = "scan_find"
    /\ Goto(j, IF \E s \in OpenSessions(t) : sessions[s].status = "active"
               THEN Idle ELSE [job[j] EXCEPT !.at = "scan_create"])
    /\ UNCHANGED <<tableStatus, sessions, payments, mishap, halted>>

\* FindActiveByTable: an open session answers the request.
ScanFind(j) ==
    LET t == job[j].table IN
    /\ job[j].at = "scan_find"
    /\ IF OpenSessions(t) # {}
       THEN Goto(j, Idle) /\ UNCHANGED mishap
       ELSE /\ Goto(j, [job[j] EXCEPT !.at = "scan_create"])
            /\ mishap' = Note(t, IF \E k \in Job : job[k].table = t
                                                /\ job[k].at = "scan_create"
                                 THEN {"twin_scan"} ELSE {})
    /\ UNCHANGED <<tableStatus, sessions, payments, halted>>

\* Session.Create; whether a statement follows depends on the status read first.
ScanCreate(j, s) ==
    /\ job[j].at = "scan_create"
    /\ sessions[s] = NoSessionRow
    /\ sessions' = [sessions EXCEPT ![s] = [table |-> job[j].table, status |-> "active"]]
    /\ Goto(j, IF job[j].seen = "ready" THEN [job[j] EXCEPT !.at = "scan_serve"] ELSE Idle)
    /\ UNCHANGED <<tableStatus, payments, mishap, halted>>

\* Variant with a bug: a status the schema does not know.
ScanServeMistyped(j) ==
    /\ job[j].at = "scan_serve"
    /\ SetTableStatus(job[j].table, "active")
    /\ Goto(j, Idle)
    /\ UNCHANGED <<sessions, payments, mishap, halted>>

ScanServe(j) ==
    /\ job[j].at = "scan_serve"
    /\ SetTableStatus(job[j].table, "serving")
    /\ Goto(j, Idle)
    /\ UNCHANGED <<sessions, payments, mishap, halted>>

-----------------------------------------------------------------------------
(* POST /payment-requests and PATCH /payment-requests/{id}/confirm *)

\* RequestPayment reads the session and refuses one that is not active.
PayStart(j, s) ==
    /\ job[j] = Idle
    /\ IF sessions[s].status = "active"
       THEN Goto(j, [at |-> "pay_insert", table |-> sessions[s].table,
                     seen |-> "none", session |-> s])
       ELSE UNCHANGED job
    /\ UNCHANGED <<tableStatus, sessions, payments, mishap, halted>>

PayInsert(j, p) ==
    /\ job[j].at = "pay_insert"
    /\ payments[p] = NoPaymentRow
    /\ payments' = [payments EXCEPT ![p] = [session |-> job[j].session,
                                            status |-> "requested"]]
    /\ Goto(j, Idle)
    /\ UNCHANGED <<tableStatus, sessions, mishap, halted>>

\* Variant with a bug: a request already confirmed is taken to be done with.
ConfirmPaymentOnce(j, p) ==
    LET s == payments[p].session IN
    /\ job[j] = Idle
    /\ payments[p] # NoPaymentRow
    /\ payments' = [payments EXCEPT ![p].status = "confirmed"]
    /\ Goto(j, IF payments[p].status = "confirmed" THEN Idle
               ELSE [at |-> "confirm_session", table |-> sessions[s].table,
                     seen |-> "none", session |-> s])
    /\ halted' = halted \ {s}
    /\ UNCHANGED <<tableStatus, sessions, mishap>>

\* The UPDATE has no condition on the status: a request already confirmed, even
\* of a closed session, can be confirmed again.
ConfirmPayment(j, p) ==
    LET s == payments[p].session IN
    /\ job[j] = Idle
    /\ payments[p] # NoPaymentRow
    /\ payments' = [payments EXCEPT ![p].status = "confirmed"]
    /\ Goto(j, [at |-> "confirm_session", table |-> sessions[s].table,
                seen |-> "none", session |-> s])
    /\ halted' = halted \ {s}
    /\ UNCHANGED <<tableStatus, sessions, mishap>>

ConfirmSession(j) ==
    LET s == job[j].session IN
    /\ job[j].at = "confirm_session"
    /\ SetSessionStatus(s, "payment_requested")
    /\ Goto(j, Idle)
    /\ mishap' = Note(sessions[s].table,
                      IF sessions[s].status = "closed" THEN {"reopen"} ELSE {})
    /\ halted' = halted \ {s}
    /\ UNCHANGED <<tableStatus, payments>>

-----------------------------------------------------------------------------
(* POST /sessions/{id}/close *)

\* Variant with a bug: closes a session that is still active.
CloseStartUnpaid(j, s) ==
    LET t == sessions[s].table IN
    /\ job[j] = Idle
    /\ sessions[s] # NoSessionRow
    /\ Goto(j, [at |-> "close_session", table |-> t, seen |-> "none", session |-> s])
    /\ mishap' = Note(t, IF BusyAt(t) = {} THEN {} ELSE {"overlap"})
    /\ UNCHANGED <<tableStatus, sessions, payments, halted>>

CloseStart(j, s) ==
    LET t == sessions[s].table IN
    /\ job[j] = Idle
    /\ IF sessions[s].status = "payment_requested"
       THEN /\ Goto(j, [at |-> "close_session", table |-> t, seen |-> "none",
                        session |-> s])
            /\ mishap' = Note(t, IF BusyAt(t) = {} THEN {} ELSE {"overlap"})
       ELSE UNCHANGED <<job, mishap>>
    /\ UNCHANGED <<tableStatus, sessions, payments, halted>>

\* Variant with a bug: the table is not given back.
CloseSessionOnly(j) ==
    /\ job[j].at = "close_session"
    /\ SetSessionStatus(job[j].session, "closed")
    /\ Goto(j, Idle)
    /\ UNCHANGED <<tableStatus, payments, mishap, halted>>

\* Session.Close, whatever the status has become since it was read.
CloseSession(j) ==
    /\ job[j].at = "close_session"
    /\ SetSessionStatus(job[j].session, "closed")
    /\ Goto(j, [job[j] EXCEPT !.at = "close_table"])
    /\ UNCHANGED <<tableStatus, payments, mishap, halted>>

CloseTable(j) ==
    /\ job[j].at = "close_table"
    /\ SetTableStatus(job[j].table, "ready")
    /\ Goto(j, Idle)
    /\ UNCHANGED <<sessions, payments, mishap, halted>>

-----------------------------------------------------------------------------
\* A request ends early: an error of the next statement, a client that went
\* away (its context is cancelled) or a crash. What it wrote stays.
Abort(j) ==
    /\ job[j] # Idle
    /\ Goto(j, Idle)
    /\ mishap' = Note(job[j].table,
                      IF job[j].at \in {"scan_serve", "close_table"} THEN {"abort"} ELSE {})
    /\ halted' = halted \cup {s \in {job[j].session} : /\ job[j].at = "confirm_session"
                                                      /\ sessions[s].status = "active"}
    /\ UNCHANGED <<tableStatus, sessions, payments>>

\* Tables come from table_repository.Create and the seed as 'ready'; the other
\* statuses but 'serving' are set by hand, the API never writes them.
Init ==
    /\ tableStatus \in [Table -> TableStatus \ {"serving"}]
    /\ sessions = [s \in Session |-> NoSessionRow]
    /\ payments = [p \in Payment |-> NoPaymentRow]
    /\ job = [j \in Job |-> Idle]
    /\ mishap = {}
    /\ halted = {}

\* The steps of one request after its first, without the failures.
Continue(j) ==
    \/ ScanFind(j)
    \/ \E s \in Session : ScanCreate(j, s)
    \/ ScanServe(j)
    \/ \E p \in Payment : PayInsert(j, p)
    \/ ConfirmSession(j)
    \/ CloseSession(j)
    \/ CloseTable(j)

Begin(j) ==
    \/ \E t \in Table : ScanStart(j, t)
    \/ \E s \in Session : PayStart(j, s) \/ CloseStart(j, s)
    \/ \E p \in Payment : ConfirmPayment(j, p)

Next == \E j \in Job : Begin(j) \/ Continue(j) \/ Abort(j)

Spec == Init /\ [][Next]_vars

\* A request that has begun keeps running: every statement returns, with a
\* result or with an error.
FairSpec == Spec /\ \A j \in Job : WF_vars(Continue(j))

-----------------------------------------------------------------------------
(* Properties *)

\* No table is closed unpaid: a session past 'active' has a confirmed payment
\* request of its own, however requests interleave, repeat or stop half-way
\* (CloseSession's "payment request is not confirmed yet").
PaidBeforeClosed ==
    \A s \in Session :
        sessions[s].status \in {"payment_requested", "closed"} => Paid(s)

\* A table has at most one open session: the only ways to a second one are two
\* scans that both found none and a confirmation that reopened a closed one.
SoleOpenSession ==
    \A t \in Table :
        \/ <<t, "twin_scan">> \in mishap
        \/ <<t, "reopen">> \in mishap
        \/ \A s1, s2 \in OpenSessions(t) : s1 = s2

\* Between requests the status of a table tells whether it has an open session,
\* as long as its scans and closings ran one after another, to their end, and
\* no session of it was reopened. Payments may interleave with them.
StatusTellsOccupancy ==
    \A t \in Table :
        \/ BusyAt(t) # {}
        \/ \E m \in {"overlap", "abort", "reopen"} : <<t, m>> \in mishap
        \/ (tableStatus[t] = "serving") <=> (OpenSessions(t) # {})

\* A confirmed payment takes its session out of 'active', unless the confirmation
\* stopped between its two writes; and then confirming again does, for Confirm looks
\* at no status: each new confirmation of the session takes away the excuse of the
\* one before.  What stops elsewhere at the table is no excuse.
ConfirmedLeavesActive ==
    \A p \in Payment, s \in Session :
        (payments[p] = [session |-> s, status |-> "confirmed"]) ~>
            (sessions[s].status # "active" \/ s \in halted)

=============================================================================
