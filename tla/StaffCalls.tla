------------------------------ MODULE StaffCalls ------------------------------
(***************************************************************************)
(* Calls for the staff: guests call, the staff moves the call along, and   *)
(* each change is broadcast twice, to those who watch the branch and to    *)
(* those who watch the session.  A request is one SQL statement or one     *)
(* broadcast per step; nothing spans two of them.                          *)
(***************************************************************************)
CONSTANTS
    Session,      \* ids of sessions
    StaffCall,    \* ids rows of staff_call_requests may get: a bound
    Status,       \* the values of validStaffCallStatuses the instance uses
    Request,      \* requests in progress at one time: a bound
    NoSession, NoStaffCall

VARIABLES
    sstatus,      \* sessions.status
    staffCalls,   \* the rows of staff_call_requests
    requests,     \* the requests in progress
    screens,      \* what the last message about a call told the listeners of
                  \* each topic who miss none
    muddled       \* history: calls changed while an earlier change was still to be
                  \* told, or changed without being told

callVars == <<staffCalls, requests, screens, muddled>>
vars == <<sstatus, callVars>>

Topic == {"branch", "session"}

NoRow == [session |-> NoSession, status |-> "none"]
Row == [session: Session, status: Status] \cup {NoRow}

Idle == [at |-> "idle", session |-> NoSession, call |-> NoStaffCall, to |-> "sent"]
RequestState ==
    [at: {"insert"}, session: Session, call: {NoStaffCall}, to: {"sent"}]
    \cup [at: {"tell_branch", "tell_session"}, session: Session, call: StaffCall,
          to: Status]
    \cup {Idle}

TypeOK ==
    /\ staffCalls \in [StaffCall -> Row]
    /\ requests \in [Request -> RequestState]
    /\ screens \in [Topic -> [StaffCall -> Status \cup {"none"}]]
    /\ muddled \subseteq StaffCall

-----------------------------------------------------------------------------
\* The requests that have changed the call and have not told everyone.
Telling(k) == {r \in Request : requests[r].call = k}

\* Variant with a bug: only what is done is left out.
ListedWhoeverLeft ==
    {k \in StaffCall : staffCalls[k].status \notin {"none", "done"}}

\* ListByBranch: what the staff sees who loads the page.
Listed ==
    {k \in StaffCall : /\ staffCalls[k].status \notin {"none", "done"}
                       /\ sstatus[staffCalls[k].session] # "closed"}

Changed(k) == IF Telling(k) = {} THEN muddled \ {k} ELSE muddled \cup {k}

Goto(r, stage) == requests' = [requests EXCEPT ![r].at = stage]

-----------------------------------------------------------------------------
(* POST /staff-calls *)

\* Session.FindByID; a session that waits for its payment may still call.
Create(r, s) ==
    /\ requests[r] = Idle
    /\ IF sstatus[s] \in {"none", "closed"}
       THEN UNCHANGED requests              \* ErrSessionNotFound, ErrSessionClosed
       ELSE requests' = [requests EXCEPT ![r] =
                            [at |-> "insert", session |-> s, call |-> NoStaffCall,
                             to |-> "sent"]]
    /\ UNCHANGED <<sstatus, staffCalls, screens, muddled>>

\* StaffCall.Create, whatever has become of the session.
Insert(r, k) ==
    /\ requests[r].at = "insert"
    /\ staffCalls[k] = NoRow
    /\ staffCalls' = [staffCalls EXCEPT ![k] =
                         [session |-> requests[r].session, status |-> "sent"]]
    /\ requests' = [requests EXCEPT ![r].at = "tell_branch", ![r].call = k]
    /\ UNCHANGED <<sstatus, screens, muddled>>

-----------------------------------------------------------------------------
(* PATCH /staff-calls/{id}/status *)

\* UPDATE ... RETURNING session_id: any valid status after any other, also of a
\* call whose session is closed. An unknown id is refused.
UpdateStatus(r, k, to) ==
    /\ requests[r] = Idle
    /\ staffCalls[k] # NoRow
    /\ staffCalls' = [staffCalls EXCEPT ![k].status = to]
    /\ requests' = [requests EXCEPT ![r] =
                       [at |-> "tell_branch", session |-> staffCalls[k].session,
                        call |-> k, to |-> to]]
    /\ muddled' = Changed(k)
    /\ UNCHANGED <<sstatus, screens>>

-----------------------------------------------------------------------------
(* broadcast *)

\* After the queries for the session and its table.
TellBranch(r) ==
    /\ requests[r].at = "tell_branch"
    /\ screens' = [screens EXCEPT !["branch"][requests[r].call] = requests[r].to]
    /\ Goto(r, "tell_session")
    /\ UNCHANGED <<sstatus, staffCalls, muddled>>

\* Variant with a bug: guests are not told.
TellSessionNothing(r) ==
    /\ requests[r].at = "tell_session"
    /\ requests' = [requests EXCEPT ![r] = Idle]
    /\ UNCHANGED <<sstatus, staffCalls, screens, muddled>>

TellSession(r) ==
    /\ requests[r].at = "tell_session"
    /\ screens' = [screens EXCEPT !["session"][requests[r].call] = requests[r].to]
    /\ requests' = [requests EXCEPT ![r] = Idle]
    /\ UNCHANGED <<sstatus, staffCalls, muddled>>

\* A statement fails, the client goes away or the process dies. A query that fails
\* on the way to the topics drops both messages, and the request succeeds.
Abort(r) ==
    /\ requests[r] # Idle
    /\ requests' = [requests EXCEPT ![r] = Idle]
    /\ muddled' = muddled \cup ({requests[r].call} \ {NoStaffCall})
    /\ UNCHANGED <<sstatus, staffCalls, screens>>

-----------------------------------------------------------------------------
Init ==
    /\ sstatus = [s \in Session |-> "none"]
    /\ staffCalls = [k \in StaffCall |-> NoRow]
    /\ requests = [r \in Request |-> Idle]
    /\ screens = [t \in Topic |-> [k \in StaffCall |-> "none"]]
    /\ muddled = {}

Serve(r) ==
    \/ \E s \in Session : Create(r, s)
    \/ \E k \in StaffCall : Insert(r, k) \/ \E to \in Status : UpdateStatus(r, k, to)
    \/ TellBranch(r)
    \/ TellSession(r)
    \/ Abort(r)

\* What the scan, the confirmation and the closing do to a row of sessions.
SessionMoves(s, status) ==
    /\ \/ sstatus[s] = "none" /\ status = "active"
       \/ sstatus[s] # "none" /\ status = "payment_requested"
       \/ sstatus[s] \in {"payment_requested", "closed"} /\ status = "closed"
    /\ sstatus' = [sstatus EXCEPT ![s] = status]
    /\ UNCHANGED callVars

Next ==
    \/ \E r \in Request : Serve(r)
    \/ \E s \in Session, status \in {"active", "payment_requested", "closed"} :
           SessionMoves(s, status)

Spec == Init /\ [][Next]_vars

-----------------------------------------------------------------------------
(* Properties *)

\* Those who watch the branch and those who watch the session end up with the
\* status in the database, and so with the same, unless two changes of the call
\* were written before the first was told to both, or the messages of the last one
\* were lost (StaffCallService.broadcast).
ScreensAgree ==
    \A k \in StaffCall, t \in Topic :
        \/ screens[t][k] = staffCalls[k].status
        \/ Telling(k) # {}
        \/ k \in muddled

=============================================================================
