-------------------------------- MODULE Visits --------------------------------
(***************************************************************************)
(* Guests come, call the staff and leave: TableSessions and StaffCalls over *)
(* the same rows of "sessions".  A call reads the status of the session it *)
(* is made from, once; the list of calls reads it each time it is loaded.  *)
(* Nothing couples the writes: the INSERT of a call refers to the session, *)
(* for which the foreign key takes a lock that no UPDATE of the status     *)
(* waits for.                                                              *)
(***************************************************************************)
EXTENDS TableSessions

CONSTANTS StaffCall, Status, Request, NoStaffCall

ASSUME VisitConstants ==
    /\ {"sent", "done"} \subseteq Status
    /\ "none" \notin Status
    /\ NoStaffCall \notin StaffCall

VARIABLES staffCalls, requests, screens, muddled

callVars == <<staffCalls, requests, screens, muddled>>
visitVars == <<vars, callVars>>

Calls == INSTANCE StaffCalls
            WITH sstatus <- [s \in Session |-> sessions[s].status]

VisitStep == Next /\ UNCHANGED callVars

CallStep(r) == UNCHANGED vars /\ Calls!Serve(r)

VisitInit == Init /\ Calls!Init

VisitNext == VisitStep \/ \E r \in Request : CallStep(r)

VisitSpec == VisitInit /\ [][VisitNext]_visitVars

-----------------------------------------------------------------------------
(* Properties *)

CallsTypeOK == Calls!TypeOK

ScreensAgree == Calls!ScreensAgree

\* A call on the staff's list comes from the guests who sit at its table now, the
\* only ones with an open session there: calls of those before them are off the
\* list, whenever they were made and however their session ended, unless two scans
\* both found the table free or a confirmation reopened a closed session
\* (ListByBranch's WHERE clause).
ListedAreSeated ==
    \A k \in Calls!Listed :
        LET s == staffCalls[k].session
            t == sessions[s].table
        IN  \/ <<t, "twin_scan">> \in mishap
            \/ <<t, "reopen">> \in mishap
            \/ OpenSessions(t) = {s}

\* What StaffCalls assumes of the session rows is what TableSessions does to them.
CallsImplemented == Calls!Spec

=============================================================================
