-------------------------------- MODULE QRCodes --------------------------------
(***************************************************************************)
(* The QR codes of the tables: AdminTableHandler.Create, which inserts a    *)
(* table and then gives it a code, and SubRoute, which gives it a new one;  *)
(* both through the transaction of QRRepository.CreateForTable.            *)
(*                                                                         *)
(* The UPDATE that deactivates the old codes runs in READ COMMITTED: it     *)
(* takes the rows that were committed when it began (a snapshot), waits for *)
(* each one that another transaction has updated, and looks at it again     *)
(* when that one ends.  It never sees the row the other has inserted.       *)
(***************************************************************************)
CONSTANTS
    Table,     \* ids of the tables
    Code,      \* ids (and tokens) code rows may get: a bound
    Request,   \* requests in progress at one time: a bound
    NoTable, NoCode, NoRequest

ASSUME CodeConstants ==
    /\ NoTable \notin Table
    /\ NoCode \notin Code
    /\ NoRequest \notin Request

VARIABLES
    tables,     \* the rows of tables
    codes,      \* the committed rows of qr_codes
    rowLock,    \* the request whose transaction has deactivated the row
    requests    \* the requests in progress

codeVars == <<tables, codes, rowLock, requests>>

NoCodeRow == [table |-> NoTable, active |-> FALSE]
CodeRow == [table: Table, active: BOOLEAN] \cup {NoCodeRow}

\* "saw" is the snapshot of the UPDATE, "todo" what is left of it, "code" the row
\* inserted and not committed.
Idle == [at |-> "idle", table |-> NoTable, saw |-> {}, todo |-> {}, code |-> NoCode]
RequestState ==
    [at: {"update", "retire", "commit"}, table: Table, saw: SUBSET Code,
     todo: SUBSET Code, code: Code \cup {NoCode}] \cup {Idle}

\* A table has rows of its own only, and a transaction locks what it found active.
CodeTypeOK ==
    /\ tables \subseteq Table
    /\ codes \in [Code -> CodeRow]
    /\ rowLock \in [Code -> Request \cup {NoRequest}]
    /\ requests \in [Request -> RequestState]
    /\ \A q \in Code : codes[q] # NoCodeRow => codes[q].table \in tables
    /\ \A q \in Code : rowLock[q] # NoRequest =>
           codes[q].active /\ requests[rowLock[q]].table = codes[q].table

\* What FindActiveByToken, GetActiveByTable and ListByBranch accept.
Active(t) == {q \in Code : codes[q] = [table |-> t, active |-> TRUE]}

Goto(c, state) == requests' = [requests EXCEPT ![c] = state]

-----------------------------------------------------------------------------
\* TableRepository.Create, a statement of its own.
CreateTable(c, t) ==
    /\ requests[c] = Idle
    /\ t \notin tables
    /\ tables' = tables \cup {t}
    /\ Goto(c, [Idle EXCEPT !.at = "update", !.table = t])
    /\ UNCHANGED <<codes, rowLock>>

\* POST /admin/tables/{id}/qr. An id of no table finds no row to update and fails
\* at the INSERT: a request without effect.
Regenerate(c, t) ==
    /\ requests[c] = Idle
    /\ t \in tables
    /\ Goto(c, [Idle EXCEPT !.at = "update", !.table = t])
    /\ UNCHANGED <<tables, codes, rowLock>>

\* The UPDATE begins: its snapshot.
FindOld(c) ==
    LET old == Active(requests[c].table) IN
    /\ requests[c].at = "update"
    /\ Goto(c, [requests[c] EXCEPT !.at = "retire", !.saw = old, !.todo = old])
    /\ UNCHANGED <<tables, codes, rowLock>>

\* Variant with a bug: rows that others have locked are skipped.
RetireUnlocked(c, q) ==
    /\ requests[c].at = "retire" /\ q \in requests[c].todo
    /\ rowLock' = [rowLock EXCEPT ![q] = IF @ = NoRequest /\ codes[q].active THEN c ELSE @]
    /\ Goto(c, [requests[c] EXCEPT !.todo = @ \ {q}])
    /\ UNCHANGED <<tables, codes>>

\* Variant with a bug: the UPDATE is not part of the transaction (s.DB, not tx).
RetireAtOnce(c, q) ==
    /\ requests[c].at = "retire" /\ q \in requests[c].todo /\ rowLock[q] = NoRequest
    /\ codes' = [codes EXCEPT ![q].active = FALSE]
    /\ Goto(c, [requests[c] EXCEPT !.todo = @ \ {q}])
    /\ UNCHANGED <<tables, rowLock>>

\* The UPDATE at one row, in any order: it waits for another transaction that has
\* updated it and passes over it if that one has committed.
Retire(c, q) ==
    /\ requests[c].at = "retire"
    /\ q \in requests[c].todo
    /\ rowLock[q] = NoRequest
    /\ rowLock' = IF codes[q].active THEN [rowLock EXCEPT ![q] = c] ELSE rowLock
    /\ Goto(c, [requests[c] EXCEPT !.todo = @ \ {q}])
    /\ UNCHANGED <<tables, codes>>

Finish(c) ==
    /\ Goto(c, Idle)
    /\ rowLock' = [q \in Code |-> IF rowLock[q] = c THEN NoRequest ELSE rowLock[q]]

\* The INSERT.
InsertCode(c, q) ==
    /\ requests[c].at = "retire"
    /\ requests[c].todo = {}
    /\ codes[q] = NoCodeRow
    /\ \A d \in Request : requests[d].code # q
    /\ Goto(c, [requests[c] EXCEPT !.at = "commit", !.code = q])
    /\ UNCHANGED <<tables, codes, rowLock>>

Commit(c) ==
    LET new == [table |-> requests[c].table, active |-> TRUE] IN
    /\ requests[c].at = "commit"
    /\ codes' = [q \in Code |-> IF q = requests[c].code THEN new
                                ELSE IF rowLock[q] = c THEN [codes[q] EXCEPT !.active = FALSE]
                                ELSE codes[q]]
    /\ Finish(c)
    /\ UNCHANGED tables

\* An error, a client that went away, a crash, or the victim of a deadlock: the
\* transaction is rolled back. A table that was just created stays.
Abort(c) ==
    /\ requests[c] # Idle
    /\ Finish(c)
    /\ UNCHANGED <<tables, codes>>

CodeInit ==
    /\ tables = {}
    /\ codes = [q \in Code |-> NoCodeRow]
    /\ rowLock = [q \in Code |-> NoRequest]
    /\ requests = [c \in Request |-> Idle]

CodeNext ==
    \E c \in Request :
        \/ \E t \in Table : CreateTable(c, t) \/ Regenerate(c, t)
        \/ FindOld(c)
        \/ \E q \in Code : Retire(c, q) \/ InsertCode(c, q)
        \/ Commit(c)
        \/ Abort(c)

CodeSpec == CodeInit /\ [][CodeNext]_codeVars

-----------------------------------------------------------------------------
(* Properties *)

\* A table that has a code customers can scan never loses its last one, however
\* regenerations interleave and wherever they stop.
NeverWithoutCode ==
    [][\A t \in Table : Active(t) # {} => Active(t)' # {}]_codeVars

\* The codes that were valid when a regeneration looked are not valid any more
\* once it has committed, also those that another one held locked and then let go.
SeenAreRetired ==
    [][\A c \in Request : codes' # codes /\ requests[c].at = "commit" /\ requests[c]' = Idle
           => \A q \in requests[c].saw : ~ codes'[q].active]_codeVars

================================================================================
