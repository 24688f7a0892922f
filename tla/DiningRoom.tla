------------------------------ MODULE DiningRoom ------------------------------
(***************************************************************************)
(* The whole of a table's life: TableSessions and OrderPlacement over the  *)
(* same rows of "sessions".  The two meet in two places.  A call that      *)
(* orders reads the status the other requests write, and its transaction   *)
(* holds the row lock of the session (SELECT ... FOR UPDATE), for which    *)
(* every UPDATE of that row waits, and so does an INSERT that refers to it *)
(* (the foreign key takes FOR KEY SHARE).                                  *)
(***************************************************************************)
EXTENDS TableSessions

CONSTANTS Call, ReqId, Item, Cart, MaxOrders, NoCall, NoReq

VARIABLES lock, orders, menu, calls, answered

orderVars == <<lock, orders, menu, calls, answered>>
roomVars == <<vars, orderVars>>

Orders == INSTANCE OrderPlacement
            WITH sstatus <- [s \in Session |-> sessions[s].status]

\* What OrderPlacement assumes of its constants.
ASSUME RoomConstants == Orders!OrderConstants

-----------------------------------------------------------------------------
\* Variant with a bug: the row is never locked.
RowNeverLocked(s) == s \in Session

\* No transaction of another request has selected the row FOR UPDATE.
RowFree(s) == lock[s] = NoCall

\* The statements of a table request that write a session row or refer to it.
SessionRowStep(j) ==
    /\ \E s \in Session : job[j].session = s /\ RowFree(s)
    /\ \/ \E p \in Payment : PayInsert(j, p)
       \/ ConfirmSession(j)
       \/ CloseSession(j)

TableStep(j) ==
    /\ \/ Begin(j)
       \/ ScanFind(j)
       \/ \E s \in Session : ScanCreate(j, s)
       \/ ScanServe(j)
       \/ SessionRowStep(j)
       \/ CloseTable(j)
       \/ Abort(j)
    /\ UNCHANGED orderVars

OrderStep(c) == UNCHANGED vars /\ Orders!Place(c)

MenuStep == UNCHANGED vars /\ Orders!MenuMoves

RoomInit == Init /\ Orders!Init

RoomNext ==
    \/ \E j \in Job : TableStep(j)
    \/ \E c \in Call : OrderStep(c)
    \/ MenuStep

RoomSpec == RoomInit /\ [][RoomNext]_roomVars

-----------------------------------------------------------------------------
(* Properties *)

\* What OrderPlacement assumes of the session rows is what TableSessions does to
\* them: every behaviour of the two together is one of OrderPlacement alone, so
\* the numbering of orders and the uniqueness of requests hold here too.
OrdersImplemented == Orders!Spec

=============================================================================
