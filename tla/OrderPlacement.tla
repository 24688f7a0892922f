---------------------------- MODULE OrderPlacement ----------------------------
(***************************************************************************)
(* Placing an order: OrderService.CreateOrder and the transaction of       *)
(* OrderRepository.Create, run by concurrent calls against the rows of     *)
(* "orders", "order_items" and "menu_items" and against sessions that      *)
(* other requests move towards their end.                                  *)
(*                                                                         *)
(* Every statement is one step.  Until it commits, a transaction's order   *)
(* lives in the call's own record, for no other statement can read it; what *)
(* others do notice of it are its locks: the session row it selected FOR   *)
(* UPDATE, the client_request_id it has in the unique index and the menu   *)
(* items its lines refer to.                                               *)
(***************************************************************************)
EXTENDS Naturals, Sequences

CONSTANTS
    Session,     \* ids of sessions
    Call,        \* POST /orders requests in progress at one time: a bound
    ReqId,       \* client_request_id values, which a client sends on each retry
    Item,        \* ids of menu items
    Cart,        \* the item lists a call may bring: sequences of lines
    MaxOrders,   \* a call starts only for a session with fewer orders: a bound
    NoCall, NoReq, NoSession

\* A line is "valid" when its quantity is positive, its note short enough and its
\* options are options of the item.
Line == [item: Item, valid: BOOLEAN]

ASSUME OrderConstants ==
    /\ Cart \subseteq Seq(Line)
    /\ <<>> \in Cart
    /\ MaxOrders \in Nat
    /\ NoCall \notin Call
    /\ NoReq \notin ReqId
    /\ NoSession \notin Session

VARIABLES
    sstatus,    \* sessions.status
    lock,       \* the call whose transaction holds the row lock of the session
    orders,     \* the committed orders of each session, in commit order
    menu,       \* what the menu says of each item
    calls,      \* the calls in progress
    answered    \* history: the orders each client_request_id was answered with

vars == <<sstatus, lock, orders, menu, calls, answered>>

SessionStatus == {"none", "active", "payment_requested", "closed"}

\* "available" stands for the two statuses that may be ordered, "suspended" for
\* the two that may not; a deleted item has no row.
MenuState == {"available", "suspended", "deleted"}

OrderRow == [seq: Nat, req: ReqId \cup {NoReq}, lines: Seq(Item), cart: Cart]
OrderRef == [session: Session, seq: Nat]

Stage == {"lookup", "check_session", "check_line", "lock_session", "count",
          "insert_order", "insert_item", "commit", "read_back"}
Idle == [at |-> "idle", session |-> NoSession, req |-> NoReq, cart |-> <<>>,
         done |-> 0, seq |-> 0]
CallState ==
    [at: Stage, session: Session, req: ReqId \cup {NoReq}, cart: Cart,
     done: Nat, seq: Nat] \cup {Idle}

TypeOK ==
    /\ sstatus \in [Session -> SessionStatus]
    /\ lock \in [Session -> Call \cup {NoCall}]
    /\ orders \in [Session -> Seq(OrderRow)]
    /\ menu \in [Item -> MenuState]
    /\ calls \in [Call -> CallState]
    /\ answered \in [ReqId -> SUBSET OrderRef]

-----------------------------------------------------------------------------
(* Locks and indexes, as the other transactions feel them. *)

LockFree(s) == lock[s] = NoCall

\* The calls whose transaction has an order in the unique index of
\* client_request_id that is not committed yet.
Inserting(r) ==
    {c \in Call : calls[c].req = r /\ calls[c].at \in {"insert_item", "commit"}}

Committed(r) == \E s \in Session : \E i \in 1..Len(orders[s]) : orders[s][i].req = r

\* Rows of order_items that refer to the item, the uncommitted ones included:
\* the foreign key's row locks make a DELETE of the item wait for those.
Referenced(i) ==
    \/ \E s \in Session : \E n \in 1..Len(orders[s]) :
           \E k \in 1..Len(orders[s][n].lines) : orders[s][n].lines[k] = i
    \/ \E c \in Call :
           /\ calls[c].at \in {"insert_item", "commit"}
           /\ \E k \in 1..calls[c].done : calls[c].cart[k].item = i

Goto(c, stage) == calls' = [calls EXCEPT ![c].at = stage]

\* Variant with a bug: the transaction is not rolled back (no defer tx.Rollback).
FinishWithoutRollback(c) ==
    calls' = [calls EXCEPT ![c] = Idle] /\ UNCHANGED lock

\* The handler returns. What its transaction did not commit is rolled back, and
\* its locks are released.
Finish(c) ==
    /\ calls' = [calls EXCEPT ![c] = Idle]
    /\ lock' = [s \in Session |-> IF lock[s] = c THEN NoCall ELSE lock[s]]

-----------------------------------------------------------------------------
(* POST /orders: the checks of CreateOrder *)

\* Any session id, even of no session, any cart, and the client's id if it sends
\* one. Without it there is nothing to look up.
Receive(c, s, r, cart) ==
    /\ calls[c] = Idle
    /\ Len(orders[s]) < MaxOrders
    /\ r # NoReq \/ cart # <<>>
    /\ calls' = [calls EXCEPT ![c] =
                    [at |-> IF r = NoReq THEN "check_session" ELSE "lookup",
                     session |-> s, req |-> r, cart |-> cart, done |-> 0, seq |-> 0]]
    /\ UNCHANGED <<sstatus, lock, orders, menu, answered>>

\* Variant with a bug: the latest order of the session passes for the earlier try.
LookupHitLatest(c, s, i) ==
    /\ calls[c].at = "lookup"
    /\ s = calls[c].session /\ i = Len(orders[s])
    /\ calls' = [calls EXCEPT ![c].at = "read_back", ![c].seq = orders[s][i].seq]
    /\ UNCHANGED <<sstatus, lock, orders, menu, answered>>

\* FindByClientRequestID: the order of an earlier try, whatever session and cart
\* this call names, is the answer.
LookupHit(c, s, i) ==
    /\ calls[c].at = "lookup"
    /\ orders[s][i].req = calls[c].req
    /\ calls' = [calls EXCEPT ![c].at = "read_back", ![c].session = s,
                              ![c].seq = orders[s][i].seq]
    /\ UNCHANGED <<sstatus, lock, orders, menu, answered>>

LookupMiss(c) ==
    /\ calls[c].at = "lookup"
    /\ ~ Committed(calls[c].req)
    /\ IF calls[c].cart = <<>>
       THEN Finish(c)                              \* ErrEmptyOrder
       ELSE Goto(c, "check_session") /\ UNCHANGED lock
    /\ UNCHANGED <<sstatus, orders, menu, answered>>

\* Variant with a bug: a session that waits for its payment still takes orders.
CheckSessionOpen(c) ==
    /\ calls[c].at = "check_session"
    /\ IF sstatus[calls[c].session] \in {"active", "payment_requested"}
       THEN Goto(c, "check_line") /\ UNCHANGED lock
       ELSE Finish(c)
    /\ UNCHANGED <<sstatus, orders, menu, answered>>

\* The status is read here and not again under the row lock.
CheckSession(c) ==
    /\ calls[c].at = "check_session"
    /\ IF sstatus[calls[c].session] = "active"
       THEN Goto(c, "check_line") /\ UNCHANGED lock
       ELSE Finish(c)                \* ErrSessionNotFound, ErrSessionClosed
    /\ UNCHANGED <<sstatus, orders, menu, answered>>

\* One turn of the loop over the items: the checks on the line itself, then
\* GetItemDetail for its item.
CheckLine(c) ==
    LET line == calls[c].cart[calls[c].done + 1] IN
    /\ calls[c].at = "check_line"
    /\ IF line.valid /\ menu[line.item] = "available"
       THEN /\ calls' = IF calls[c].done + 1 = Len(calls[c].cart)
                        THEN [calls EXCEPT ![c].at = "lock_session", ![c].done = 0]
                        ELSE [calls EXCEPT ![c].done = @ + 1]
            /\ UNCHANGED lock
       ELSE Finish(c)                              \* OrderValidationError
    /\ UNCHANGED <<sstatus, orders, menu, answered>>

-----------------------------------------------------------------------------
(* The transaction of OrderRepository.Create *)

\* Variant with a bug: the SELECT locks nothing (no FOR UPDATE).
LockSessionPlain(c) ==
    /\ calls[c].at = "lock_session"
    /\ Goto(c, "count")
    /\ UNCHANGED <<sstatus, lock, orders, menu, answered>>

\* SELECT ... FOR UPDATE waits while another transaction has the row.
LockSession(c) ==
    LET s == calls[c].session IN
    /\ calls[c].at = "lock_session"
    /\ LockFree(s)
    /\ lock' = [lock EXCEPT ![s] = c]
    /\ Goto(c, "count")
    /\ UNCHANGED <<sstatus, orders, menu, answered>>

\* Variant with a bug: one less than the count instead of one more.
CountOrdersLess(c) ==
    /\ calls[c].at = "count"
    /\ calls' = [calls EXCEPT ![c].at = "insert_order",
                              ![c].seq = Len(orders[calls[c].session]) - 1]
    /\ UNCHANGED <<sstatus, lock, orders, menu, answered>>

\* COUNT(*) + 1 over the committed orders of the session.
CountOrders(c) ==
    /\ calls[c].at = "count"
    /\ calls' = [calls EXCEPT ![c].at = "insert_order",
                              ![c].seq = Len(orders[calls[c].session]) + 1]
    /\ UNCHANGED <<sstatus, lock, orders, menu, answered>>

\* Variant with a bug: client_request_id without its UNIQUE.
InsertOrderTwice(c) ==
    /\ calls[c].at = "insert_order"
    /\ Goto(c, "insert_item")
    /\ UNCHANGED <<sstatus, lock, orders, menu, answered>>

\* The unique index on client_request_id: the INSERT waits for a transaction that
\* has inserted the same id, and fails if a committed order has it.
InsertOrder(c) ==
    LET r == calls[c].req IN
    /\ calls[c].at = "insert_order"
    /\ r # NoReq => Inserting(r) = {}
    /\ IF r # NoReq /\ Committed(r)
       THEN Finish(c)
       ELSE Goto(c, "insert_item") /\ UNCHANGED lock
    /\ UNCHANGED <<sstatus, orders, menu, answered>>

\* Variant with a bug: a line may refer to an item that is gone (no REFERENCES).
InsertItemUnchecked(c) ==
    /\ calls[c].at = "insert_item"
    /\ calls' = [calls EXCEPT ![c].done = @ + 1,
                              ![c].at = IF calls[c].done + 1 = Len(calls[c].cart)
                                        THEN "commit" ELSE @]
    /\ UNCHANGED <<sstatus, lock, orders, menu, answered>>

\* One order_items row, with its options; it fails if the item has been deleted.
InsertItem(c) ==
    /\ calls[c].at = "insert_item"
    /\ IF menu[calls[c].cart[calls[c].done + 1].item] = "deleted"
       THEN Finish(c)
       ELSE /\ calls' = [calls EXCEPT ![c].done = @ + 1,
                                      ![c].at = IF calls[c].done + 1 = Len(calls[c].cart)
                                                THEN "commit" ELSE @]
            /\ UNCHANGED lock
    /\ UNCHANGED <<sstatus, orders, menu, answered>>

\* The order and its lines become visible and the locks are released.
Commit(c) ==
    LET call == calls[c]
        row  == [seq |-> call.seq, req |-> call.req, cart |-> call.cart,
                 lines |-> [k \in 1..call.done |-> call.cart[k].item]]
    IN
    /\ call.at = "commit"
    /\ orders' = [orders EXCEPT ![call.session] = Append(@, row)]
    /\ lock' = [lock EXCEPT ![call.session] = NoCall]
    /\ Goto(c, "read_back")
    /\ UNCHANGED <<sstatus, menu, answered>>

\* getFullOrder, then the broadcast and the answer.
ReadBack(c) ==
    LET r == calls[c].req IN
    /\ calls[c].at = "read_back"
    /\ answered' = IF r = NoReq THEN answered
                   ELSE [answered EXCEPT ![r] =
                            @ \cup {[session |-> calls[c].session, seq |-> calls[c].seq]}]
    /\ Finish(c)
    /\ UNCHANGED <<sstatus, orders, menu>>

\* A statement fails, the client goes away or the process dies: the answer is
\* lost and an open transaction is rolled back.
Abort(c) ==
    /\ calls[c] # Idle
    /\ Finish(c)
    /\ UNCHANGED <<sstatus, orders, menu, answered>>

-----------------------------------------------------------------------------
(* What the other requests do meanwhile. *)

\* ScanCreate, ConfirmSession and CloseSession of TableSessions; an UPDATE of the
\* row waits for the transaction that has selected it FOR UPDATE.
SessionMoves(s, status) ==
    /\ \/ sstatus[s] = "none" /\ status = "active"
       \/ sstatus[s] # "none" /\ status = "payment_requested"
       \/ sstatus[s] \in {"payment_requested", "closed"} /\ status = "closed"
    /\ LockFree(s)
    /\ sstatus' = [sstatus EXCEPT ![s] = status]
    /\ UNCHANGED <<lock, orders, menu, calls, answered>>

\* UpdateItemFull, when it changes the status.
MenuUpdate(i, status) ==
    /\ menu[i] # "deleted"
    /\ status \in {"available", "suspended"}
    /\ menu' = [menu EXCEPT ![i] = status]
    /\ UNCHANGED <<sstatus, lock, orders, calls, answered>>

\* DeleteItem: the foreign key of order_items has no ON DELETE clause, so an item
\* that was ever ordered stays.
MenuDelete(i) ==
    /\ menu[i] # "deleted"
    /\ ~ Referenced(i)
    /\ menu' = [menu EXCEPT ![i] = "deleted"]
    /\ UNCHANGED <<sstatus, lock, orders, calls, answered>>

-----------------------------------------------------------------------------
Init ==
    /\ sstatus = [s \in Session |-> "none"]
    /\ lock = [s \in Session |-> NoCall]
    /\ orders = [s \in Session |-> <<>>]
    /\ menu \in [Item -> {"available", "suspended"}]
    /\ calls = [c \in Call |-> Idle]
    /\ answered = [r \in ReqId |-> {}]

Lookup(c) ==
    \/ \E s \in Session : \E i \in 1..Len(orders[s]) : LookupHit(c, s, i)
    \/ LookupMiss(c)

Step(c) ==
    \/ Lookup(c)
    \/ CheckSession(c)
    \/ CheckLine(c)
    \/ CountOrders(c)
    \/ InsertItem(c)
    \/ Commit(c)
    \/ ReadBack(c)

\* The statements that may have to wait for another transaction.
Waiting(c) == LockSession(c) \/ InsertOrder(c)

\* Everything a call may do.
Place(c) ==
    \/ \E s \in Session, r \in ReqId \cup {NoReq}, cart \in Cart : Receive(c, s, r, cart)
    \/ Step(c)
    \/ Waiting(c)
    \/ Abort(c)

MenuMoves ==
    \E i \in Item : MenuDelete(i) \/ \E status \in MenuState : MenuUpdate(i, status)

Next ==
    \/ \E c \in Call : Place(c)
    \/ \E s \in Session, status \in SessionStatus : SessionMoves(s, status)
    \/ MenuMoves

Spec == Init /\ [][Next]_vars

\* Statements return; PostgreSQL queues the waiters of a row or an index entry,
\* so a waiter whose turn comes again and again gets it.
FairSpec == Spec /\ \A c \in Call : SF_vars(Step(c) \/ Waiting(c))

-----------------------------------------------------------------------------
(* Properties *)

\* The sequence numbers of a session's orders are 1, 2, 3... in the order they
\* were committed, however many customers of the table order at once: counting
\* and inserting happen under the session's row lock (OrderRepository.Create).
SeqIsPosition ==
    \A s \in Session : \A i \in 1..Len(orders[s]) : orders[s][i].seq = i

\* A client_request_id is on at most one order of all sessions, even when two
\* tries of it run at the same time and both miss in the lookup.
OneOrderPerRequest ==
    \A s1, s2 \in Session : \A i1 \in 1..Len(orders[s1]), i2 \in 1..Len(orders[s2]) :
        /\ orders[s1][i1].req # NoReq
        /\ orders[s1][i1].req = orders[s2][i2].req
        => s1 = s2 /\ i1 = i2

\* Every try of a request that is answered with an order is answered with the
\* same one, and that order is in the database.
RetriesAgree ==
    \A r \in ReqId : \A a, b \in answered[r] :
        /\ a = b
        /\ a.seq \in 1..Len(orders[a.session])
        /\ orders[a.session][a.seq].req = r

\* The lines getFullOrder finds of an order: its JOIN drops the others.
Shown(order) == {k \in 1..Len(order.lines) : menu[order.lines[k]] # "deleted"}

\* What getFullOrder shows of an order is all that was asked for: it was stored
\* whole or not at all, and no item of it has left the menu since (the JOIN with
\* menu_items would silently drop its line).
OrdersShowWhole ==
    \A s \in Session : \A i \in 1..Len(orders[s]) :
        LET o == orders[s][i] IN
        /\ Shown(o) = 1..Len(o.cart)
        /\ \A k \in Shown(o) : o.lines[k] = o.cart[k].item

\* Every call ends: transactions never wait for each other in a circle, and one
\* that ends leaves nothing locked.
EveryCallEnds == \A c \in Call : calls[c].at # "idle" ~> calls[c].at = "idle"

Validated(c, s) ==
    /\ calls[c].session = s
    /\ calls[c].at \in {"check_line", "lock_session", "count", "insert_order",
                        "insert_item", "commit"}

\* Once the payment of a session is confirmed, the calls that were already past
\* the status check run out and from then on no order is added to it (on its bill
\* an order may still be cancelled).
OrdersBecomeFinal ==
    \A s \in Session :
        (sstatus[s] \in {"payment_requested", "closed"}) ~>
            [](\A c \in Call : ~ Validated(c, s))

=============================================================================
