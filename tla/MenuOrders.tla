------------------------------ MODULE MenuOrders ------------------------------
(***************************************************************************)
(* Guests order from a menu that is being edited: OrderPlacement over the  *)
(* rows of MenuCatalog.  A line of an order refers to its item: the lock   *)
(* the foreign key takes makes a DELETE of the item wait for the order's   *)
(* transaction, and the line, once committed, makes it fail.  No UPDATE    *)
(* waits for it.                                                           *)
(***************************************************************************)
EXTENDS Naturals

CONSTANTS
    Session, Call, ReqId, Item, Cart, MaxOrders, NoCall, NoReq, NoSession,
    Edited, Branch, Editor, NoBranch, NoItem

ASSUME MenuConstants ==
    /\ Edited \subseteq Item
    /\ NoBranch \notin Branch
    /\ NoItem \notin Item

VARIABLES
    sstatus, lock, orders, calls, answered,
    items, editors, untold, moved, dropped

orderVars == <<sstatus, lock, orders, calls, answered>>
menuVars == <<items, editors, untold, moved, dropped>>
vars == <<orderVars, menuVars>>

Catalog == INSTANCE MenuCatalog

\* What a call sees of an item; one that does not exist yet is refused like one
\* that may not be ordered.
MenuOf(i) ==
    CASE items[i].status = "unborn" -> "suspended"
      [] OTHER -> items[i].status

Orders == INSTANCE OrderPlacement WITH menu <- [i \in Item |-> MenuOf(i)]

\* What OrderPlacement assumes of its constants.
ASSUME OrdersConstants == Orders!OrderConstants

-----------------------------------------------------------------------------
\* The rows of order_items that refer to the item, uncommitted ones included.
InTheWay(i) == Orders!Referenced(i)

\* Some of them are not committed.
BeingOrdered(i) ==
    \E c \in Call :
        /\ calls[c].at \in {"insert_item", "commit"}
        /\ \E k \in 1..calls[c].done : calls[c].cart[k].item = i

\* DELETE waits for the transactions of the calls, then deletes or fails.
DeleteStep(e) ==
    LET i == editors[e].item IN
    \/ ~ InTheWay(i) /\ Catalog!DeleteItem(e)
    \/ InTheWay(i) /\ ~ BeingOrdered(i) /\ Catalog!DeleteRefused(e)

EditorStep(e) == (Catalog!Edit(e) \/ DeleteStep(e)) /\ UNCHANGED orderVars

OrderStep(c) == UNCHANGED menuVars /\ Orders!Place(c)

SessionStep ==
    /\ UNCHANGED menuVars
    /\ \E s \in Session, status \in {"active", "payment_requested", "closed"} :
           Orders!SessionMoves(s, status)

Init == Catalog!Init /\ Orders!Init

Next ==
    \/ \E e \in Editor : EditorStep(e)
    \/ \E c \in Call : OrderStep(c)
    \/ SessionStep

Spec == Init /\ [][Next]_vars

-----------------------------------------------------------------------------
(* Properties *)

TypeOK == Catalog!CatalogTypeOK /\ Orders!TypeOK

MenusAreTold == Catalog!MenusAreTold

OrdersShowWhole == Orders!OrdersShowWhole

\* What OrderPlacement assumes of the menu is what the editors do to it: an item
\* that is named by an order, be it not committed yet, is not deleted.
OrdersImplemented == Orders!Spec

=============================================================================
