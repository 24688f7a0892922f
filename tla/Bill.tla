--------------------------------- MODULE Bill ---------------------------------
(***************************************************************************)
(* The bill of a session, read while the kitchen works and guests order.   *)
(* GetBill lists the orders of the session in one statement and then reads *)
(* each of them with statements of its own, so the orders it adds up are   *)
(* those of different moments.  The statuses are KitchenStatus's.          *)
(***************************************************************************)
EXTENDS KitchenStatus, OrderPricing

CONSTANTS
    Amount,      \* subtotal, VAT and total of each order, as its row has them
    Reader       \* GET /sessions/{id}/bill in progress at one time: a bound

ASSUME AmountAssumption == \A o \in Order : Priced(Amount[o])

VARIABLES
    placed,      \* the committed orders; all are of one session
    reads,       \* the bills being read
    turned       \* history: the orders that became due, or were no longer, since a
                 \* reading began

billVars == <<vars, placed, reads, turned>>

\* "left" are the orders of the list that are still to be read, "bill" those read
\* and charged, with their number and what they add up to.
NotReading ==
    [at |-> "none", left |-> {}, bill |-> {}, n |-> 0,
     sum |-> [subtotal |-> 0, vat |-> 0, total |-> 0]]
ReadState ==
    [at: {"none", "list", "order"}, left: SUBSET Order, bill: SUBSET Order, n: Nat,
     sum: Amounts]

BillTypeOK ==
    /\ TypeOK
    /\ placed \subseteq Order
    /\ reads \in [Reader -> ReadState]
    /\ turned \in [Reader -> SUBSET Order]

-----------------------------------------------------------------------------
\* What the session has to pay for.
Due == {o \in placed : status[o] # "cancelled"}

\* What has changed during each reading, this step included.
Witness ==
    turned' = [r \in Reader |-> IF reads'[r] = NotReading THEN {}
                                ELSE turned[r] \cup (Due \ Due') \cup (Due' \ Due)]

Exists(x) == x \in placed \/ (x \in Item /\ OrderOf[x] \in placed)

KitchenStep(c) ==
    /\ \/ \E x \in Order \cup Item : \E to \in ValidFor(x) :
              Exists(x) /\ Patch(c, x, to)
       \/ Look(c)
       \/ Update(c)
       \/ Tell(c)
       \/ Abort(c)
    /\ UNCHANGED <<placed, reads>>
    /\ Witness

\* The commit of an order and its lines (OrderPlacement).
Place(o) ==
    /\ o \notin placed
    /\ placed' = placed \cup {o}
    /\ UNCHANGED <<vars, reads>>
    /\ Witness

-----------------------------------------------------------------------------
(* GET /sessions/{id}/bill *)

GetBill(r) ==
    /\ reads[r] = NotReading
    /\ reads' = [reads EXCEPT ![r].at = "list"]
    /\ UNCHANGED <<vars, placed>>
    /\ Witness

\* ListBySession reads the ids.
ListOrders(r) ==
    /\ reads[r].at = "list"
    /\ reads' = [reads EXCEPT ![r].at = "order", ![r].left = placed]
    /\ UNCHANGED <<vars, placed>>
    /\ Witness

\* What a reading has when the order is charged, with the given total, and when it
\* is not.
Charged(read, o, total) ==
    [at |-> "order", left |-> read.left \ {o}, bill |-> read.bill \cup {o}, n |-> read.n + 1,
     sum |-> [subtotal |-> read.sum.subtotal + Amount[o].subtotal,
              vat |-> read.sum.vat + Amount[o].vat,
              total |-> read.sum.total + total]]
Skipped(read, o) == [read EXCEPT !.left = @ \ {o}]

\* Variant with a bug: cancelled orders are charged too.
ReadOrderCancelled(r, o) ==
    /\ reads[r].at = "order"
    /\ o \in reads[r].left
    /\ reads' = [reads EXCEPT ![r] = Charged(@, o, Amount[o].total)]
    /\ UNCHANGED <<vars, placed>>
    /\ Witness

\* Variant with a bug: VAT is added to a total that has it.
ReadOrderTaxedTwice(r, o) ==
    /\ reads[r].at = "order"
    /\ o \in reads[r].left
    /\ reads' = [reads EXCEPT ![r] =
                    IF status[o] = "cancelled" THEN Skipped(@, o)
                    ELSE Charged(@, o, Amount[o].total + Amount[o].vat)]
    /\ UNCHANGED <<vars, placed>>
    /\ Witness

\* getFullOrder: the status and the amounts come with one statement; what else it
\* reads is not in the sum.
ReadOrder(r, o) ==
    /\ reads[r].at = "order"
    /\ o \in reads[r].left
    /\ reads' = [reads EXCEPT ![r] =
                    IF status[o] = "cancelled" THEN Skipped(@, o)
                    ELSE Charged(@, o, Amount[o].total)]
    /\ UNCHANGED <<vars, placed>>
    /\ Witness

\* The answer, or an error or a client that went away before it.
EndBill(r) ==
    /\ reads[r] # NotReading
    /\ reads' = [reads EXCEPT ![r] = NotReading]
    /\ UNCHANGED <<vars, placed>>
    /\ Witness

-----------------------------------------------------------------------------
BillInit ==
    /\ Init
    /\ placed = {}
    /\ reads = [r \in Reader |-> NotReading]
    /\ turned = [r \in Reader |-> {}]

BillNext ==
    \/ \E c \in Call : KitchenStep(c)
    \/ \E o \in Order : Place(o)
    \/ \E r \in Reader :
           \/ GetBill(r)
           \/ ListOrders(r)
           \/ \E o \in Order : ReadOrder(r, o)
           \/ EndBill(r)

BillSpec == BillInit /\ [][BillNext]_billVars

-----------------------------------------------------------------------------
(* Properties *)

\* A bill has every order that was due from the beginning of its reading to the
\* end, and none that was never due meanwhile, although its orders are read one
\* after the other (PaymentService.GetBill). So it is what was due at one moment,
\* unless two orders became due, or were no longer, while it was read.
BillIsExact ==
    \A r \in Reader :
        reads[r].at = "order" /\ reads[r].left = {} =>
            reads[r].bill \ turned[r] = Due \ turned[r]

\* The total of a bill is the sum of its subtotal and its VAT but for a hundredth per
\* order on it, although the three are rounded, and added up, separately.
BillAddsUp ==
    \A r \in Reader : Excess(reads[r].sum) \in -reads[r].n .. reads[r].n

===============================================================================
