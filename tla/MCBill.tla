------------------------------- MODULE MCBill -------------------------------
(* Instances of Bill for TLC. *)
EXTENDS Bill, TLC

CONSTANTS o1, o2, i1, i2, c1, c2, b1

\* Both lines belong to the one order.
MCOrderOf == [i \in Item |-> o1]

\* "sent" stands for the statuses the code treats like it: of an order those but
\* "cancelled", of a line those but "served".
MCOrderStatus == {"sent", "cancelled"}
MCItemStatus == {"sent", "served"}

\* A total that is one more than its parts and one that is one less.
MCAmount ==
    [o \in Order |-> IF o = o1 THEN [subtotal |-> 15, vat |-> 1, total |-> 17]
                               ELSE [subtotal |-> 25, vat |-> 3, total |-> 27]]

\* Requests and the lines of one order are interchangeable.
RequestSymmetry == Permutations(Call) \cup Permutations(Item)
=============================================================================
