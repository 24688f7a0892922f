----------------------------- MODULE MCMenuOrders -----------------------------
(* Instances of MenuOrders for TLC. *)
EXTENDS MenuOrders, Sequences, TLC

CONSTANTS s1, r1, c1, c2, i1, i2, b1, b2, e1, e2

Dish(i) == [item |-> i, valid |-> TRUE]

\* No line; one that fails the checks; the item that is edited alone, after and
\* before one that is not.
MCCart ==
    {<<>>, <<[item |-> i2, valid |-> FALSE]>>, <<Dish(i1)>>,
     <<Dish(i2), Dish(i1)>>, <<Dish(i1), Dish(i2)>>}

\* Calls, editors and branches are interchangeable.
MenuSymmetry == Permutations(Call) \cup Permutations(Editor) \cup Permutations(Branch)
=============================================================================
