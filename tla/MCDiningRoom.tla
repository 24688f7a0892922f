---------------------------- MODULE MCDiningRoom ----------------------------
(* Instances of DiningRoom for TLC. *)
EXTENDS DiningRoom, TLC

CONSTANTS t1, s1, s2, p1, j1, j2, c1, c2, r1, i1

\* One good line; whether a cart passes the checks is OrderPlacement's matter.
MCCart == {<<>>, <<[item |-> i1, valid |-> TRUE]>>}

\* Requests are told apart only by what they do, session and payment rows by
\* what they hold.
RequestSymmetry ==
    Permutations(Job) \cup Permutations(Call) \cup Permutations(Session)
=============================================================================
