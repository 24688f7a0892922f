----------------------------- MODULE MCOrderRace -----------------------------
(* Instances of OrderPlacement for TLC. *)
EXTENDS OrderPlacement

CONSTANTS s1, s2, c1, c2, r1, i1

Dish(i) == [item |-> i, valid |-> TRUE]

\* No line or a good one: enough to make calls wait for each other.
MCCart == {<<>>, <<Dish(i1)>>}

\* Calls that wait for each other, while the menu stands still: it can only refuse
\* a call, which ends it.
SteadyMenuNext ==
    \/ \E c \in Call : Place(c)
    \/ \E s \in Session, status \in SessionStatus : SessionMoves(s, status)

SteadyMenuSpec ==
    /\ Init
    /\ [][SteadyMenuNext]_vars
    /\ \A c \in Call : SF_vars(Step(c) \/ Waiting(c))
=============================================================================
