--------------------------------- MODULE MCHub ---------------------------------
(* An instance of Hub for TLC. *)
EXTENDS Hub, TLC

CONSTANTS a, c1, c2, m1, m2

\* Topics share nothing but the lock: one is enough to make connections and
\* broadcasts meet.
MCTopicOf == [x \in Client \cup Message |-> a]
================================================================================
