--------------------------- MODULE MCTableSessions ---------------------------
(* Instances of TableSessions for TLC. *)
EXTENDS TableSessions

CONSTANTS t1, s1, s2, s3, p1, j1, j2, j3
=============================================================================
