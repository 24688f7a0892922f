------------------------------- MODULE MCQRCodes -------------------------------
(* Instances of QRCodes for TLC. *)
EXTENDS QRCodes, TLC

CONSTANTS t1, t2, q1, q2, q3, q4, c1, c2, c3

\* Tables, code rows and requests are interchangeable.
RowSymmetry == Permutations(Table) \cup Permutations(Code) \cup Permutations(Request)
================================================================================
