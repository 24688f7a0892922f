------------------------------ MODULE MCVisits ------------------------------
(* Instances of Visits for TLC. *)
EXTENDS Visits, TLC

CONSTANTS t1, s1, s2, p1, j1, j2, k1, q1, q2

\* Table requests, session rows and staff requests are interchangeable.
VisitSymmetry ==
    Permutations(Job) \cup Permutations(Session) \cup Permutations(Request)

\* States that differ only in the mishaps no property of the run speaks of, or in
\* halted, are one: no action reads either for anything else.
Excusing == {m \in mishap : m[2] \in {"twin_scan", "reopen"}}
RunView == <<tableStatus, sessions, payments, job, Excusing, callVars>>
=============================================================================
