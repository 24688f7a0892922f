------------------------------- MODULE MCBackups -------------------------------
(* Instances of Backups for TLC. *)
EXTENDS Backups, TLC

CONSTANTS r1, r2, t1, t2

AllInTwo == {{"db"}, {"uploads", "configs"}}
DbOnly == {{"db"}}

\* Runs are interchangeable, and so are the requests that start them.
BackupSymmetry == Permutations(Run) \cup Permutations(Trigger)
================================================================================
