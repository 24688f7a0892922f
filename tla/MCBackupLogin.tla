---------------------------- MODULE MCBackupLogin ----------------------------
(* An instance of BackupLogin for TLC. *)
EXTENDS BackupLogin, TLC

\* Requests, states, accounts and clients are told apart only by what they do, the
\* names of the remote by which of them the settings name at first: those are not
\* permuted.
LoginSymmetry ==
    Permutations(Request) \cup Permutations(State) \cup Permutations(Account)
        \cup Permutations(Client)
==============================================================================
