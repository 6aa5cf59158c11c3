----------------------------- MODULE MCAccounts ------------------------------
(* Instances of Accounts for TLC: names, emails and passwords are alike.   *)
EXTENDS Accounts, TLC

Symmetry == Permutations(Names) \cup Permutations(Emails)
              \cup Permutations(Passwords) \cup Permutations(Threads)
=============================================================================
