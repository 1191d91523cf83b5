----------------------------- MODULE MCAccounts ------------------------------
EXTENDS Accounts, TLC

Interchangeable ==
  Permutations(Username) \cup Permutations(Email) \cup Permutations(Password)
    \cup Permutations(Request) \cup Permutations(Old)
=============================================================================
