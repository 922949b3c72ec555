------------------------------ MODULE MCAccounts ------------------------------
EXTENDS Accounts, TLC

Symmetric == Permutations(Requests) \cup Permutations(Tokens) \cup Permutations(Users \ {Root})

=============================================================================
