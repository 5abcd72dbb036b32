----------------------------- MODULE MCAccounts -----------------------------
EXTENDS Accounts, TLC

Symmetric == Permutations(Users) \union Permutations(Sessions) \union Permutations(Workers)
=============================================================================
