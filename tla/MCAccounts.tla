----------------------------- MODULE MCAccounts -----------------------------
EXTENDS Accounts, TLC

CONSTANTS root, ann, ben

\* bootstrap_admin's name and two addresses.
MCUsername == root :> "admin" @@ ann :> "ann@example.com" @@ ben :> "ben@example.com"

RequestSymmetry == Permutations(Requests)
=============================================================================
