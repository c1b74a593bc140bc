-------------------------- MODULE MCReconciliation --------------------------
EXTENDS Reconciliation, TLC

CONSTANTS alice, bob, inv1, inv2, exp1, exp2, prj1, prj2

\* Two expenses, an invoice and a project of one tenant, an invoice and a
\* project of another.
MCOwner == inv1 :> alice @@ inv2 :> bob @@ exp1 :> alice @@ exp2 :> alice
              @@ prj1 :> alice @@ prj2 :> bob
=============================================================================
