-------------------------- MODULE MCInvoiceLedger --------------------------
EXTENDS InvoiceLedger, TLC

CONSTANTS alice, bob

\* Copies of one paper invoice, so every pair of an owner's rows can match.
MCOwner == 1 :> alice @@ 2 :> alice @@ 3 :> bob @@ 4 :> alice
MCPrinted == [i \in 1..4 |-> "n1"]

MCOwnerPair == [i \in 1..2 |-> MCOwner[i]]
MCPrintedPair == [i \in 1..2 |-> MCPrinted[i]]

Environment(n, ops) == [size |-> n, ops |-> {"upload"} \cup ops]

\* Where the process runs on and the database answers: one request at a time,
\* batch deletion over two owners, parallel uploads, two tasks on one invoice.
\* Where they do not: one request at a time, and batch deletion.
MCSafety ==
    {Environment(2, {"reprocess", "save", "delete", "busy"}),
     Environment(3, {"batch", "delete"}),
     Environment(4, {"parallel", "delete"}),
     Environment(1, {"parallel", "reprocess", "save", "delete", "busy"}),
     Environment(2, {"reprocess", "save", "delete", "busy", "restart", "fault"}),
     Environment(2, {"batch", "delete", "restart", "fault"})}

\* Requests that overlap and wait for each other's slot, while rows are asked
\* for again or edited; one request at a time with both; and overlapping requests
\* under deletions, refusals, database errors and restarts.
MCLiveness ==
    {Environment(2, {"parallel", "reprocess"}),
     Environment(2, {"reprocess", "save"}),
     Environment(2, {"parallel", "save"}),
     Environment(2, {"parallel", "delete", "busy", "restart", "fault"})}

MCBatch == {Environment(2, {"batch"})}

RequestSymmetry == Permutations(Requests)
=============================================================================
