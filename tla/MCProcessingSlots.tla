------------------------- MODULE MCProcessingSlots -------------------------
EXTENDS ProcessingSlots, TLC

CONSTANTS u1, u2, j1, j2, j3, j4, j5

MCUsers == {u1, u2}

\* Three jobs of u1, one of u2 and one without an owner.
MCOwner == (j1 :> u1) @@ (j2 :> u1) @@ (j3 :> u1) @@ (j4 :> u2) @@ (j5 :> NoUser)
MCJobs == {j1, j2, j3, j4, j5}
=============================================================================
