------------------------------- MODULE MCSignIn -------------------------------
(* A browser that moves between two addresses, a name, another limited form. *)
EXTENDS SignIn, TLC

CONSTANTS home, cafe, ann, form

MCLimit == [k \in {home, cafe, ann, form} |-> IF k = form THEN 1 ELSE 3]
MCWindow == [k \in {home, cafe, ann, form} |-> 2]
Symmetry == Permutations({home, cafe})
=============================================================================
