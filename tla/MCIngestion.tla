---------------------------- MODULE MCIngestion ----------------------------
EXTENDS Ingestion, TLC

CONSTANTS c1, c2

\* Two files fill the storage only together with a third ingestion of one.
MCSize == c1 :> 1 @@ c2 :> 2

CallerSymmetry == Permutations(Callers)
=============================================================================
