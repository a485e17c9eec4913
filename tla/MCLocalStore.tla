---------------------------- MODULE MCLocalStore ----------------------------
EXTENDS LocalStore, TLC

CONSTANTS f1, f2, s1, s2, s3

\* Two files that share a shard.
MCPlaced == (f1 :> <<s1, s2>>) @@ (f2 :> <<s2, s3>>)
MCSize == [s \in {s1, s2, s3} |-> 1]

\* Requests are only compared.
Symmetry == Permutations(Tasks)
=============================================================================
