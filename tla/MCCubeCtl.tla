----------------------------- MODULE MCCubeCtl -----------------------------
(* One operator with two names, or two operators with names of their own.  *)
EXTENDS CubeCtl, TLC

CONSTANTS n1, n2, n3, i1, i2, o1, o2

LoneOwner == [o \in {o1} |-> {n1, n2}]
DisjointOwners == [o \in {o1, o2} |-> IF o = o1 THEN {n1, n2} ELSE {n3}]

\* o1 treats its two names alike, and nobody looks into an image.
Symmetry == {p @@ q : p \in Permutations({n1, n2}), q \in Permutations(Images)}

=============================================================================
