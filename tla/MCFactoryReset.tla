--------------------------- MODULE MCFactoryReset ---------------------------
(* Instance of FactoryReset for TLC: two releases with a kernel each, one    *)
(* container with a subvolume of its own.                                    *)
EXTENDS FactoryReset

MCKernelOf == [r \in 1..MaxRelease |-> IF r = 1 THEN "k1" ELSE "k2"]
MCKernels  == {"k1", "k2"}
=============================================================================
