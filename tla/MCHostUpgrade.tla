--------------------------- MODULE MCHostUpgrade ---------------------------
(* Instance of HostUpgrade for TLC: three releases, where only the step from *)
(* release 1 to release 2 changes the kernel package.                        *)
EXTENDS HostUpgrade

MCKernelOf == [r \in 1..MaxRelease |-> IF r = 1 THEN "k1" ELSE "k2"]
MCKernels  == {"k1", "k2"}

===========================================================================
