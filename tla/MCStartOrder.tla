---------------------------- MODULE MCStartOrder ----------------------------
(* Three containers, every list of names, every choice of depends files    *)
(* without a chain, and a link between two of the containers at most.      *)
EXTENDS StartOrder, TLC

CONSTANTS a, b, c

MCContainers == {a, b, c}

\* No name is a word of another ("db" is one of "web-db").
OwnWords == [x \in MCContainers |-> {x}]

NoSelf(d) == \A x \in MCContainers : d[x] # x
ChainFreeFiles == { d \in DependsFiles : NoSelf(d) /\ ChainFree(d) }

\* What `cube-cfg link` leaves for a port of localhost: one rule that names no
\* container and one that names the other.
NoLink == [x \in MCContainers |-> {}]
Links ==
  { [NoLink EXCEPT ![e[1]] = {e[2], NoContainer}] :
      e \in { p \in MCContainers \X MCContainers : p[1] # p[2] } }
LinkFiles == {NoLink} \cup Links

Symmetry == Permutations(MCContainers)

=============================================================================
