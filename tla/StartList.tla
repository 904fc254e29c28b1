----------------------------- MODULE StartList -----------------------------
(***************************************************************************)
(* The "*very* simple dependency resolution" of cube-ctl start, which the  *)
(* script essential-autostart carries a copy of.  The list under           *)
(* construction is a line of text; whether a name is on it is asked of     *)
(* grep -w, which answers yes when the name is a word of the line: "db" is *)
(* found where only "web-db" is listed.                                    *)
(***************************************************************************)
EXTENDS Naturals, Sequences

CONSTANTS Containers,   \* the names of containers
          NoContainer,  \* the content of a depends file that does not exist
          Words         \* Words[x]: the names grep -w finds x in

\* grep -w finds every name in itself.
ASSUME WordsAssumption ==
    /\ NoContainer \notin Containers
    /\ Words \in [Containers -> SUBSET Containers]
    /\ \A c \in Containers : c \in Words[c]

\* Nothing is a word of another name: the case the script is written for.
ExactWords == \A c \in Containers : Words[c] = {c}

\* The depends files: one name per container at most.
DependsFiles == [Containers -> Containers \cup {NoContainer}]

\* No dependency has a dependency itself.
ChainFree(depends) ==
    \A c \in Containers :
        depends[c] # NoContainer => depends[depends[c]] = NoContainer

Listed(order, c) == \E i \in DOMAIN order : order[i] \in Words[c]

\* Mutant: the container goes in front of its dependency.
ContainerFirst(order, depends, c) ==
    IF depends[c] # NoContainer /\ ~Listed(order, depends[c])
    THEN order \o <<c, depends[c]>>
    ELSE order

\* First half of an iteration: the dependency and the container, in that
\* order, when the dependency is not on the list.
WithDependency(order, depends, c) ==
    IF depends[c] # NoContainer /\ ~Listed(order, depends[c])
    THEN order \o <<depends[c], c>>
    ELSE order

\* Mutant: the container is added whether the list has it or not.
AddAgain(order, depends, c) == Append(WithDependency(order, depends, c), c)

\* Mutant: a container with a depends file is left to the first half.
AddOnlyIndependent(order, depends, c) ==
    IF Listed(order, c) \/ depends[c] # NoContainer
    THEN WithDependency(order, depends, c)
    ELSE Append(order, c)

\* The whole iteration: "no depends, just add it!".
AddToOrder(order, depends, c) ==
    LET withDep == WithDependency(order, depends, c)
    IN  IF Listed(withDep, c) THEN withDep ELSE Append(withDep, c)

=============================================================================
