-------------------------- MODULE StartOrderProofs --------------------------
(***************************************************************************)
(* What the two launchers guarantee for every set of containers, every     *)
(* list of names and every choice of installed and running containers.     *)
(* The order, and that nobody is forgotten, need that no dependency has a  *)
(* dependency and no name is a word of another: TLC finds them violated    *)
(* without either.                                                         *)
(***************************************************************************)
EXTENDS StartOrder, TLAPS

\* The depends files the simple resolution is good for.
PlainDependencies == ExactWords /\ \A d \in Dependencies : ChainFree(d)

Occurs(s, c) == \E i \in DOMAIN s : s[i] = c

Distinct(s) == \A i, j \in DOMAIN s : s[i] = s[j] => i = j

\* The element at i has its dependency in front of it.
DependencyBefore(o, d, i) ==
    d[o[i]] # NoContainer => \E k \in 1..(i-1) : o[k] = d[o[i]]

Orderly(o, d) == Distinct(o) /\ \A i \in DOMAIN o : DependencyBefore(o, d, i)

\* The elements of the list whose turn is over.
Passed == CASE pc = "order" -> {}
            [] pc = "launch" -> 1..(at-1)
            [] OTHER -> DOMAIN order

OrderInv ==
    /\ TypeOK
    /\ Orderly(order, depends)
    /\ \A k \in DOMAIN request :
          pc # "order" \/ k < at => Occurs(order, request[k])
    /\ pc = "launch" => at <= Len(order) + 1
    /\ Distinct(launched)
    /\ \A i \in DOMAIN launched : \E j \in DOMAIN order :
          j \in Passed /\ order[j] = launched[i]
    /\ \A j \in DOMAIN order :
          j \in Passed /\ order[j] \in installed => order[j] \in served

-----------------------------------------------------------------------------
(* The list                                                                *)

\* Two elements at the end of a sequence.
LEMMA AppendTwo ==
    ASSUME NEW S, NEW s \in Seq(S), NEW x \in S, NEW y \in S,
           NEW r, r = s \o <<x, y>>
    PROVE  /\ r \in Seq(S)
           /\ Len(r) = Len(s) + 2
           /\ \A i \in DOMAIN s : r[i] = s[i]
           /\ r[Len(s) + 1] = x
           /\ r[Len(s) + 2] = y
           /\ DOMAIN r = DOMAIN s \cup {Len(s) + 1, Len(s) + 2}
<1> DEFINE s1 == Append(s, x)
<1>1. /\ s1 \in Seq(S) /\ Len(s1) = Len(s) + 1
      /\ \A i \in DOMAIN s : s1[i] = s[i]
      /\ s1[Len(s) + 1] = x
  OBVIOUS
<1>2. r = Append(s1, y)
  OBVIOUS
<1> HIDE DEF s1
<1>3. /\ r \in Seq(S) /\ Len(r) = Len(s1) + 1
      /\ \A i \in DOMAIN s1 : r[i] = s1[i]
      /\ r[Len(s1) + 1] = y
  BY <1>1, <1>2
<1>4. DOMAIN s = 1..Len(s) /\ DOMAIN s1 = 1..Len(s1) /\ DOMAIN r = 1..Len(r) /\ Len(s) \in Nat
  BY <1>1, <1>3
<1> QED BY <1>1, <1>3, <1>4

\* One iteration of the resolution loop: the list is a list of containers.
LEMMA AddToOrderType ==
    ASSUME NEW o \in Seq(Containers), NEW d \in DependsFiles, NEW c \in Containers
    PROVE  AddToOrder(o, d, c) \in Seq(Containers)
<1>1. WithDependency(o, d, c) \in Seq(Containers)
  <2>1. CASE d[c] # NoContainer
    <3>1. <<d[c], c>> \in Seq(Containers)
      BY <2>1 DEF DependsFiles
    <3> QED BY <3>1 DEF WithDependency
  <2>2. CASE d[c] = NoContainer
    BY <2>2 DEF WithDependency
  <2> QED BY <2>1, <2>2
<1> QED BY <1>1 DEF AddToOrder

\* The three things an iteration can do to the list when names are told
\* apart: dependency and container, the container alone, nothing.
LEMMA AddToOrderCases ==
    ASSUME ExactWords,
           NEW o \in Seq(Containers), NEW d \in DependsFiles, NEW c \in Containers,
           NEW r, r = AddToOrder(o, d, c)
    PROVE  \/ /\ d[c] \in Containers /\ ~Occurs(o, d[c])
              /\ r = o \o <<d[c], c>>
           \/ /\ d[c] # NoContainer => Occurs(o, d[c])
              /\ ~Occurs(o, c)
              /\ r = Append(o, c)
           \/ r = o /\ Occurs(o, c)
<1>1. \A x \in Containers, s \in Seq(Containers) : Listed(s, x) <=> Occurs(s, x)
  BY DEF Listed, Occurs, ExactWords
<1>2. CASE d[c] # NoContainer /\ ~Listed(o, d[c])
  <2>1. d[c] \in Containers
    BY <1>2 DEF DependsFiles
  <2> DEFINE w == o \o <<d[c], c>>
  <2>2. WithDependency(o, d, c) = w
    BY <1>2 DEF WithDependency
  <2>3. w \in Seq(Containers) /\ Len(o) + 2 \in DOMAIN w /\ w[Len(o) + 2] = c
    BY <2>1
  <2>4. Listed(w, c)
    BY <1>1, <2>3 DEF Occurs
  <2>5. r = w
    BY <2>2, <2>4 DEF AddToOrder
  <2> QED BY <1>1, <1>2, <2>1, <2>5
<1>3. CASE ~(d[c] # NoContainer /\ ~Listed(o, d[c]))
  <2>1. WithDependency(o, d, c) = o
    BY <1>3 DEF WithDependency
  <2>2. r = IF Listed(o, c) THEN o ELSE Append(o, c)
    BY <2>1 DEF AddToOrder
  <2>3. d[c] # NoContainer => Occurs(o, d[c])
    BY <1>1, <1>3 DEF DependsFiles
  <2> QED BY <1>1, <2>2, <2>3
<1> QED BY <1>2, <1>3

\* An iteration keeps the list orderly, keeps what was on it, and adds the
\* container.
LEMMA AddToOrderOrderly ==
    ASSUME ExactWords,
           NEW o \in Seq(Containers), NEW d \in DependsFiles, NEW c \in Containers,
           ChainFree(d), Orderly(o, d),
           NEW r, r = AddToOrder(o, d, c)
    PROVE  /\ Orderly(r, d)
           /\ Occurs(r, c)
           /\ \A x : Occurs(o, x) => Occurs(r, x)
<1> USE WordsAssumption
<1>1. CASE d[c] \in Containers /\ ~Occurs(o, d[c]) /\ r = o \o <<d[c], c>>
  <2>1. /\ r \in Seq(Containers)
        /\ Len(r) = Len(o) + 2
        /\ \A i \in DOMAIN o : r[i] = o[i]
        /\ r[Len(o) + 1] = d[c]
        /\ r[Len(o) + 2] = c
        /\ DOMAIN r = DOMAIN o \cup {Len(o) + 1, Len(o) + 2}
    BY <1>1, AppendTwo
  <2>2. d[d[c]] = NoContainer /\ d[c] # c
    BY <1>1 DEF ChainFree
  <2>3. ~Occurs(o, c)
    <3>1. SUFFICES ASSUME NEW i \in DOMAIN o, o[i] = c PROVE FALSE
      BY DEF Occurs
    <3>2. PICK k \in 1..(i-1) : o[k] = d[c]
      BY <3>1, <1>1 DEF Orderly, DependencyBefore
    <3> QED BY <3>1, <3>2, <1>1 DEF Occurs
  <2>4. Distinct(r)
    BY <1>1, <2>1, <2>2, <2>3 DEF Distinct, Orderly, Occurs
  <2>5. ASSUME NEW i \in DOMAIN r PROVE DependencyBefore(r, d, i)
    <3>1. CASE i \in DOMAIN o
      BY <3>1, <2>1 DEF Orderly, DependencyBefore
    <3>2. CASE i = Len(o) + 1
      BY <3>2, <2>1, <2>2 DEF DependencyBefore
    <3>3. CASE i = Len(o) + 2
      BY <3>3, <2>1 DEF DependencyBefore
    <3> QED BY <2>1, <3>1, <3>2, <3>3
  <2>6. Occurs(r, c) /\ \A x : Occurs(o, x) => Occurs(r, x)
    BY <2>1 DEF Occurs
  <2> QED BY <2>4, <2>5, <2>6 DEF Orderly
<1>2. CASE /\ d[c] # NoContainer => Occurs(o, d[c])
           /\ ~Occurs(o, c)
           /\ r = Append(o, c)
  <2>1. /\ r \in Seq(Containers)
        /\ Len(r) = Len(o) + 1
        /\ \A i \in DOMAIN o : r[i] = o[i]
        /\ r[Len(o) + 1] = c
        /\ DOMAIN r = DOMAIN o \cup {Len(o) + 1}
    BY <1>2
  <2>2. Distinct(r)
    BY <1>2, <2>1 DEF Distinct, Orderly, Occurs
  <2>3. ASSUME NEW i \in DOMAIN r PROVE DependencyBefore(r, d, i)
    <3>1. CASE i \in DOMAIN o
      BY <3>1, <2>1 DEF Orderly, DependencyBefore
    <3>2. CASE i = Len(o) + 1
      BY <3>2, <2>1, <1>2 DEF DependencyBefore, Occurs
    <3> QED BY <2>1, <3>1, <3>2
  <2>4. Occurs(r, c) /\ \A x : Occurs(o, x) => Occurs(r, x)
    BY <2>1 DEF Occurs
  <2> QED BY <2>2, <2>3, <2>4 DEF Orderly
<1>3. CASE r = o /\ Occurs(o, c)
  BY <1>3
<1> QED BY <1>1, <1>2, <1>3, AddToOrderCases

-----------------------------------------------------------------------------
(* The launchers                                                           *)

\* The lists of names are lists of containers.
LEMMA RequestType ==
    ASSUME NEW l, NEW q \in Requests(l)
    PROVE  q \in Seq(Containers)
<1>1. \A s \in AutoLists : s \in Seq(Containers)
  <2> SUFFICES ASSUME NEW n \in 0..Cardinality(Containers), NEW s \in [1..n -> Containers]
               PROVE  s \in Seq(Containers)
    BY DEF AutoLists
  <2>1. CASE n \in Nat
    BY <2>1
  <2>2. CASE n \notin Nat
    BY <2>2
  <2> QED BY <2>1, <2>2
<1>2. CASE l = "essential"
  BY <1>1, <1>2 DEF Requests
<1>3. CASE l # "essential"
  <2>1. PICK pre \in {<<>>} \cup { <<c>> : c \in Containers }, auto \in AutoLists :
            q = pre \o auto
    BY <1>3 DEF Requests
  <2>2. pre \in Seq(Containers)
    <3>1. CASE pre = <<>>
      BY <3>1
    <3>2. ASSUME NEW c \in Containers, pre = <<c>> PROVE pre \in Seq(Containers)
      BY <3>2
    <3> QED BY <2>1, <3>1, <3>2
  <2> QED BY <1>1, <2>1, <2>2
<1> QED BY <1>2, <1>3

LEMMA InitType == Init => TypeOK
<1> SUFFICES ASSUME Init PROVE TypeOK
  OBVIOUS
<1>1. request \in Seq(Containers)
  BY RequestType DEF Init
<1> QED BY <1>1 DEF Init, TypeOK

LEMMA NextType == TypeOK /\ [Next]_vars => TypeOK'
<1> SUFFICES ASSUME TypeOK, [Next]_vars PROVE TypeOK'
  OBVIOUS
<1> USE DEF TypeOK, config, network
<1>1. CASE Order
  <2>1. request[at] \in Containers /\ depends \in DependsFiles
    BY <1>1, DependenciesAssumption DEF Order
  <2>2. order' \in Seq(Containers)
    BY <1>1, <2>1, AddToOrderType DEF Order
  <2> QED BY <1>1, <2>2 DEF Order
<1>2. CASE Ordered
  BY <1>2 DEF Ordered
<1>3. CASE SkipMissing
  BY <1>3 DEF SkipMissing
<1>4. CASE AlreadyRunning
  BY <1>4 DEF AlreadyRunning
<1>5. CASE Launch
  <2>1. order[at] \in installed
    BY <1>5 DEF Launch
  <2>2. launched' \in Seq(installed)
    BY <1>5, <2>1 DEF Launch
  <2>3. running' \subseteq installed /\ stacked' \subseteq running' \X Rules
    BY <1>5, <2>1 DEF Launch
  <2> QED BY <1>5, <2>1, <2>2, <2>3 DEF Launch
<1>6. CASE Launched
  BY <1>6 DEF Launched
<1>7. CASE Stack
  <2>1. Resolved(request[at]) \subseteq Rules
    BY DEF Resolved, Rules
  <2>2. Resolved(request[at]) # {} => request[at] \in running
    BY DEF Resolved
  <2>3. PICK lost \in SUBSET Resolved(request[at]) :
          /\ stacked' = stacked \cup ({request[at]} \X (Resolved(request[at]) \ lost))
          /\ refused' = refused \cup ({request[at]} \X lost)
    BY <1>7 DEF Stack, StackedNames
  <2>4. request[at] \in Containers
    BY <1>7 DEF Stack, StackedNames
  <2>5. stacked' \subseteq running \X Rules /\ refused' \subseteq Containers \X Rules
    BY <2>1, <2>2, <2>3, <2>4
  <2> QED BY <1>7, <2>5 DEF Stack
<1>8. CASE Finish
  BY <1>8 DEF Finish
<1>9. ASSUME NEW c \in Containers, Exit(c) PROVE TypeOK'
  BY <1>9 DEF Exit
<1>10. CASE UNCHANGED vars
  BY <1>10 DEF vars
<1> QED BY <1>1, <1>2, <1>3, <1>4, <1>5, <1>6, <1>7, <1>8, <1>9, <1>10 DEF Next

\* The state of a launcher keeps its type, whatever the depends files say.
THEOREM StartTypeCorrect == Spec => []TypeOK
<1> QED BY InitType, NextType, PTL DEF Spec

LEMMA InitOrder == Init => OrderInv
<1> SUFFICES ASSUME Init PROVE OrderInv
  OBVIOUS
<1>1. TypeOK
  BY InitType
<1>2. order = <<>> /\ launched = <<>> /\ pc = "order" /\ at = 1
  BY DEF Init
<1>3. DOMAIN order = {} /\ DOMAIN launched = {}
  BY <1>2
<1>4. DOMAIN request \subseteq Nat \ {0}
  BY <1>1 DEF TypeOK
<1> QED BY <1>1, <1>2, <1>3, <1>4 DEF OrderInv, Orderly, Distinct

LEMMA NextOrder ==
    ASSUME PlainDependencies PROVE OrderInv /\ [Next]_vars => OrderInv'
<1> SUFFICES ASSUME OrderInv, [Next]_vars PROVE OrderInv'
  OBVIOUS
<1>1. TypeOK /\ TypeOK'
  BY NextType DEF OrderInv
<1>2. CASE Order
  <2>1. /\ request[at] \in Containers /\ depends \in DependsFiles
        /\ at \in DOMAIN request /\ pc = "order" /\ at \in Nat /\ at' = at + 1
        /\ order \in Seq(Containers) /\ ChainFree(depends) /\ ExactWords
        /\ order' = AddToOrder(order, depends, request[at])
        /\ UNCHANGED <<depends, installed, request, pc, launched, served>>
    BY <1>1, <1>2, DependenciesAssumption DEF Order, TypeOK, PlainDependencies, config
  <2>2. /\ Orderly(order', depends)
        /\ Occurs(order', request[at])
        /\ \A x : Occurs(order, x) => Occurs(order', x)
    BY <2>1, AddToOrderOrderly DEF OrderInv
  <2>3. Orderly(order, depends)'
    BY <2>1, <2>2
  <2>4. ASSUME NEW k \in DOMAIN request, k < at' PROVE Occurs(order', request[k])
    <3>1. CASE k = at
      BY <2>2, <3>1
    <3>2. CASE k < at
      BY <2>1, <2>2, <3>2 DEF OrderInv
    <3> QED BY <1>1, <2>1, <2>4, <3>1, <3>2 DEF TypeOK
  <2>5. Passed = {} /\ Passed' = {}
    BY <2>1 DEF Passed
  <2>6. DOMAIN launched = {}
    BY <2>5 DEF OrderInv
  <2>7. (\A k \in DOMAIN request : pc # "order" \/ k < at => Occurs(order, request[k]))'
    BY <2>1, <2>4
  <2>8. Distinct(launched)'
    BY <2>1, <2>6 DEF Distinct
  <2>9. (\A i \in DOMAIN launched : \E j \in DOMAIN order :
            j \in Passed /\ order[j] = launched[i])'
    BY <2>1, <2>6
  <2>10. (\A j \in DOMAIN order :
            j \in Passed /\ order[j] \in installed => order[j] \in served)'
    BY <2>5
  <2> QED BY <1>1, <2>1, <2>3, <2>7, <2>8, <2>9, <2>10 DEF OrderInv
<1>3. CASE Ordered
  <2>1. /\ pc = "order" /\ pc' = "launch" /\ at' = 1 /\ at > Len(request)
        /\ UNCHANGED <<depends, installed, request, order, launched, served>>
    BY <1>3 DEF Ordered, config
  <2>2. Passed = {} /\ Passed' = {}
    BY <2>1 DEF Passed
  <2>3. \A k \in DOMAIN request : k < at
    BY <1>1, <2>1 DEF TypeOK
  <2>4. Len(order) \in Nat
    BY <1>1 DEF TypeOK
  <2> QED BY <1>1, <2>1, <2>2, <2>3, <2>4 DEF OrderInv, Orderly, Distinct, DependencyBefore, Occurs
<1>4. CASE SkipMissing \/ AlreadyRunning
  <2>1. /\ pc = "launch" /\ pc' = "launch" /\ at <= Len(order) /\ at' = at + 1
        /\ UNCHANGED <<depends, installed, request, order, launched>>
        /\ served \subseteq served'
        /\ order[at] \in installed => order[at] \in served'
    BY <1>4 DEF SkipMissing, AlreadyRunning, config
  <2>2. Passed' = Passed \cup {at} /\ at \in Nat /\ Len(order) \in Nat
    BY <1>1, <2>1 DEF Passed, TypeOK
  <2> QED BY <1>1, <2>1, <2>2 DEF OrderInv, Orderly, Distinct, DependencyBefore, Occurs
<1>5. CASE Launch
  <2>1. /\ pc = "launch" /\ pc' = "launch" /\ at <= Len(order) /\ at' = at + 1
        /\ UNCHANGED <<depends, installed, request, order>>
        /\ launched' = Append(launched, order[at])
        /\ served' = served \cup {order[at]}
        /\ order[at] \in installed
    BY <1>5 DEF Launch, config
  <2>2. /\ Passed = 1..(at-1) /\ Passed' = Passed \cup {at} /\ at \notin Passed
        /\ at \in DOMAIN order /\ Len(order) \in Nat
    BY <1>1, <2>1 DEF Passed, TypeOK
  <2> DEFINE n == Len(launched) + 1
  <2>3. /\ DOMAIN launched' = DOMAIN launched \cup {n}
        /\ n \notin DOMAIN launched
        /\ \A i \in DOMAIN launched : launched'[i] = launched[i]
        /\ launched'[n] = order[at]
    BY <1>1, <2>1 DEF TypeOK
  <2> HIDE DEF n
  <2>4. \A i \in DOMAIN launched : launched[i] # order[at]
    BY <2>2 DEF OrderInv, Orderly, Distinct
  <2>5. Distinct(launched)'
    BY <2>3, <2>4 DEF OrderInv, Distinct
  <2>6. (\A i \in DOMAIN launched : \E j \in DOMAIN order :
            j \in Passed /\ order[j] = launched[i])'
    BY <2>1, <2>2, <2>3 DEF OrderInv
  <2>7. (\A j \in DOMAIN order :
            j \in Passed /\ order[j] \in installed => order[j] \in served)'
    BY <2>1, <2>2 DEF OrderInv
  <2>8. (pc = "launch" => at <= Len(order) + 1)'
    BY <1>1, <2>1, <2>2 DEF TypeOK
  <2>9. (Orderly(order, depends)
           /\ \A k \in DOMAIN request :
                pc # "order" \/ k < at => Occurs(order, request[k]))'
    BY <2>1 DEF OrderInv
  <2> QED BY <1>1, <2>5, <2>6, <2>7, <2>8, <2>9 DEF OrderInv
<1>6. CASE Launched
  <2>1. /\ pc = "launch" /\ pc' \in {"stack", "done"} /\ at > Len(order)
        /\ UNCHANGED <<depends, installed, request, order, launched, served>>
    BY <1>6 DEF Launched, config
  <2>2. Passed = DOMAIN order /\ Passed' = DOMAIN order
    BY <1>1, <2>1 DEF Passed, TypeOK, OrderInv
  <2> QED BY <1>1, <2>1, <2>2 DEF OrderInv, Orderly, Distinct, DependencyBefore, Occurs
<1>7. CASE Stack \/ Finish
  <2>1. /\ pc = "stack" /\ pc' \in {"stack", "done"}
        /\ UNCHANGED <<depends, installed, request, order, launched, served>>
    BY <1>7 DEF Stack, Finish, config
  <2>2. Passed = DOMAIN order /\ Passed' = DOMAIN order
    BY <2>1 DEF Passed
  <2> QED BY <1>1, <2>1, <2>2 DEF OrderInv, Orderly, Distinct, DependencyBefore, Occurs
<1>8. CASE UNCHANGED vars \/ \E c \in Containers : Exit(c)
  <2>1. UNCHANGED <<depends, installed, request, pc, at, order, launched, served>>
    BY <1>8 DEF vars, Exit, config
  <2>2. Passed' = Passed
    BY <2>1 DEF Passed
  <2> QED BY <1>1, <2>1, <2>2 DEF OrderInv, Orderly, Distinct, DependencyBefore, Occurs
<1> QED BY <1>2, <1>3, <1>4, <1>5, <1>6, <1>7, <1>8 DEF Next

LEMMA OrderInvariant ==
    ASSUME PlainDependencies PROVE Spec => []OrderInv
<1>1. Init => OrderInv
  BY InitOrder
<1>2. OrderInv /\ [Next]_vars => OrderInv'
  BY NextOrder
<1> QED BY <1>1, <1>2, PTL DEF Spec

\* Neither script launches a container twice in one run.  cube-ctl would find
\* it running the second time; essential-autostart depends on this.
THEOREM NothingLaunchedTwice ==
    ASSUME PlainDependencies PROVE Spec => []LaunchedOnce
<1>1. OrderInv => LaunchedOnce
  BY DEF OrderInv, LaunchedOnce, Distinct
<1> QED BY <1>1, OrderInvariant, PTL

\* Every installed container that was asked for has its turn, and so has the
\* dependency it names.
THEOREM EverythingServed ==
    ASSUME PlainDependencies PROVE Spec => []AllServed
<1>1. ASSUME OrderInv PROVE AllServed
  <2> SUFFICES ASSUME pc \in {"stack", "done"}, NEW k \in DOMAIN request,
                      NEW c \in installed, c = request[k] \/ c = depends[request[k]]
               PROVE  c \in served
    BY DEF AllServed
  <2>1. Passed = DOMAIN order
    BY DEF Passed
  <2>2. PICK j \in DOMAIN order : order[j] = request[k]
    BY <1>1 DEF OrderInv, Occurs
  <2>3. CASE c = request[k]
    BY <1>1, <2>1, <2>2, <2>3 DEF OrderInv
  <2>4. CASE c = depends[request[k]]
    <3>1. c # NoContainer
      BY <1>1, WordsAssumption DEF OrderInv, TypeOK
    <3>2. DependencyBefore(order, depends, j)
      BY <1>1 DEF OrderInv, Orderly
    <3>3. PICK i \in 1..(j-1) : order[i] = c
      BY <2>2, <2>4, <3>1, <3>2 DEF DependencyBefore
    <3>4. i \in DOMAIN order
      BY <1>1, <2>2, <3>3 DEF OrderInv, TypeOK
    <3> QED BY <1>1, <2>1, <3>3, <3>4 DEF OrderInv
  <2> QED BY <2>3, <2>4
<1> QED BY <1>1, OrderInvariant, PTL

\* A container is launched after the container it depends on had its turn.
THEOREM DependenciesFirst ==
    ASSUME PlainDependencies PROVE Spec => DependencyServedFirst
<1> DEFINE Step ==
      \A c \in installed :
          launched' = Append(launched, c) /\ depends[c] \in installed
              => depends[c] \in served
<1>1. ASSUME OrderInv, [Next]_vars PROVE [Step]_vars
  <2> SUFFICES ASSUME Next, NEW c \in installed,
                      launched' = Append(launched, c), depends[c] \in installed
               PROVE  depends[c] \in served
    BY <1>1
  <2>1. launched \in Seq(installed) /\ order \in Seq(Containers) /\ at \in Nat \ {0}
    BY <1>1 DEF OrderInv, TypeOK
  <2>2. launched' # launched
    <3>1. Len(launched') = Len(launched) + 1 /\ Len(launched) \in Nat
      BY <2>1
    <3> QED BY <3>1
  <2>3. Launch
    BY <2>2 DEF Next, Order, Ordered, SkipMissing, AlreadyRunning, Launched, Stack, Finish, Exit
  <2>4. pc = "launch" /\ at \in DOMAIN order /\ order[at] = c
    <3>1. pc = "launch" /\ at <= Len(order) /\ launched' = Append(launched, order[at])
          /\ order[at] \in installed
      BY <2>3 DEF Launch
    <3>2. order[at] = c
      <4>1. launched'[Len(launched) + 1] = c
        BY <2>1
      <4>2. launched'[Len(launched) + 1] = order[at]
        BY <2>1, <3>1
      <4> QED BY <4>1, <4>2
    <3> QED BY <2>1, <3>1, <3>2
  <2>5. depends[c] # NoContainer
    BY <1>1, WordsAssumption DEF OrderInv, TypeOK
  <2>6. PICK i \in 1..(at-1) : order[i] = depends[c]
    BY <1>1, <2>4, <2>5 DEF OrderInv, Orderly, DependencyBefore
  <2>7. i \in DOMAIN order /\ i \in Passed
    BY <2>1, <2>4, <2>6 DEF Passed
  <2> QED BY <1>1, <2>6, <2>7 DEF OrderInv
<1>2. OrderInv /\ [Next]_vars => [Step]_vars
  BY <1>1
<1> QED BY <1>2, OrderInvariant, PTL DEF Spec, DependencyServedFirst

-----------------------------------------------------------------------------
(* The network rules                                                       *)

\* The names whose turn in the walk that sets the rules is over, or all of
\* them when cube-ctl has come to its end, have as long as they run every rule
\* about a container that runs, but for the refused ones.
Stacked(k) ==
    \A r \in rules[request[k]] :
        request[k] \in running /\ r \in running \cup {NoContainer} =>
            <<request[k], r>> \in stacked \cup refused

StackInv ==
    /\ TypeOK
    /\ pc = "stack" => \A k \in DOMAIN request : k < at => Stacked(k)
    /\ pc = "done" /\ launcher = "cube_ctl" => \A k \in DOMAIN request : Stacked(k)

LEMMA NextStack == StackInv /\ [Next]_vars => StackInv'
<1> SUFFICES ASSUME StackInv, [Next]_vars PROVE StackInv'
  OBVIOUS
<1>1. TypeOK /\ TypeOK'
  BY NextType DEF StackInv
<1>2. CASE pc' \in {"order", "launch"}
  BY <1>1, <1>2 DEF StackInv
<1>3. CASE Launched
  <2>1. /\ at' = 1 /\ UNCHANGED <<launcher, request>>
        /\ pc' = IF launcher = "cube_ctl" THEN "stack" ELSE "done"
    BY <1>3 DEF Launched, config
  <2>2. \A k \in DOMAIN request' : ~(k < at')
    BY <1>1, <2>1 DEF TypeOK
  <2> QED BY <1>1, <2>1, <2>2 DEF StackInv
<1>4. CASE Stack
  <2>1. /\ pc = "stack" /\ pc' = "stack" /\ at' = at + 1
        /\ UNCHANGED <<launcher, rules, request, running>>
    BY <1>4 DEF Stack, config
  <2>2. PICK lost \in SUBSET Resolved(request[at]) :
          /\ stacked' = stacked \cup ({request[at]} \X (Resolved(request[at]) \ lost))
          /\ refused' = refused \cup ({request[at]} \X lost)
    BY <1>4 DEF Stack, StackedNames
  <2>3. ASSUME NEW k \in DOMAIN request, k < at' PROVE Stacked(k)'
    <3>1. CASE k < at
      BY <2>1, <2>2, <3>1 DEF StackInv, Stacked
    <3>2. CASE k = at
      <4> SUFFICES ASSUME NEW r \in rules[request[at]], request[at] \in running,
                          r \in running \cup {NoContainer}
                   PROVE  <<request[at], r>> \in stacked' \cup refused'
        BY <2>1, <3>2 DEF Stacked
      <4>1. r \in Resolved(request[at])
        BY DEF Resolved
      <4> QED BY <2>2, <4>1
    <3> QED BY <1>1, <2>1, <2>3, <3>1, <3>2 DEF TypeOK
  <2> QED BY <1>1, <2>1, <2>3 DEF StackInv
<1>5. CASE Finish
  <2>1. /\ pc = "stack" /\ pc' = "done" /\ at > Len(request)
        /\ UNCHANGED <<rules, request, running, stacked, refused>>
    BY <1>5 DEF Finish, StackedNames, config, network
  <2>2. \A k \in DOMAIN request : k < at
    BY <1>1, <2>1 DEF TypeOK
  <2> QED BY <1>1, <2>1, <2>2 DEF StackInv, Stacked
<1>6. ASSUME NEW c \in Containers, Exit(c) PROVE StackInv'
  BY <1>1, <1>6 DEF Exit, config, network, StackInv, Stacked
<1>7. CASE UNCHANGED vars
  BY <1>1, <1>7 DEF vars, config, network, StackInv, Stacked
<1>8. CASE Order \/ Ordered \/ SkipMissing \/ AlreadyRunning \/ Launch
  BY <1>2, <1>8 DEF Order, Ordered, SkipMissing, AlreadyRunning, Launch
<1> QED BY <1>3, <1>4, <1>5, <1>6, <1>7, <1>8 DEF Next

\* What was asked of cube-ctl and runs when it ends has every rule about the
\* containers that run, but for those that nsenter or iptables refused or that
\* got no address: whatever the depends files say, whichever names are words
\* of others and whichever containers end meanwhile.
THEOREM RulesAreSet == Spec => []RequestedIsStacked
<1>1. Init => StackInv
  BY InitType DEF Init, StackInv
<1>2. StackInv => RequestedIsStacked
  BY DEF StackInv, Stacked, RequestedIsStacked
<1> QED BY <1>1, <1>2, NextStack, PTL DEF Spec

=============================================================================
