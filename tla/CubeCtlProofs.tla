---------------------------- MODULE CubeCtlProofs ----------------------------
(***************************************************************************)
(* Operators that give commands about names of their own, and stop what    *)
(* they delete, never pull the rootfs from under a live container that the *)
(* lists count, however their commands interleave and whatever fails or    *)
(* restarts meanwhile; and as long as no add is broken off they never lose *)
(* hold of one either.                                                     *)
(***************************************************************************)
EXTENDS CubeCtl, FiniteSetTheorems, TLAPS

\* The discipline the theorems ask for.
OwnNames ==
    /\ StopsFirst
    /\ \A o, p \in Operators : o # p => Owner[o] \cap Owner[p] = {}

\* What a command in progress knows of its names.
Holds(o) ==
    LET n == reg[o].name
        m == reg[o].new IN
    /\ pc[o] # "idle" => n \in Owner[o] /\ m \in Owner[o]
    /\ pc[o] = "clear" => ~Known(n)
    /\ pc[o] = "mv_stop" => Known(n)
    /\ pc[o] \in {"del_runtime", "del_dir", "mv_move"} => ~Live(n)

\* A step of a command in progress.
Proceed(o) == (Continue(o) /\ UNCHANGED broken) \/ AddFails(o)

\* A live container has a configuration in its directory.
LiveIsStartable == \A n \in Names : Live(n) => Startable(n)

CtlInv == TypeOK /\ LiveIsStartable /\ \A o \in Operators : Holds(o)

-----------------------------------------------------------------------------

LEMMA ArgsType ==
    ASSUME NEW n \in Names, NEW m \in Names, NEW w \in BOOLEAN,
           NEW image, image = {} \/ \E i \in Images : image = {i}
    PROVE  /\ Args(n, image) \in Registers
           /\ [Args(n, image) EXCEPT !.new = m, !.was_running = w] \in Registers
<1>1. image \in {{}} \cup { {i} : i \in Images }
  OBVIOUS
<1> QED BY <1>1 DEF Args, Registers

LEMMA InitTypeCtl == Init => TypeOK
<1> SUFFICES ASSUME Init PROVE TypeOK
  OBVIOUS
<1>1. dir \in [Names -> Dirs] /\ rt \in [Names -> Containers]
  BY DEF Init, Dirs, NoDir, Containers, NoContainer
<1>2. status \in [Names -> {"none", "active", "inactive"}]
  BY DEF Init
<1>3. /\ pc \in [Operators -> Steps]
      /\ reg \in [Operators -> Registers \cup {NoRegisters}]
      /\ \A o \in Operators : pc[o] # "idle" => reg[o] \in Registers
  BY DEF Init, Steps
<1>4. broken \in BOOLEAN
  BY DEF Init
<1> QED BY <1>1, <1>2, <1>3, <1>4 DEF TypeOK

\* A command's step moves its program counter and drops its registers at the
\* end; whatever it does to the rest, these keep their types.
LEMMA GotoType ==
    ASSUME TypeOK, NEW o \in Operators, NEW step \in Steps,
           pc[o] # "idle", Goto(o, step)
    PROVE  /\ pc' \in [Operators -> Steps]
           /\ reg' \in [Operators -> Registers \cup {NoRegisters}]
           /\ \A p \in Operators : pc'[p] # "idle" => reg'[p] \in Registers
  BY DEF TypeOK, Goto

LEMMA CommandType ==
    ASSUME TypeOK, NEW o \in Operators, NEW step \in Steps, NEW r \in Registers,
           Command(o, step, r)
    PROVE  /\ pc' \in [Operators -> Steps]
           /\ reg' \in [Operators -> Registers \cup {NoRegisters}]
           /\ \A p \in Operators : pc'[p] # "idle" => reg'[p] \in Registers
  BY DEF TypeOK, Command

\* The registers of a command in progress.
LEMMA RegistersType ==
    ASSUME TypeOK, NEW o \in Operators, pc[o] # "idle"
    PROVE  /\ reg[o].name \in Names
           /\ reg[o].new \in Names
           /\ reg[o].image \subseteq Images
           /\ reg[o].was_running \in BOOLEAN
<1>1. reg[o] \in Registers
  BY DEF TypeOK
<1> QED BY <1>1 DEF Registers

LEMMA BeginType ==
    ASSUME TypeOK, NEW o \in Operators, Begin(o), UNCHANGED broken
    PROVE  TypeOK'
<1>1. UNCHANGED <<dir, rt, status>>
  BY DEF Begin, Add, Start, Stop, Delete, Rename
<1>2. PICK step \in Steps, r \in Registers : Command(o, step, r)
  <2>1. PICK n \in Names : \/ Add(o, n) \/ Start(o, n) \/ Stop(o, n) \/ Delete(o, n)
                           \/ \E m \in Names : Rename(o, n, m)
    BY DEF Begin
  <2>2. Args(n, {}) \in Registers /\ \A i \in Images : Args(n, {i}) \in Registers
    BY ArgsType
  <2>3. CASE Add(o, n)
    BY <2>2, <2>3 DEF Add, AddCommand, Steps
  <2>4. CASE Start(o, n)
    BY <2>2, <2>4 DEF Start, Steps
  <2>5. CASE Stop(o, n)
    BY <2>2, <2>5 DEF Stop, Steps
  <2>6. CASE Delete(o, n)
    BY <2>2, <2>6 DEF Delete, Steps
  <2>7. ASSUME NEW m \in Names, Rename(o, n, m)
        PROVE  \E step \in Steps, r \in Registers : Command(o, step, r)
    <3>1. ListedRunning(n) \in BOOLEAN
      BY DEF ListedRunning, Known
    <3>2. [Args(n, {}) EXCEPT !.new = m, !.was_running = ListedRunning(n)] \in Registers
      BY <3>1, ArgsType
    <3> QED BY <2>7, <3>2 DEF Rename, Steps
  <2> QED BY <2>1, <2>3, <2>4, <2>5, <2>6, <2>7
<1> QED BY <1>1, <1>2, CommandType DEF TypeOK

LEMMA ContinueType ==
    ASSUME TypeOK, NEW o \in Operators, Proceed(o)
    PROVE  TypeOK'
<1>1. pc[o] # "idle"
  BY DEF Proceed, Continue, Extract, AddFails, ExtractFails, Clear, ClearFails, Place, PlaceFails, Configure, Turn, Create, Go, Active,
         StopDelete, DeleteRuntime, DeleteDir, DeleteKey, RenameStop, RenameMove,
         RenameRestart, RenameDone
<1>2. /\ reg[o].name \in Names /\ reg[o].new \in Names
      /\ reg[o].image \subseteq Images /\ reg[o].was_running \in BOOLEAN
  BY <1>1, RegistersType
<1>3. PICK step \in Steps : Goto(o, step)
  BY <1>2 DEF Proceed, Continue, Extract, AddFails, ExtractFails, Clear, ClearFails, Place, PlaceFails, Configure, Turn, Create, Go, Active,
         StopDelete, DeleteRuntime, DeleteDir, DeleteKey, RenameStop, RenameMove,
         RenameRestart, RenameDone, Steps, Started
<1>4. dir' \in [Names -> Dirs]
  <2> DEFINE n == reg[o].name
  <2>0. \A d \in Dirs, files \in SUBSET Images : Made(d, files) \in Dirs
    BY DEF Made, Dirs
  <2>00. dir[n] \in Dirs /\ dir[n].files \subseteq Images
    BY <1>2 DEF TypeOK, Dirs
  <2>1. CASE Extract(o) \/ Clear(o) \/ Place(o) \/ AddFails(o)
    <3>1. \/ UNCHANGED dir
          \/ \E files \in SUBSET Images : dir' = [dir EXCEPT ![n] = Made(@, files)]
      <4>1. CASE Extract(o)
        BY <1>2, <2>00, <4>1 DEF Extract, TypeOK
      <4>2. CASE Clear(o)
        BY <1>2, <4>2 DEF Clear, TypeOK
      <4>3. CASE Place(o)
        BY <1>2, <2>00, <4>3 DEF Place, TypeOK
      <4>4. CASE AddFails(o)
        BY <1>2, <2>00, <4>4 DEF AddFails, ExtractFails, ClearFails, PlaceFails, TypeOK
      <4> QED BY <2>1, <4>1, <4>2, <4>3, <4>4
    <3> QED BY <1>2, <2>0, <2>00, <3>1 DEF TypeOK
  <2>3. CASE Configure(o)
    BY <1>2, <2>3 DEF Configure, TypeOK, Dirs
  <2>4. CASE DeleteDir(o)
    BY <1>2, <2>4 DEF DeleteDir, TypeOK, Dirs, NoDir
  <2>5. CASE RenameMove(o)
    <3>1. \A d \in Dirs : Generated(d) \in Dirs
      BY DEF Generated, Dirs
    <3>2. NoDir \in Dirs
      BY DEF NoDir, Dirs
    <3> QED BY <1>2, <2>5, <3>1, <3>2 DEF RenameMove, TypeOK
  <2>6. CASE UNCHANGED dir
    BY <2>6 DEF TypeOK
  <2> QED BY <2>1, <2>3, <2>4, <2>5, <2>6 DEF Proceed, Continue, Turn, Create, Go,
         Active, StopDelete, DeleteRuntime, DeleteKey, RenameStop, RenameRestart, RenameDone
<1>5. rt' \in [Names -> Containers]
  <2>1. CASE Create(o)
    <3>1. dir[reg[o].name].files \subseteq Images
      BY <1>2 DEF TypeOK, Dirs
    <3> QED BY <1>2, <2>1, <3>1 DEF Create, TypeOK, Containers
  <2>2. CASE Go(o)
    BY <1>2, <2>2 DEF Go, TypeOK, Containers
  <2>3. CASE StopDelete(o) \/ DeleteRuntime(o) \/ RenameStop(o)
    BY <1>2, <2>3 DEF StopDelete, DeleteRuntime, RenameStop, TypeOK, Containers, NoContainer
  <2>4. CASE UNCHANGED rt
    BY <2>4 DEF TypeOK
  <2> QED BY <2>1, <2>2, <2>3, <2>4 DEF Proceed, Continue, Extract, AddFails, ExtractFails, Clear, ClearFails, Place, PlaceFails, Configure,
         Turn, Active, DeleteDir, DeleteKey, RenameMove, RenameRestart, RenameDone
<1>6. status' \in [Names -> {"none", "active", "inactive"}]
  <2>1. CASE Active(o) \/ DeleteKey(o)
    BY <1>2, <2>1 DEF Active, DeleteKey, TypeOK
  <2>2. CASE UNCHANGED status
    BY <2>2 DEF TypeOK
  <2> QED BY <2>1, <2>2 DEF Proceed, Continue, Extract, AddFails, ExtractFails, Clear, ClearFails, Place, PlaceFails, Configure, Turn, Create,
         Go, StopDelete, DeleteRuntime, DeleteDir, RenameStop, RenameMove,
         RenameRestart, RenameDone
<1>7. broken' \in BOOLEAN
  BY DEF Proceed, AddFails, ExtractFails, ClearFails, PlaceFails, TypeOK
<1>8. /\ pc' \in [Operators -> Steps]
      /\ reg' \in [Operators -> Registers \cup {NoRegisters}]
      /\ \A p \in Operators : pc'[p] # "idle" => reg'[p] \in Registers
  BY <1>1, <1>3, GotoType
<1> QED BY <1>4, <1>5, <1>6, <1>7, <1>8 DEF TypeOK

LEMMA MachineType ==
    ASSUME TypeOK, Reboot \/ \E n \in Names : Exit(n) /\ UNCHANGED broken
    PROVE  TypeOK'
<1>1. CASE Reboot
  <2>1. broken' \in BOOLEAN
    BY <1>1 DEF Reboot
  <2> QED BY <1>1, <2>1 DEF Reboot, TypeOK, Containers, NoContainer, Steps
<1>2. ASSUME NEW n \in Names, Exit(n), UNCHANGED broken PROVE TypeOK'
  BY <1>2 DEF Exit, TypeOK, Containers
<1> QED BY <1>1, <1>2

LEMMA NextTypeCtl == TypeOK /\ [Next]_vars => TypeOK'
<1> SUFFICES ASSUME TypeOK, [Next]_vars PROVE TypeOK'
  OBVIOUS
<1>1. CASE UNCHANGED vars
  BY <1>1 DEF vars, TypeOK
<1> QED BY <1>1, BeginType, ContinueType, MachineType DEF Next, Proceed

\* The types of the state of containers and commands.
THEOREM CubeCtlTypeCorrect == Spec => []TypeOK
<1> QED BY InitTypeCtl, NextTypeCtl, PTL DEF Spec

-----------------------------------------------------------------------------
(* One operator's steps                                                    *)

\* Operators disturb nothing of each other's.
Untouched(o) ==
    /\ \A n \in Names \ Owner[o] : dir'[n] = dir[n] /\ rt'[n] = rt[n]
    /\ \A p \in Operators \ {o} : pc'[p] = pc[p] /\ reg'[p] = reg[p]

\* A step of an operator that leaves the others alone and keeps its own names
\* in order keeps all names in order.
LEMMA OwnStep ==
    ASSUME OwnNames, CtlInv, TypeOK', NEW o \in Operators, Untouched(o), Holds(o)',
           \A n \in Owner[o] : Live(n)' => Startable(n)'
    PROVE  CtlInv'
<1>1. LiveIsStartable'
  <2> SUFFICES ASSUME NEW n \in Names, Live(n)'
               PROVE  Startable(n)'
    BY DEF LiveIsStartable
  <2>1. CASE n \in Owner[o]
    BY <2>1
  <2>2. CASE n \notin Owner[o]
    BY <2>2 DEF Untouched, CtlInv, LiveIsStartable, Live, Known, Startable
  <2> QED BY <2>1, <2>2
<1>2. ASSUME NEW p \in Operators, p # o PROVE Holds(p)'
  <2>1. pc'[p] = pc[p] /\ reg'[p] = reg[p]
    BY <1>2 DEF Untouched
  <2>2. CASE pc[p] = "idle"
    BY <2>1, <2>2 DEF Holds
  <2>3. CASE pc[p] # "idle"
    <3> DEFINE n == reg[p].name
               m == reg[p].new
    <3>1. n \in Owner[p] /\ m \in Owner[p]
      BY <2>3 DEF CtlInv, Holds
    <3>2. n \in Names \ Owner[o] /\ m \in Names \ Owner[o]
      BY <1>2, <3>1, CubeCtlAssumption DEF OwnNames
    <3>3. dir'[n] = dir[n] /\ rt'[n] = rt[n] /\ dir'[m] = dir[m]
      BY <3>2 DEF Untouched
    <3> QED BY <2>1, <3>3 DEF CtlInv, Holds, Live, Known, Startable
  <2> QED BY <2>2, <2>3
<1> QED BY <1>1, <1>2 DEF CtlInv

\* The first step of a command, as its operator sees it.
LEMMA BeginOwn ==
    ASSUME OwnNames, CtlInv, NEW o \in Operators, Begin(o), UNCHANGED broken
    PROVE  Untouched(o) /\ Holds(o)'
<1>1. TypeOK /\ TypeOK'
  BY BeginType DEF CtlInv
<1>2. UNCHANGED <<dir, rt, status>>
  BY DEF Begin, Add, Start, Stop, Delete, Rename
<1>3. PICK n \in Names : \/ Add(o, n) \/ Start(o, n) \/ Stop(o, n) \/ Delete(o, n)
                         \/ \E m \in Names : Rename(o, n, m)
  BY DEF Begin
<1>4. ASSUME NEW step, NEW r, Command(o, step, r)
      PROVE  /\ pc'[o] = step /\ reg'[o] = r
             /\ \A p \in Operators \ {o} : pc'[p] = pc[p] /\ reg'[p] = reg[p]
             /\ r.name \in Owner[o] /\ r.new \in Owner[o]
  BY <1>1, <1>4 DEF Command, TypeOK
<1> QED
  <2>1. CASE Add(o, n)
    <3>1. PICK i \in Images, step \in {"extract", "clear"} : Command(o, step, Args(n, {i}))
      BY <2>1 DEF Add, AddCommand
    <3> QED BY <1>2, <1>4, <2>1, <3>1 DEF Add, Args, Untouched, Holds, Known
  <2>2. CASE Start(o, n)
    <3>1. Command(o, "turn", Args(n, {}))
      BY <2>2 DEF Start
    <3> QED BY <1>2, <1>4, <3>1 DEF Args, Untouched, Holds
  <2>3. CASE Stop(o, n)
    <3>1. Command(o, "stop", Args(n, {}))
      BY <2>3 DEF Stop
    <3> QED BY <1>2, <1>4, <3>1 DEF Args, Untouched, Holds
  <2>4. CASE Delete(o, n)
    <3>1. Command(o, "del_runtime", Args(n, {})) /\ ~Live(n)
      BY <2>4 DEF Delete, OwnNames
    <3> QED BY <1>2, <1>4, <3>1 DEF Args, Untouched, Holds, Live
  <2>5. ASSUME NEW m \in Names, Rename(o, n, m) PROVE Untouched(o) /\ Holds(o)'
    <3> DEFINE r == [Args(n, {}) EXCEPT !.new = m, !.was_running = ListedRunning(n)]
               step == IF ListedRunning(n) THEN "mv_stop" ELSE "mv_move"
    <3>1. Command(o, step, r) /\ Known(n) /\ ~Known(m)
      BY <2>5 DEF Rename
    <3>2. r.name = n /\ r.new = m
      BY DEF Args
    <3>3. step = "mv_move" => ~Live(n)
      BY <3>1 DEF ListedRunning, Live
    <3>4. /\ pc'[o] = step /\ reg'[o] = r /\ n \in Owner[o] /\ m \in Owner[o]
          /\ \A p \in Operators \ {o} : pc'[p] = pc[p] /\ reg'[p] = reg[p]
      BY <1>4, <3>1, <3>2
    <3>5. reg'[o].name = n /\ reg'[o].new = m
      BY <3>2, <3>4
    <3> HIDE DEF r
    <3> QED BY <1>2, <3>1, <3>3, <3>4, <3>5 DEF Untouched, Holds, Live, Known, Startable
  <2> QED BY <1>3, <2>1, <2>2, <2>3, <2>4, <2>5

LEMMA BeginSafe ==
    ASSUME OwnNames, CtlInv, NEW o \in Operators, Begin(o), UNCHANGED broken
    PROVE  CtlInv'
<1>1. UNCHANGED <<dir, rt>>
  BY DEF Begin, Add, Start, Stop, Delete, Rename
<1>2. TypeOK'
  BY BeginType DEF CtlInv
<1>3. \A x \in Owner[o] : Live(x)' => Startable(x)'
  BY <1>1, CubeCtlAssumption DEF CtlInv, LiveIsStartable, Live, Known, Startable
<1> QED BY <1>2, <1>3, BeginOwn, OwnStep

\* Every later step, as its operator sees it.
LEMMA ContinueOwn ==
    ASSUME OwnNames, CtlInv, NEW o \in Operators, Proceed(o)
    PROVE  /\ Untouched(o) /\ Holds(o)'
           /\ \A x \in Names : Live(x)' => Startable(x)'
<1> DEFINE n == reg[o].name
           m == reg[o].new
<1>1. TypeOK /\ TypeOK' /\ pc[o] # "idle"
  BY ContinueType DEF CtlInv, Proceed, Continue, Extract, AddFails, ExtractFails, Clear, ClearFails, Place, PlaceFails, Configure, Turn, Create,
         Go, Active, StopDelete, DeleteRuntime, DeleteDir, DeleteKey, RenameStop,
         RenameMove, RenameRestart, RenameDone
<1>2. n \in Names /\ m \in Names /\ n \in Owner[o] /\ m \in Owner[o]
  BY <1>1, RegistersType DEF CtlInv, Holds
<1>3. \A x \in Names : Live(x) => Startable(x)
  BY DEF CtlInv, LiveIsStartable
<1>4. ASSUME NEW step, Goto(o, step)
      PROVE  /\ pc'[o] = step
             /\ step # "idle" => reg'[o] = reg[o]
             /\ \A p \in Operators \ {o} : pc'[p] = pc[p] /\ reg'[p] = reg[p]
  BY <1>1, <1>4 DEF Goto, TypeOK
<1>5. dir \in [Names -> Dirs] /\ rt \in [Names -> Containers]
  BY <1>1 DEF TypeOK
<1>6. Holds(o)
  BY DEF CtlInv
<1> QED
  <2>1. CASE Extract(o) \/ Clear(o) \/ Place(o)
    <3>1. PICK step \in {"configure", "place", "idle"} : Goto(o, step)
      BY <2>1 DEF Extract, Clear, Place
    <3>2. /\ UNCHANGED rt
          /\ \A x \in Names \ {n} : dir'[x] = dir[x]
          /\ dir[n].stage # "absent" => dir'[n].stage = dir[n].stage
      BY <1>2, <1>5, <2>1 DEF Extract, Clear, Place, Made
    <3> QED BY <1>2, <1>3, <1>4, <3>1, <3>2 DEF Untouched, Holds, Live, Known, Startable
  <2>2. CASE AddFails(o)
    <3>1. PICK step \in {"configure", "idle"} : Goto(o, step)
      BY <2>2 DEF AddFails, ExtractFails, ClearFails, PlaceFails
    <3>2. /\ UNCHANGED rt
          /\ \A x \in Names \ {n} : dir'[x] = dir[x]
          /\ dir[n].stage # "absent" => dir'[n].stage = dir[n].stage
      BY <1>2, <1>5, <2>2 DEF AddFails, ExtractFails, ClearFails, PlaceFails, Made
    <3> QED BY <1>2, <1>3, <1>4, <3>1, <3>2 DEF Untouched, Holds, Live, Known, Startable
  <2>3. CASE Configure(o)
    <3>1. Goto(o, "idle") /\ UNCHANGED rt
      BY <2>3 DEF Configure
    <3>2. /\ \A x \in Names \ {n} : dir'[x] = dir[x]
          /\ dir'[n].files = dir[n].files
          /\ dir[n].stage # "absent" => dir'[n].stage = "installed"
      BY <1>2, <1>5, <2>3 DEF Configure, Dirs
    <3> QED BY <1>2, <1>3, <1>4, <3>1, <3>2 DEF Untouched, Holds, Live, Known, Startable
  <2>4. CASE Turn(o) \/ Active(o)
    <3>1. PICK step \in {"create", "mv_done", "idle"} : Goto(o, step)
      BY <2>4 DEF Turn, Active, Started
    <3>2. UNCHANGED <<dir, rt>>
      BY <2>4 DEF Turn, Active
    <3> QED BY <1>2, <1>3, <1>4, <3>1, <3>2 DEF Untouched, Holds, Live, Known, Startable
  <2>5. CASE Create(o)
    <3>1. PICK step \in {"go", "active"} : Goto(o, step)
      BY <2>5 DEF Create
    <3>2. /\ UNCHANGED dir
          /\ \A x \in Names \ {n} : rt'[x] = rt[x]
          /\ rt'[n] = rt[n] \/ Startable(n)
      BY <1>2, <1>5, <2>5 DEF Create
    <3> QED BY <1>2, <1>3, <1>4, <3>1, <3>2 DEF Untouched, Holds, Live, Known, Startable
  <2>6. CASE Go(o)
    <3>1. Goto(o, "active") /\ UNCHANGED dir
      BY <2>6 DEF Go
    <3>2. /\ \A x \in Names \ {n} : rt'[x] = rt[x]
          /\ rt'[n].files = rt[n].files
          /\ rt'[n].state \in {"created", "running"} => Live(n)
      BY <1>2, <1>5, <2>6 DEF Go, Live, Containers
    <3> QED BY <1>2, <1>3, <1>4, <3>1, <3>2 DEF Untouched, Holds, Live, Known, Startable
  <2>7. CASE StopDelete(o)
    <3>1. /\ Goto(o, "idle") /\ UNCHANGED dir
          /\ \A x \in Names \ {n} : rt'[x] = rt[x]
          /\ rt'[n] = NoContainer
      BY <1>2, <1>5, <2>7 DEF StopDelete
    <3> QED BY <1>2, <1>3, <1>4, <3>1 DEF Untouched, Holds, Live, Known, Startable, NoContainer
  <2>8. CASE DeleteRuntime(o)
    <3>1. /\ Goto(o, "del_dir") /\ UNCHANGED dir
          /\ \A x \in Names \ {n} : rt'[x] = rt[x]
          /\ rt'[n] \in {rt[n], NoContainer}
          /\ ~Live(n)
      BY <1>2, <1>5, <1>6, <2>8 DEF DeleteRuntime, Holds
    <3> QED BY <1>2, <1>3, <1>4, <3>1 DEF Untouched, Holds, Live, Known, Startable, NoContainer
  <2>9. CASE DeleteDir(o)
    <3>1. /\ Goto(o, "del_key") /\ UNCHANGED rt
          /\ \A x \in Names \ {n} : dir'[x] = dir[x]
          /\ ~Live(n)
      BY <1>2, <1>5, <1>6, <2>9 DEF DeleteDir, Holds
    <3> QED BY <1>2, <1>3, <1>4, <3>1 DEF Untouched, Holds, Live, Known, Startable
  <2>10. CASE DeleteKey(o) \/ RenameDone(o)
    <3>1. Goto(o, "idle") /\ UNCHANGED <<dir, rt>>
      BY <2>10 DEF DeleteKey, RenameDone
    <3> QED BY <1>2, <1>3, <1>4, <3>1 DEF Untouched, Holds, Live, Known, Startable
  <2>11. CASE RenameStop(o)
    <3>1. Goto(o, "mv_move") /\ UNCHANGED dir /\ rt' = [rt EXCEPT ![n] = NoContainer]
      BY <1>6, <2>11 DEF RenameStop, Holds
    <3>2. rt'[n] = NoContainer /\ \A x \in Names \ {n} : rt'[x] = rt[x]
      BY <1>2, <1>5, <3>1
    <3> QED BY <1>2, <1>3, <1>4, <3>1, <3>2 DEF Untouched, Holds, Live, Known, Startable, NoContainer
  <2>12. CASE RenameMove(o)
    <3>1. Goto(o, "mv_turn") /\ UNCHANGED rt /\ ~Live(n)
      BY <1>6, <2>12 DEF RenameMove, Holds
    <3>2. \A x \in Names \ {n, m} : dir'[x] = dir[x]
      BY <1>2, <1>5, <2>12 DEF RenameMove
    <3>3. ASSUME m # n, Live(m)
          PROVE  dir'[m].stage \in {"generated", "installed"}
      <4>1. dir[m].stage \in {"generated", "installed"}
        BY <1>2, <1>3, <3>3 DEF Startable
      <4>2. dir'[m] = dir[m]
        BY <1>2, <1>5, <2>12, <3>3, <4>1 DEF RenameMove, Generated
      <4> QED BY <4>1, <4>2
    <3> QED BY <1>2, <1>3, <1>4, <3>1, <3>2, <3>3 DEF Untouched, Holds, Live, Known, Startable
  <2>13. CASE RenameRestart(o)
    <3>1. PICK step \in {"turn", "mv_done"} : Goto(o, step)
      BY <2>13 DEF RenameRestart
    <3>2. UNCHANGED <<dir, rt>>
      BY <2>13 DEF RenameRestart
    <3> QED BY <1>2, <1>3, <1>4, <3>1, <3>2 DEF Untouched, Holds, Live, Known, Startable
  <2> QED BY <2>1, <2>2, <2>3, <2>4, <2>5, <2>6, <2>7, <2>8, <2>9, <2>10, <2>11,
             <2>12, <2>13 DEF Proceed, Continue

LEMMA ContinueSafe ==
    ASSUME OwnNames, CtlInv, NEW o \in Operators, Proceed(o)
    PROVE  CtlInv'
<1>1. TypeOK'
  BY ContinueType DEF CtlInv
<1>2. \A x \in Owner[o] : Live(x)' => Startable(x)'
  BY ContinueOwn, CubeCtlAssumption
<1> QED BY <1>1, <1>2, ContinueOwn, OwnStep

LEMMA MachineSafe ==
    ASSUME CtlInv, Reboot \/ \E n \in Names : Exit(n) /\ UNCHANGED broken
    PROVE  CtlInv'
<1>1. TypeOK /\ TypeOK'
  BY MachineType DEF CtlInv
<1>2. CASE Reboot
  <2>1. /\ \A n \in Names : ~Live(n)'
        /\ \A o \in Operators : pc'[o] = "idle"
    BY <1>2 DEF Reboot, Live, NoContainer
  <2> QED BY <1>1, <2>1 DEF CtlInv, LiveIsStartable, Holds
<1>3. ASSUME NEW n \in Names, Exit(n) PROVE CtlInv'
  <2>1. /\ UNCHANGED <<dir, pc, reg>>
        /\ \A x \in Names \ {n} : rt'[x] = rt[x]
        /\ ~Live(n)'
    BY <1>1, <1>3 DEF Exit, TypeOK, Containers, Live
  <2>2. LiveIsStartable'
    BY <2>1 DEF CtlInv, LiveIsStartable, Live, Known, Startable
  <2>3. ASSUME NEW o \in Operators PROVE Holds(o)'
    <3>1. CASE pc[o] = "idle"
      BY <2>1, <3>1 DEF Holds
    <3>2. CASE pc[o] # "idle"
      <4>1. reg[o].name \in Names
        BY <1>1, <3>2, RegistersType
      <4>2. Live(reg[o].name)' => Live(reg[o].name)
        BY <2>1, <4>1 DEF Live
      <4> QED BY <2>1, <4>2 DEF CtlInv, Holds, Known, Live
    <3> QED BY <3>1, <3>2
  <2> QED BY <1>1, <2>2, <2>3 DEF CtlInv
<1> QED BY <1>2, <1>3

-----------------------------------------------------------------------------

LEMMA InitSafe == Init => CtlInv
<1>1. Init => LiveIsStartable /\ \A o \in Operators : Holds(o)
  BY DEF Init, LiveIsStartable, Holds, Live, NoContainer
<1> QED BY <1>1, InitTypeCtl DEF CtlInv

LEMMA NextSafe ==
    ASSUME OwnNames PROVE CtlInv /\ [Next]_vars => CtlInv'
<1> SUFFICES ASSUME CtlInv, [Next]_vars PROVE CtlInv'
  OBVIOUS
<1>1. CASE UNCHANGED vars
  BY <1>1 DEF vars, CtlInv, TypeOK, LiveIsStartable, Holds, Live, Known, Startable
<1> QED BY <1>1, BeginSafe, ContinueSafe, MachineSafe DEF Next, Proceed

\* Whatever adds were broken off before, a live container that the lists count
\* keeps its directory and the files in it: the one command that removes a
\* rootfs, the add that moves another in its place, is about a name that the
\* lists do not count; what is deleted or renamed does not live.
THEOREM RootfsStays ==
    ASSUME OwnNames PROVE Spec => LiveKeepsRootfs
<1> DEFINE Keeps(n) == Known(n)' /\ dir[n].files \subseteq dir'[n].files
           AllKeep == \A n \in Names : Known(n) /\ Live(n) /\ Live(n)' => Keeps(n)
<1>1. ASSUME CtlInv, [Next]_vars PROVE AllKeep
  <2> SUFFICES ASSUME NEW n \in Names, Known(n), Live(n) PROVE Keeps(n)
    OBVIOUS
  <2>1. dir \in [Names -> Dirs] /\ TypeOK
    BY <1>1 DEF CtlInv, TypeOK
  <2>2. CASE UNCHANGED dir
    BY <2>2 DEF Known
  <2>3. ASSUME NEW o \in Operators,
               \/ Extract(o) \/ Clear(o) \/ Place(o) \/ AddFails(o) \/ Configure(o)
               \/ DeleteDir(o) \/ RenameMove(o)
        PROVE  Keeps(n)
    <3>1. reg[o].name \in Names /\ reg[o].new \in Names
      BY <2>1, <2>3, RegistersType DEF Extract, AddFails, ExtractFails, Clear, ClearFails,
         Place, PlaceFails, Configure, DeleteDir, RenameMove
    <3>2. Holds(o)
      BY <1>1 DEF CtlInv
    <3>3. CASE Extract(o)
      BY <2>1, <3>1, <3>3 DEF Extract, Made, Known
    <3>4. CASE Clear(o)
      <4>1. n # reg[o].name
        BY <3>2, <3>4 DEF Holds, Clear
      <4> QED BY <2>1, <3>1, <3>4, <4>1 DEF Clear, Known
    <3>5. CASE Place(o)
      BY <2>1, <3>1, <3>5 DEF Place, Made, Known
    <3>6. CASE AddFails(o)
      BY <2>1, <3>1, <3>6 DEF AddFails, ExtractFails, ClearFails, PlaceFails, Made, Known
    <3>7. CASE Configure(o)
      BY <2>1, <3>1, <3>7 DEF Configure, Dirs, Known
    <3>8. CASE DeleteDir(o)
      <4>1. n # reg[o].name
        BY <3>2, <3>8 DEF Holds, DeleteDir
      <4> QED BY <2>1, <3>1, <3>8, <4>1 DEF DeleteDir, Known
    <3>9. CASE RenameMove(o)
      <4>1. n # reg[o].name
        BY <3>2, <3>9 DEF Holds, RenameMove
      <4>2. dir'[n] = dir[n]
        BY <2>1, <3>1, <3>9, <4>1 DEF RenameMove, Generated, Known
      <4> QED BY <4>2 DEF Known
    <3> QED BY <2>3, <3>3, <3>4, <3>5, <3>6, <3>7, <3>8, <3>9
  <2> QED BY <1>1, <2>2, <2>3 DEF Next, vars, Begin, Add, Start, Stop, Delete, Rename,
       Continue, Turn, Create, Go, Active, StopDelete, DeleteRuntime, DeleteKey,
       RenameStop, RenameRestart, RenameDone, Exit, Reboot
<1>2. CtlInv /\ [Next]_vars => [AllKeep]_vars
  BY <1>1
<1> QED BY <1>2, InitSafe, NextSafe, PTL DEF Spec, LiveKeepsRootfs

-----------------------------------------------------------------------------
(* As long as no add has been broken off                                   *)

\* A directory without a manager is one an add is at work in.
Tidy(n) ==
    \/ dir[n].stage \in {"absent", "installed"}
    \/ /\ dir[n].stage = "unpacked"
       /\ \E o \in Operators : pc[o] \in {"place", "configure"} /\ reg[o].name = n

\* What is written next is written where there is nothing yet.
Fresh(o) ==
    /\ pc[o] \in {"extract", "clear"} => dir[reg[o].name].stage = "absent"
    /\ pc[o] = "place" => dir[reg[o].name].stage = "unpacked"
    /\ pc[o] \in {"mv_stop", "mv_move"} => dir[reg[o].new].stage = "absent"

SameFiles(n) == Live(n) => rt[n].files = dir[n].files

CleanInv ==
    /\ \A n \in Names : Tidy(n) /\ SameFiles(n)
    /\ \A o \in Operators : Fresh(o)

\* Of an operator's own names, only the one it is adding is half done.
LEMMA OwnTidy ==
    ASSUME OwnNames, CtlInv, CleanInv, NEW o \in Operators, NEW n \in Owner[o]
    PROVE  /\ n \in Names
           /\ \/ dir[n].stage \in {"absent", "installed"}
              \/ /\ dir[n].stage = "unpacked"
                 /\ pc[o] \in {"place", "configure"} /\ reg[o].name = n
<1>1. n \in Names
  BY CubeCtlAssumption
<1>2. ASSUME NEW p \in Operators, pc[p] \in {"place", "configure"}, reg[p].name = n
      PROVE  p = o
  BY <1>2 DEF CtlInv, Holds, OwnNames
<1> QED BY <1>1, <1>2 DEF CleanInv, Tidy

\* A step of an operator that leaves the others alone and keeps its own names
\* clean keeps all names clean.
LEMMA CleanStep ==
    ASSUME OwnNames, CtlInv, CleanInv, NEW o \in Operators, Untouched(o), Fresh(o)',
           \A n \in Owner[o] : Tidy(n)' /\ SameFiles(n)'
    PROVE  CleanInv'
<1>1. ASSUME NEW n \in Names, n \notin Owner[o] PROVE Tidy(n)' /\ SameFiles(n)'
  <2>1. dir'[n] = dir[n] /\ rt'[n] = rt[n]
    BY <1>1 DEF Untouched
  <2>2. ASSUME NEW p \in Operators, pc[p] \in {"place", "configure"}, reg[p].name = n
        PROVE  pc'[p] = pc[p] /\ reg'[p].name = n
    <3>1. p # o
      BY <1>1, <2>2 DEF CtlInv, Holds
    <3> QED BY <2>2, <3>1 DEF Untouched
  <2> QED BY <2>1, <2>2 DEF CleanInv, Tidy, SameFiles, Live
<1>2. ASSUME NEW p \in Operators, p # o PROVE Fresh(p)'
  <2>1. pc'[p] = pc[p] /\ reg'[p] = reg[p]
    BY <1>2 DEF Untouched
  <2>2. CASE pc[p] = "idle"
    BY <2>1, <2>2 DEF Fresh
  <2>3. CASE pc[p] # "idle"
    <3>1. reg[p].name \in Names \ Owner[o] /\ reg[p].new \in Names \ Owner[o]
      BY <1>2, <2>3, CubeCtlAssumption DEF CtlInv, Holds, OwnNames
    <3>2. dir'[reg[p].name] = dir[reg[p].name] /\ dir'[reg[p].new] = dir[reg[p].new]
      BY <3>1 DEF Untouched
    <3> QED BY <2>1, <3>2 DEF CleanInv, Fresh
  <2> QED BY <2>2, <2>3
<1> QED BY <1>1, <1>2 DEF CleanInv

LEMMA CleanBegin ==
    ASSUME OwnNames, CtlInv, CleanInv, NEW o \in Operators, Begin(o), UNCHANGED broken
    PROVE  CleanInv'
<1>1. UNCHANGED <<dir, rt>> /\ pc[o] = "idle"
  BY DEF Begin, Add, AddCommand, Start, Stop, Delete, Rename, Command
<1>2. \A n \in Owner[o] : n \in Names /\ dir[n].stage \in {"absent", "installed"}
  BY <1>1, OwnTidy
<1>3. \A n \in Owner[o] : Tidy(n)' /\ SameFiles(n)'
  BY <1>1, <1>2 DEF CleanInv, Tidy, SameFiles, Live
<1>4. Fresh(o)'
  <2>1. PICK n \in Names : \/ Add(o, n) \/ Start(o, n) \/ Stop(o, n) \/ Delete(o, n)
                           \/ \E m \in Names : Rename(o, n, m)
    BY DEF Begin
  <2>2. ASSUME NEW step, NEW r, Command(o, step, r)
        PROVE  pc'[o] = step /\ reg'[o] = r /\ r.name \in Owner[o] /\ r.new \in Owner[o]
    BY <2>2 DEF Command, CtlInv, TypeOK
  <2>3. CASE Add(o, n)
    <3>1. PICK i \in Images, step \in {"extract", "clear"} : Command(o, step, Args(n, {i}))
      BY <2>3 DEF Add, AddCommand
    <3>2. n \in Owner[o] /\ ~Known(n)
      BY <2>2, <2>3, <3>1 DEF Add, Args
    <3> QED BY <1>1, <1>2, <2>2, <3>1, <3>2 DEF Args, Fresh, Known
  <2>4. CASE Start(o, n) \/ Stop(o, n) \/ Delete(o, n)
    <3>1. PICK step \in {"turn", "stop", "del_runtime"} : Command(o, step, Args(n, {}))
      BY <2>4 DEF Start, Stop, Delete
    <3> QED BY <2>2, <3>1 DEF Fresh
  <2>5. ASSUME NEW m \in Names, Rename(o, n, m) PROVE Fresh(o)'
    <3> DEFINE r == [Args(n, {}) EXCEPT !.new = m, !.was_running = ListedRunning(n)]
               step == IF ListedRunning(n) THEN "mv_stop" ELSE "mv_move"
    <3>1. Command(o, step, r) /\ ~Known(m) /\ r.new = m
      BY <2>5 DEF Rename, Args
    <3>2. pc'[o] = step /\ reg'[o].new = m /\ m \in Owner[o]
      BY <2>2, <3>1
    <3> QED BY <1>1, <1>2, <3>1, <3>2 DEF Fresh, Known
  <2> QED BY <2>1, <2>3, <2>4, <2>5
<1> QED BY <1>3, <1>4, BeginOwn, CleanStep

LEMMA CleanContinue ==
    ASSUME OwnNames, ~broken', CtlInv, CleanInv, NEW o \in Operators, Proceed(o)
    PROVE  CleanInv'
<1> DEFINE n == reg[o].name
           m == reg[o].new
           Half(x) == /\ dir'[x].stage = "unpacked"
                      /\ pc'[o] \in {"place", "configure"} /\ reg'[o].name = x
           Clean(x) == \/ dir'[x].stage \in {"absent", "installed"}
                       \/ Half(x)
           Same(x) == rt'[x].state \in {"created", "running"} => rt'[x].files = dir'[x].files
<1>1. TypeOK /\ pc[o] # "idle"
  BY DEF CtlInv, Proceed, Continue, Extract, AddFails, ExtractFails, Clear, ClearFails, Place, PlaceFails, Configure, Turn, Create,
         Go, Active, StopDelete, DeleteRuntime, DeleteDir, DeleteKey, RenameStop,
         RenameMove, RenameRestart, RenameDone
<1>2. n \in Names /\ m \in Names /\ n \in Owner[o] /\ m \in Owner[o]
  BY <1>1, RegistersType DEF CtlInv, Holds
<1>3. \A x \in Owner[o] : /\ x \in Names
                          /\ \/ dir[x].stage \in {"absent", "installed"}
                             \/ /\ dir[x].stage = "unpacked"
                                /\ pc[o] \in {"place", "configure"} /\ n = x
  BY OwnTidy
<1>4. \A x \in Names : Live(x) => Startable(x) /\ rt[x].files = dir[x].files
  BY DEF CleanInv, SameFiles, CtlInv, LiveIsStartable
<1>5. dir \in [Names -> Dirs] /\ rt \in [Names -> Containers]
  BY <1>1 DEF TypeOK
<1>6. Fresh(o) /\ Holds(o)
  BY DEF CleanInv, CtlInv
<1>7. ASSUME NEW step, Goto(o, step)
      PROVE  pc'[o] = step /\ (step # "idle" => reg'[o] = reg[o])
  BY <1>1, <1>7 DEF Goto, TypeOK
<1>8. Fresh(o)' /\ \A x \in Owner[o] : Clean(x) /\ Same(x)
  <2>1. CASE Extract(o) \/ Clear(o)
    <3>1. pc[o] \in {"extract", "clear"} /\ UNCHANGED rt
      BY <2>1 DEF Extract, Clear
    <3>2. dir[n].stage = "absent"
      BY <1>6, <3>1 DEF Fresh
    <3>3. PICK step \in {"place", "configure"} : Goto(o, step)
      BY <2>1, <3>2 DEF Extract, Clear, Known
    <3>4. ~Live(n)
      BY <1>2, <1>4, <3>2 DEF Startable
    <3>5. /\ \A x \in Names \ {n} : dir'[x] = dir[x]
          /\ dir'[n].stage = "unpacked"
      BY <1>2, <1>5, <2>1, <3>2 DEF Extract, Clear, Made, Known
    <3> QED BY <1>2, <1>3, <1>4, <1>7, <3>1, <3>3, <3>4, <3>5 DEF Fresh, Live
  <2>2. CASE AddFails(o)
    BY <2>2 DEF AddFails, ExtractFails, ClearFails, PlaceFails
  <2>9. CASE Place(o)
    <3>1. pc[o] = "place" /\ Goto(o, "configure") /\ UNCHANGED rt
      BY <2>9 DEF Place
    <3>2. dir[n].stage = "unpacked"
      BY <1>6, <3>1 DEF Fresh
    <3>3. ~Live(n)
      BY <1>2, <1>4, <3>2 DEF Startable
    <3>4. /\ \A x \in Names \ {n} : dir'[x] = dir[x]
          /\ dir'[n].stage = "unpacked"
      BY <1>2, <1>5, <2>9, <3>2 DEF Place, Made
    <3> QED BY <1>2, <1>3, <1>4, <1>7, <3>1, <3>3, <3>4 DEF Fresh, Live
  <2>3. CASE Configure(o)
    <3>1. pc[o] = "configure" /\ Goto(o, "idle") /\ UNCHANGED rt
      BY <2>3 DEF Configure
    <3>2. /\ \A x \in Names \ {n} : dir'[x] = dir[x]
          /\ dir'[n].stage \in {"absent", "installed"}
          /\ dir'[n].files = dir[n].files
      BY <1>2, <1>5, <2>3 DEF Configure, Dirs
    <3> QED BY <1>2, <1>3, <1>4, <1>7, <3>1, <3>2 DEF Fresh, Live
  <2>4. CASE \/ Turn(o) \/ Active(o) \/ DeleteKey(o) \/ RenameDone(o) \/ RenameRestart(o)
    <3>1. PICK step \in {"create", "mv_done", "idle", "turn"} : Goto(o, step)
      BY <2>4 DEF Turn, Active, DeleteKey, RenameDone, RenameRestart, Started
    <3>2. UNCHANGED <<dir, rt>> /\ pc[o] \notin {"place", "configure"}
      BY <2>4 DEF Turn, Active, DeleteKey, RenameDone, RenameRestart
    <3> QED BY <1>2, <1>3, <1>4, <1>7, <3>1, <3>2 DEF Fresh, Live
  <2>5. CASE Create(o) \/ Go(o) \/ StopDelete(o) \/ DeleteRuntime(o)
    <3>1. PICK step \in {"go", "active", "idle", "del_dir"} : Goto(o, step)
      BY <2>5 DEF Create, Go, StopDelete, DeleteRuntime
    <3>2. /\ UNCHANGED dir /\ pc[o] \notin {"place", "configure"}
          /\ \A x \in Names \ {n} : rt'[x] = rt[x]
      BY <1>2, <1>5, <2>5 DEF Create, Go, StopDelete, DeleteRuntime
    <3>3. Same(n)
      <4>1. CASE Create(o)
        BY <1>2, <1>4, <1>5, <3>2, <4>1 DEF Create, Live
      <4>2. CASE Go(o)
        BY <1>2, <1>4, <1>5, <3>2, <4>2 DEF Go, Live
      <4>3. CASE StopDelete(o) \/ DeleteRuntime(o)
        BY <1>2, <1>4, <1>5, <3>2, <4>3 DEF StopDelete, DeleteRuntime, Live, NoContainer
      <4> QED BY <2>5, <4>1, <4>2, <4>3
    <3> QED BY <1>2, <1>3, <1>4, <1>7, <3>1, <3>2, <3>3 DEF Fresh, Live
  <2>6. CASE DeleteDir(o)
    <3>1. pc[o] = "del_dir" /\ Goto(o, "del_key") /\ UNCHANGED rt
      BY <2>6 DEF DeleteDir
    <3>2. ~Live(n)
      BY <1>6, <3>1 DEF Holds
    <3>3. dir'[n] = NoDir /\ \A x \in Names \ {n} : dir'[x] = dir[x]
      BY <1>2, <1>5, <2>6 DEF DeleteDir
    <3> QED BY <1>2, <1>3, <1>4, <1>7, <3>1, <3>2, <3>3 DEF Fresh, Live, NoDir
  <2>7. CASE RenameStop(o)
    <3>1. pc[o] = "mv_stop" /\ Goto(o, "mv_move") /\ UNCHANGED dir
      BY <2>7 DEF RenameStop
    <3>2. Known(n) /\ rt' = [rt EXCEPT ![n] = NoContainer]
      BY <1>6, <2>7, <3>1 DEF RenameStop, Holds
    <3>3. rt'[n] = NoContainer /\ \A x \in Names \ {n} : rt'[x] = rt[x]
      BY <1>2, <1>5, <3>2
    <3> QED BY <1>2, <1>3, <1>4, <1>6, <1>7, <3>1, <3>3 DEF Fresh, Live, NoContainer
  <2>8. CASE RenameMove(o)
    <3>1. pc[o] = "mv_move" /\ Goto(o, "mv_turn") /\ UNCHANGED rt
      BY <2>8 DEF RenameMove
    <3>2. ~Live(n) /\ dir[m].stage = "absent"
      BY <1>6, <3>1 DEF Holds, Fresh
    <3>3. ~Live(m)
      BY <1>2, <1>4, <3>2 DEF Startable
    <3>4. dir[n].stage \in {"absent", "installed"}
      BY <1>2, <1>3, <3>1
    <3>5. /\ dir'[n].stage \in {"absent", "installed"}
          /\ dir'[m].stage \in {"absent", "installed"}
          /\ \A x \in Names \ {n, m} : dir'[x] = dir[x]
      BY <1>2, <1>5, <2>8, <3>2, <3>4 DEF RenameMove, Generated, NoDir
    <3> QED BY <1>2, <1>3, <1>4, <1>7, <3>1, <3>2, <3>3, <3>5 DEF Fresh, Live
  <2> QED BY <2>1, <2>2, <2>3, <2>4, <2>5, <2>6, <2>7, <2>8, <2>9 DEF Proceed, Continue
<1>9. \A x \in Owner[o] : Tidy(x)' /\ SameFiles(x)'
  BY <1>8 DEF Tidy, SameFiles, Live
<1> QED BY <1>8, <1>9, ContinueOwn, CleanStep

LEMMA CleanMachine ==
    ASSUME ~broken', CtlInv, CleanInv, Reboot \/ \E n \in Names : Exit(n) /\ UNCHANGED broken
    PROVE  CleanInv'
<1>1. CASE Reboot
  <2>1. /\ \A n \in Names : dir'[n].stage \in {"absent", "installed"} /\ ~Live(n)'
        /\ \A o \in Operators : pc'[o] = "idle"
    BY <1>1 DEF Reboot, CleanInv, Tidy, Live, NoContainer
  <2> QED BY <2>1 DEF CleanInv, Tidy, SameFiles, Fresh
<1>2. ASSUME NEW n \in Names, Exit(n) PROVE CleanInv'
  <2>1. /\ UNCHANGED <<dir, pc, reg>>
        /\ \A x \in Names \ {n} : rt'[x] = rt[x]
        /\ ~Live(n)'
    BY <1>2 DEF Exit, CtlInv, TypeOK, Containers, Live
  <2> QED BY <2>1 DEF CleanInv, Tidy, SameFiles, Fresh, Live
<1> QED BY <1>1, <1>2

\* As long as no add has been broken off, the directories are clean.
LEMMA CleanUntilBroken ==
    /\ Init => (~broken => CleanInv)
    /\ OwnNames /\ CtlInv /\ (~broken => CleanInv) /\ [Next]_vars => (~broken => CleanInv)'
<1>1. Init => CleanInv
  BY DEF Init, CleanInv, Tidy, SameFiles, Fresh, Live, NoDir, NoContainer
<1>2. ASSUME OwnNames, CtlInv, ~broken => CleanInv, [Next]_vars, ~broken' PROVE CleanInv'
  <2>1. ~broken
    BY <1>2 DEF Next, vars, AddFails, ExtractFails, ClearFails, PlaceFails, Reboot
  <2>2. CleanInv
    BY <1>2, <2>1
  <2>3. CASE UNCHANGED vars
    BY <2>2, <2>3 DEF vars, CleanInv, Tidy, SameFiles, Fresh, Live
  <2> QED BY <1>2, <2>2, <2>3, CleanBegin, CleanContinue, CleanMachine DEF Next, Proceed
<1> QED BY <1>1, <1>2

\* As long as no add has been broken off, no running container slips from the
\* hands of its operator: its directory is installed under its name and holds
\* the files it runs from and no others.
THEOREM NoContainerOrphaned ==
    ASSUME OwnNames PROVE Spec => []LiveIsInstalled
<1> DEFINE Clean == ~broken => CleanInv
<1>1. CtlInv /\ Clean => LiveIsInstalled
  <2> SUFFICES ASSUME CtlInv, Clean, ~broken, NEW n \in Names, Live(n)
               PROVE  Known(n) /\ rt[n].files = dir[n].files
    BY DEF LiveIsInstalled
  <2>1. Startable(n)
    BY DEF CtlInv, LiveIsStartable
  <2> QED BY <2>1 DEF CleanInv, Tidy, SameFiles, Startable, Known
<1>2. Init => Clean
  BY CleanUntilBroken
<1>3. CtlInv /\ Clean /\ [Next]_vars => Clean'
  BY CleanUntilBroken
<1> QED BY <1>1, <1>2, <1>3, InitSafe, NextSafe, PTL DEF Spec

\* As long as no add has been broken off, an installed container leaves its
\* name only by a delete of that name or, whole, for a name that was free:
\* "mv" never buries it in the directory of another.
THEOREM NoContainerLost ==
    ASSUME OwnNames PROVE Spec => NothingLost
<1> DEFINE Clean == ~broken => CleanInv
           Deleted(n) == \E o \in Operators : pc[o] = "del_dir" /\ reg[o].name = n
           Renamed(n) == \E m \in Names \ {n} : ~Known(m) /\ dir'[m] = dir[n]
           Kept == \A n \in Names :
                     ~broken /\ Known(n) /\ ~Known(n)' =>
                         \/ \E o \in Operators : pc[o] = "del_dir" /\ reg[o].name = n
                         \/ \E m \in Names \ {n} : ~Known(m) /\ dir'[m] = dir[n]
<1>1. ASSUME CtlInv, Clean, [Next]_vars PROVE Kept
  <2> SUFFICES ASSUME NEW n \in Names, ~broken, Known(n), ~Known(n)'
               PROVE  Deleted(n) \/ Renamed(n)
    OBVIOUS
  <2>1. dir \in [Names -> Dirs] /\ dir'[n] # dir[n]
    BY <1>1 DEF CtlInv, TypeOK, Known
  <2>2. PICK o \in Operators : \/ Extract(o) \/ Clear(o) \/ Place(o) \/ AddFails(o) \/ Configure(o)
                                 \/ DeleteDir(o) \/ RenameMove(o)
    BY <1>1, <2>1 DEF Next, vars, Begin, Add, Start, Stop, Delete, Rename, Continue, Turn, Create,
       Go, Active, StopDelete, DeleteRuntime, DeleteKey, RenameStop, RenameRestart,
       RenameDone, Exit, Reboot
  <2>3. reg[o].name \in Names /\ reg[o].new \in Names
    BY <1>1, <2>2, RegistersType
       DEF CtlInv, Extract, AddFails, ExtractFails, Clear, ClearFails, Place, PlaceFails,
           Configure, DeleteDir, RenameMove
  <2>4. CASE Extract(o) \/ Clear(o) \/ Place(o) \/ AddFails(o) \/ Configure(o)
    <3>1. dir[n].stage = "installed" /\ dir'[n].stage # "installed"
      BY DEF Known
    <3>2. ~Extract(o) /\ ~Clear(o) /\ ~Place(o)
      BY <2>1, <2>3, <3>1 DEF Extract, Clear, Place, Made
    <3>3. ~AddFails(o)
      BY <2>1, <2>3, <3>1 DEF AddFails, ExtractFails, ClearFails, PlaceFails, Made
    <3>4. ~Configure(o)
      BY <2>1, <2>3, <3>1 DEF Configure, Dirs
    <3> QED BY <2>4, <3>2, <3>3, <3>4
  <2>5. CASE DeleteDir(o)
    BY <2>1, <2>3, <2>5 DEF DeleteDir
  <2>6. CASE RenameMove(o)
    <3>1. dir[reg[o].new].stage = "absent"
      BY <1>1, <2>6 DEF RenameMove, CleanInv, Fresh
    <3>2. reg[o].new # n /\ ~Known(reg[o].new)
      BY <3>1 DEF Known
    <3>3. reg[o].name = n
      BY <2>1, <2>3, <2>6, <3>2 DEF RenameMove
    <3>4. dir'[reg[o].new] = dir[n]
      BY <2>1, <2>3, <2>6, <3>1, <3>2, <3>3 DEF RenameMove, Generated, Known
    <3> QED BY <2>3, <3>2, <3>4
  <2> QED BY <2>2, <2>4, <2>5, <2>6
<1>2. CtlInv /\ Clean /\ [Next]_vars => [Kept]_vars
  BY <1>1
<1>3. Init => Clean
  BY CleanUntilBroken
<1>4. CtlInv /\ Clean /\ [Next]_vars => Clean'
  BY CleanUntilBroken
<1> QED BY <1>2, <1>3, <1>4, InitSafe, NextSafe, PTL DEF Spec, NothingLost

-----------------------------------------------------------------------------
(* What a rootfs is made from                                              *)

\* An add has removed the rootfs of n and moves the new one in next.
Waits(n, o) == pc[o] = "place" /\ reg[o].name = n

\* The directory of a name is made from one image, or waits for it.
Pure(n) ==
    /\ dir[n].stage = "absent" => dir[n].files = {}
    /\ dir[n].stage # "absent" =>
          \/ \E i \in Images : dir[n].files = {i}
          \/ dir[n].files = {} /\ \E o \in Operators : Waits(n, o)

\* What an add unpacks or moves is one image.
OneSource(o) ==
    pc[o] \in {"extract", "clear", "place"} => \E i \in Images : reg[o].image = {i}

PureInv ==
    /\ \A n \in Names : Pure(n)
    /\ \A o \in Operators : OneSource(o)

\* An add that waits goes on waiting until it moves its image in.
LEMMA WaitsOn ==
    ASSUME TypeOK, [Next]_vars, ~broken', NEW o \in Operators, NEW n \in Names,
           Waits(n, o), ~Place(o)
    PROVE  Waits(n, o)'
<1>1. CASE UNCHANGED <<pc, reg>>
  BY <1>1 DEF Waits
<1>2. ASSUME NEW p \in Operators, Begin(p) PROVE Waits(n, o)'
  <2>1. PICK step, r : Command(p, step, r)
    BY <1>2 DEF Begin, Add, AddCommand, Start, Stop, Delete, Rename
  <2> QED BY <2>1 DEF Command, TypeOK, Waits
<1>3. ASSUME NEW p \in Operators, Continue(p) PROVE Waits(n, o)'
  <2>1. p # o
    BY <1>3 DEF Continue, Extract, Clear, Configure, Turn, Create, Go, Active, StopDelete,
       DeleteRuntime, DeleteDir, DeleteKey, RenameStop, RenameMove, RenameRestart,
       RenameDone, Waits
  <2>2. PICK step : Goto(p, step)
    BY <1>3 DEF Continue, Extract, Clear, Place, Configure, Turn, Create, Go, Active, StopDelete,
       DeleteRuntime, DeleteDir, DeleteKey, RenameStop, RenameMove, RenameRestart,
       RenameDone, Started
  <2> QED BY <2>1, <2>2 DEF Goto, TypeOK, Waits
<1>4. ASSUME NEW p \in Operators, AddFails(p) PROVE FALSE
  BY <1>4 DEF AddFails, ExtractFails, ClearFails, PlaceFails
<1>5. ~Reboot
  BY DEF Reboot, Waits
<1> QED BY <1>1, <1>2, <1>3, <1>4, <1>5 DEF Next, vars, Exit

LEMMA PureDirs ==
    ASSUME OwnNames, CtlInv, CleanInv, PureInv, [Next]_vars, ~broken', NEW n \in Names
    PROVE  Pure(n)'
<1>1. dir \in [Names -> Dirs] /\ TypeOK
  BY DEF CtlInv, TypeOK
<1>2. ASSUME NEW o \in Operators, Place(o) PROVE Pure(n)'
  <2> DEFINE x == reg[o].name
  <2>1. x \in Names /\ pc[o] = "place" /\ Goto(o, "configure")
    BY <1>1, <1>2, RegistersType DEF Place
  <2>2. dir[x].stage = "unpacked" /\ \E i \in Images : reg[o].image = {i}
    BY <2>1 DEF CleanInv, Fresh, PureInv, OneSource
  <2>3. CASE n = x
    <3>1. dir'[n].stage = "unpacked" /\ \E i \in Images : dir'[n].files = {i}
      BY <1>1, <1>2, <2>1, <2>2, <2>3 DEF Place, Made, PureInv, Pure
    <3> QED BY <3>1 DEF Pure
  <2>4. CASE n # x
    <3>1. dir'[n] = dir[n]
      BY <1>1, <1>2, <2>4 DEF Place
    <3>2. ASSUME NEW p \in Operators, Waits(n, p) PROVE Waits(n, p)'
      BY <1>1, <2>1, <2>4, <3>2 DEF Waits, Goto, TypeOK
    <3> QED BY <3>1, <3>2 DEF PureInv, Pure
  <2> QED BY <2>3, <2>4
<1>3. ASSUME dir'[n] = dir[n], \A o \in Operators : ~Place(o) PROVE Pure(n)'
  BY <1>1, <1>3, WaitsOn DEF PureInv, Pure
<1>4. ASSUME NEW o \in Operators, Extract(o) \/ Clear(o), n = reg[o].name PROVE Pure(n)'
  <2>1. /\ dir[n].stage = "absent" /\ dir[n].files = {}
        /\ \E i \in Images : reg[o].image = {i}
    BY <1>4 DEF Extract, Clear, CleanInv, Fresh, PureInv, Pure, OneSource
  <2>2. CASE Extract(o)
    <3>1. dir'[n].stage = "unpacked" /\ dir'[n].files = reg[o].image
      BY <1>1, <1>4, <2>1, <2>2 DEF Extract, Made
    <3> QED BY <2>1, <3>1 DEF Pure
  <2>3. CASE Clear(o)
    <3>1. /\ dir'[n].stage = "unpacked" /\ dir'[n].files = {}
          /\ pc'[o] = "place" /\ reg'[o] = reg[o]
      BY <1>1, <1>4, <2>1, <2>3 DEF Clear, Made, Known, Goto, TypeOK
    <3> QED BY <1>4, <3>1 DEF Pure, Waits
  <2> QED BY <1>4, <2>2, <2>3
<1>5. ASSUME NEW o \in Operators, Configure(o), n = reg[o].name,
             \A p \in Operators : ~Place(p)
      PROVE  Pure(n)'
  <2>1. /\ dir'[n].files = dir[n].files
        /\ dir'[n].stage = "absent" <=> dir[n].stage = "absent"
    BY <1>1, <1>5 DEF Configure, Dirs
  <2> QED BY <1>1, <1>5, <2>1, WaitsOn DEF PureInv, Pure
<1>6. ASSUME NEW o \in Operators, DeleteDir(o), n = reg[o].name PROVE Pure(n)'
  BY <1>1, <1>6 DEF DeleteDir, NoDir, Pure
<1>7. ASSUME NEW o \in Operators, RenameMove(o), n \in {reg[o].name, reg[o].new}
      PROVE  Pure(n)'
  <2> DEFINE x == reg[o].name
             m == reg[o].new
  <2>1. x \in Names /\ m \in Names /\ pc[o] = "mv_move" /\ x \in Owner[o]
    BY <1>1, <1>7, RegistersType DEF RenameMove, CtlInv, Holds
  <2>2. dir[m].stage = "absent"
    BY <2>1 DEF CleanInv, Fresh
  <2>3. CASE n = x
    <3>1. dir'[n] = NoDir
      BY <1>1, <1>7, <2>1, <2>3 DEF RenameMove
    <3> QED BY <3>1 DEF Pure, NoDir
  <2>4. CASE n = m /\ n # x
    <3>1. \A p \in Operators : ~Waits(x, p)
      <4> SUFFICES ASSUME NEW p \in Operators, Waits(x, p) PROVE FALSE
        OBVIOUS
      <4>1. x \in Owner[p]
        BY DEF Waits, CtlInv, Holds
      <4>2. p = o
        BY <2>1, <4>1 DEF OwnNames
      <4> QED BY <2>1, <4>2 DEF Waits
    <3>2. ASSUME NEW d \in Dirs
          PROVE  /\ Generated(d).files = d.files
                 /\ Generated(d).stage = "absent" <=> d.stage = "absent"
      BY DEF Generated, Dirs
    <3>3. dir'[n] = Generated(dir[x]) \/ dir'[n] = Generated(dir[m])
      BY <1>1, <1>7, <2>1, <2>4 DEF RenameMove
    <3>4. Pure(x) /\ Pure(m)
      BY <2>1 DEF PureInv
    <3>5. /\ dir'[n].stage = "absent" => dir'[n].files = {}
          /\ dir'[n].stage # "absent" => \E i \in Images : dir'[n].files = {i}
      BY <1>1, <2>1, <2>2, <3>1, <3>2, <3>3, <3>4 DEF Pure
    <3> QED BY <3>5 DEF Pure
  <2> QED BY <1>7, <2>3, <2>4
<1>8. ASSUME NEW o \in Operators, Extract(o) \/ Clear(o) \/ Configure(o) \/ DeleteDir(o)
               \/ RenameMove(o)
      PROVE  Pure(n)'
  <2>1. \A p \in Operators : ~Place(p)
    <3> SUFFICES ASSUME NEW p \in Operators, Place(p) PROVE FALSE
      OBVIOUS
    <3>1. p # o
      BY <1>8 DEF Extract, Clear, Configure, DeleteDir, RenameMove, Place
    <3>2. PICK step : Goto(o, step)
      BY <1>8 DEF Extract, Clear, Configure, DeleteDir, RenameMove
    <3>3. pc'[p] = pc[p]
      BY <1>1, <3>1, <3>2 DEF Goto, TypeOK
    <3> QED BY <1>1, <3>3 DEF Place, Goto, TypeOK
  <2>2. CASE n \notin {reg[o].name, reg[o].new} \/ (n # reg[o].name /\ ~RenameMove(o))
    <3>1. dir'[n] = dir[n]
      BY <1>1, <1>8, <2>2 DEF Extract, Clear, Configure, DeleteDir, RenameMove
    <3> QED BY <1>3, <2>1, <3>1
  <2> QED BY <1>4, <1>5, <1>6, <1>7, <1>8, <2>1, <2>2
<1>9. ASSUME NEW o \in Operators PROVE ~AddFails(o)
  BY DEF AddFails, ExtractFails, ClearFails, PlaceFails
<1>10. CASE UNCHANGED dir
  BY <1>2, <1>3, <1>10
<1> QED BY <1>2, <1>8, <1>9, <1>10 DEF Next, vars, Begin, Add, Start, Stop, Delete, Rename,
     Continue, Turn, Create, Go, Active, StopDelete, DeleteRuntime, DeleteKey,
     RenameStop, RenameRestart, RenameDone, Exit, Reboot

LEMMA PureSources ==
    ASSUME TypeOK, PureInv, [Next]_vars, ~broken', NEW o \in Operators
    PROVE  OneSource(o)'
<1> SUFFICES ASSUME pc'[o] \in {"extract", "clear", "place"}
             PROVE  \E i \in Images : reg'[o].image = {i}
  BY DEF OneSource
<1>1. CASE UNCHANGED <<pc, reg>>
  BY <1>1 DEF PureInv, OneSource
<1>2. ASSUME NEW p \in Operators, Begin(p) PROVE \E i \in Images : reg'[o].image = {i}
  <2>1. CASE p # o
    <3>1. pc'[o] = pc[o] /\ reg'[o] = reg[o]
      BY <1>2, <2>1
         DEF Begin, Add, AddCommand, Start, Stop, Delete, Rename, Command, TypeOK
    <3> QED BY <3>1 DEF PureInv, OneSource
  <2>2. CASE p = o
    <3>1. PICK n \in Names : Add(o, n)
      BY <1>2, <2>2 DEF Begin, Start, Stop, Delete, Rename, Command, TypeOK
    <3>2. PICK i \in Images, step \in {"extract", "clear"} : Command(o, step, Args(n, {i}))
      BY <3>1 DEF Add, AddCommand
    <3>3. reg'[o] = Args(n, {i})
      BY <3>2 DEF Command, TypeOK
    <3> QED BY <3>3 DEF Args
  <2> QED BY <2>1, <2>2
<1>3. ASSUME NEW p \in Operators, Continue(p) PROVE \E i \in Images : reg'[o].image = {i}
  <2>1. PICK step \in Steps \ {"extract", "clear"} :
          Goto(p, step) /\ (step = "place" => pc[p] = "clear")
    BY <1>3 DEF Continue, Extract, Clear, Place, Configure, Turn, Create, Go, Active, StopDelete,
       DeleteRuntime, DeleteDir, DeleteKey, RenameStop, RenameMove, RenameRestart,
       RenameDone, Started, Steps
  <2>2. CASE p # o
    <3>1. pc'[o] = pc[o] /\ reg'[o] = reg[o]
      BY <2>1, <2>2 DEF Goto, TypeOK
    <3> QED BY <3>1 DEF PureInv, OneSource
  <2>3. CASE p = o
    <3>1. step = "place" /\ pc[o] = "clear" /\ reg'[o] = reg[o]
      BY <2>1, <2>3 DEF Goto, TypeOK
    <3> QED BY <3>1 DEF PureInv, OneSource
  <2> QED BY <2>2, <2>3
<1>4. ~Reboot
  BY DEF Reboot
<1>5. ASSUME NEW p \in Operators PROVE ~AddFails(p)
  BY DEF AddFails, ExtractFails, ClearFails, PlaceFails
<1> QED BY <1>1, <1>2, <1>3, <1>4, <1>5 DEF Next, vars, Exit

LEMMA PureNext ==
    ASSUME OwnNames, CtlInv, CleanInv, PureInv, [Next]_vars, ~broken'
    PROVE  PureInv'
<1>1. TypeOK
  BY DEF CtlInv
<1> QED BY <1>1, PureDirs, PureSources DEF PureInv

\* As long as no add has been broken off, an installed container is made from
\* one image: no add unpacks into what another command left.
THEOREM RootfsOfOneImage ==
    ASSUME OwnNames PROVE Spec => []OneImage
<1> DEFINE Clean == ~broken => CleanInv
           Pures == ~broken => PureInv
<1>1. Init => Clean /\ Pures
  BY CleanUntilBroken DEF Init, PureInv, Pure, OneSource, NoDir
<1>2. CtlInv /\ Clean /\ [Next]_vars => Clean'
  BY CleanUntilBroken
<1>3. CtlInv /\ Clean /\ Pures /\ [Next]_vars => Pures'
  <2> SUFFICES ASSUME CtlInv, Clean, Pures, [Next]_vars, ~broken' PROVE PureInv'
    OBVIOUS
  <2>1. ~broken
    BY DEF Next, vars, AddFails, ExtractFails, ClearFails, PlaceFails, Reboot
  <2> QED BY <2>1, PureNext
<1>4. Clean /\ Pures => OneImage
  <2> SUFFICES ASSUME Clean, Pures, ~broken, NEW n \in Names, Known(n)
               PROVE  Cardinality(dir[n].files) = 1
    BY DEF OneImage
  <2>1. \A o \in Operators : ~Waits(n, o)
    BY DEF CleanInv, Fresh, Known, Waits
  <2>2. PICK i \in Images : dir[n].files = {i}
    BY <2>1 DEF PureInv, Pure, Known
  <2> QED BY <2>2, FS_Singleton
<1> QED BY <1>1, <1>2, <1>3, <1>4, InitSafe, NextSafe, PTL DEF Spec

=============================================================================
