------------------------ MODULE SystemUpgradeProofs ------------------------
(***************************************************************************)
(* Proofs about SystemUpgrade, for any containers, any number of releases  *)
(* and any depth of the histories.                                         *)
(***************************************************************************)
EXTENDS SystemUpgrade, FiniteSetTheorems, TLAPS

In(c, s)    == \E i \in DOMAIN s : s[i] = c
Distinct(s) == \A i, j \in DOMAIN s : s[i] = s[j] => i = j

\* The machine, and the process of the command.
MachineOK ==
  /\ running \in {Host!NoSystem} \cup {Host!Complete(r) : r \in Releases}
  /\ target \in Releases /\ fallback \in Releases \cup {0}
  /\ pending \in BOOLEAN /\ warned \in BOOLEAN
  /\ feed \in Releases
  /\ current \in [Containers -> Releases]
  /\ history \in [Containers -> Seq(Releases)]
  /\ up \subseteq Containers /\ foreign \subseteq Containers
  /\ updated \subseteq Containers

CommandOK ==
  /\ goal \in Releases /\ before \in [Containers -> Releases]
  /\ pc \in Points
  /\ IF pc = "idle" THEN job = NoJob ELSE job \in Jobs
  /\ todo \in Seq(Containers) /\ succeeded \in Seq(Containers)
  /\ retval \in {0, 1} /\ exit \in {"none", "ok", "failed", "exception"}
  /\ pc \notin {"idle", "visit", "abort", "host", "host_roll", "reboot"} => todo # <<>>

\* Which command is at which point, and what an idle agent remembers.
ControlInv ==
  /\ pc \in {"visit", "issue"} => job.cmd \in Walks
  /\ pc \in {"check", "delall", "rpm"} => job.cmd \in {"system_upgrade", "upgrade"}
  /\ pc \in {"abort", "host"} => job.cmd = "system_upgrade"
  /\ pc \in {"roll", "host_roll"} => job.cmd = "system_rollback"
  /\ pc \in {"a_status", "a_image", "a_dom0", "a_start", "a_back"} =>
       job.cmd = "activate"
  /\ pc = "idle" => succeeded = <<>>

\* The release before the command is at the top of the container's history.
Saved(c) == history[c] # <<>> /\ Top(history[c]) = before[c]

\* A system upgrade sees every container once.  What it upgraded it went
\* through, with the old release saved; an abort has put back what it took off
\* the list again.
WalkInv ==
  job.cmd = "system_upgrade" =>
    /\ Distinct(todo) /\ Distinct(succeeded)
    /\ \A c \in Containers : In(c, todo) => ~In(c, succeeded)
    /\ \A c \in updated : IF In(c, succeeded) THEN Saved(c)
                          ELSE pc = "abort" /\ current[c] = before[c]
    /\ pc # "abort" => \A c \in Containers \ updated : current[c] = before[c]

\* What it went through is as new as the feed was.
GoalInv ==
  /\ goal <= feed
  /\ "check" \notin Faults /\ job.cmd = "system_upgrade" /\ pc # "abort" =>
       \A c \in Containers : In(c, succeeded) => current[c] >= goal

\* What an activation replaced is saved.
ActivateInv ==
  /\ pc \in {"a_status", "a_image", "a_dom0"} =>
       current[cn] = before[cn] /\ cn \notin updated
  /\ pc \in {"a_start", "a_back"} => (cn \in updated => Saved(cn))

---------------------------------------------------------------------------
(* Sequences                                                               *)

LEMMA TailOf ==
  ASSUME NEW S, NEW s \in Seq(S), s # <<>>
  PROVE  /\ Head(s) \in S /\ Tail(s) \in Seq(S)
         /\ In(Head(s), s)
         /\ \A c : In(c, Tail(s)) => In(c, s)
         /\ \A c : In(c, s) => c = Head(s) \/ In(c, Tail(s))
         /\ Distinct(s) => Distinct(Tail(s)) /\ ~In(Head(s), Tail(s))
<1>1. /\ Head(s) = s[1] /\ 1 \in DOMAIN s
      /\ Tail(s) \in Seq(S) /\ Len(Tail(s)) = Len(s) - 1
      /\ \A i \in DOMAIN Tail(s) : i + 1 \in DOMAIN s /\ Tail(s)[i] = s[i + 1]
      /\ \A i \in DOMAIN s \ {1} : i - 1 \in DOMAIN Tail(s) /\ Tail(s)[i - 1] = s[i]
  OBVIOUS
<1>2. \A c : In(c, Tail(s)) => In(c, s)
  BY <1>1 DEF In
<1>3. \A c : In(c, s) => c = Head(s) \/ In(c, Tail(s))
  BY <1>1 DEF In
<1>4. ASSUME Distinct(s) PROVE Distinct(Tail(s)) /\ ~In(Head(s), Tail(s))
  <2>1. \A i \in DOMAIN Tail(s) : i \in Nat /\ i + 1 # 1
    OBVIOUS
  <2> QED
    BY <1>1, <1>4, <2>1 DEF Distinct, In
<1> QED
  BY <1>1, <1>2, <1>3, <1>4 DEF In

LEMMA AppendOf ==
  ASSUME NEW S, NEW s \in Seq(S), NEW e \in S
  PROVE  /\ Append(s, e) \in Seq(S) /\ Append(s, e) # <<>>
         /\ Top(Append(s, e)) = e
         /\ \A c : In(c, Append(s, e)) <=> In(c, s) \/ c = e
         /\ Distinct(s) /\ ~In(e, s) => Distinct(Append(s, e))
<1>1. /\ Append(s, e) \in Seq(S) /\ Len(Append(s, e)) = Len(s) + 1
      /\ Len(s) + 1 \in DOMAIN Append(s, e) /\ Append(s, e)[Len(s) + 1] = e
      /\ \A i \in DOMAIN s : i \in DOMAIN Append(s, e) /\ Append(s, e)[i] = s[i]
      /\ \A i \in DOMAIN Append(s, e) \ {Len(s) + 1} : i \in DOMAIN s
  OBVIOUS
<1>2. \A c : In(c, Append(s, e)) <=> In(c, s) \/ c = e
  BY <1>1 DEF In
<1>3. Distinct(s) /\ ~In(e, s) => Distinct(Append(s, e))
  BY <1>1 DEF In, Distinct
<1> QED
  BY <1>1, <1>2, <1>3 DEF Top

LEMMA PopOf ==
  ASSUME NEW S, NEW s \in Seq(S), s # <<>>
  PROVE  Top(s) \in S /\ Pop(s) \in Seq(S)
BY DEF Top, Pop

\* A list of the containers is a sequence of them, without repetition.
LEMMA ListsOf ==
  ASSUME NEW list \in Lists
  PROVE  list \in Seq(Containers) /\ Distinct(list)
<1>1. Cardinality(Containers) \in Nat
  BY SystemAssumption, FS_CardinalityType
<1> QED
  BY <1>1 DEF Lists, Distinct

---------------------------------------------------------------------------
(* Type correctness                                                        *)

LEMMA TypeParts == TypeOK <=> MachineOK /\ CommandOK
BY DEF TypeOK, MachineOK, CommandOK

LEMMA TypeInit == Init => MachineOK /\ CommandOK
<1> SUFFICES ASSUME Init PROVE MachineOK /\ CommandOK
  OBVIOUS
<1>1. 1 \in Releases
  BY SystemAssumption DEF Releases
<1>2. \A c \in Containers : <<>> \in Seq(Releases)
  OBVIOUS
<1>3. MachineOK
  BY <1>1, <1>2 DEF Init, MachineOK, Factory, Host!Init
<1>4. CommandOK
  BY <1>1 DEF Init, CommandOK, Factory, Points
<1> QED
  BY <1>3, <1>4

\* Installing, and returning to the top of the history.
LEMMA InstallType ==
  ASSUME MachineOK, NEW c \in Containers, NEW r \in Releases, Install(c, r)
  PROVE  /\ current' \in [Containers -> Releases]
         /\ history' \in [Containers -> Seq(Releases)]
         /\ updated' = updated \cup {c} /\ updated' \subseteq Containers
         /\ current'[c] = r
         /\ history'[c] # <<>> /\ Top(history'[c]) = current[c]
         /\ \A d \in Containers \ {c} :
              current'[d] = current[d] /\ history'[d] = history[d]
<1>1. /\ Append(history[c], current[c]) \in Seq(Releases)
      /\ Append(history[c], current[c]) # <<>>
      /\ Top(Append(history[c], current[c])) = current[c]
  BY AppendOf DEF MachineOK
<1> QED
  BY <1>1 DEF Install, MachineOK

LEMMA ReturnType ==
  ASSUME MachineOK, NEW c \in Containers, ReturnTo(c)
  PROVE  /\ current' \in [Containers -> Releases]
         /\ history' \in [Containers -> Seq(Releases)]
         /\ history[c] # <<>> /\ current'[c] = Top(history[c])
         /\ \A d \in Containers \ {c} :
              current'[d] = current[d] /\ history'[d] = history[d]
<1>1. Top(history[c]) \in Releases /\ Pop(history[c]) \in Seq(Releases)
  BY PopOf DEF ReturnTo, MachineOK
<1> QED
  BY <1>1 DEF ReturnTo, MachineOK

\* The process begins, goes on and ends.
LEMMA BeginType ==
  ASSUME MachineOK, CommandOK, ControlInv,
         NEW cmd \in Commands, NEW first \in Points \ {"idle"},
         NEW list \in Seq(Containers), Begin(cmd, first, list),
         first = "visit" \/ list # <<>>
  PROVE  MachineOK' /\ CommandOK'
BY DEF Begin, MachineOK, CommandOK, host, containers

LEMMA EndType ==
  ASSUME NEW result \in {"none", "ok", "failed", "exception"}, End(result)
  PROVE  CommandOK'
BY SystemAssumption DEF End, CommandOK, Points, Factory, Releases

LEMMA GotoType ==
  ASSUME CommandOK, NEW point \in Points \ {"idle"}, Goto(point), pc # "idle",
         \/ point \in {"visit", "abort", "host", "host_roll", "reboot"}
         \/ todo # <<>>
  PROVE  CommandOK'
BY DEF Goto, CommandOK, ghosts

LEMMA AdvanceType ==
  ASSUME CommandOK, Advance, pc # "idle", todo # <<>>,
         succeeded' \in Seq(Containers), retval' \in {0, 1}
  PROVE  CommandOK'
BY TailOf DEF Advance, CommandOK, ghosts, Points

LEMMA ServedType ==
  ASSUME CommandOK, Served, pc # "idle", todo # <<>>
  PROVE  CommandOK'
<1>1. CASE job.cmd \in Walks
  <2>1. Append(succeeded, cn) \in Seq(Containers)
    BY TailOf, AppendOf DEF CommandOK, cn
  <2> QED
    BY <1>1, <2>1, AdvanceType DEF Served, CommandOK
<1>2. CASE job.cmd \notin Walks
  BY <1>2, EndType DEF Served
<1> QED
  BY <1>1, <1>2

LEMMA TypeNext ==
  ASSUME MachineOK, CommandOK, ControlInv, [Next]_vars
  PROVE  MachineOK' /\ CommandOK'
<1>c. todo # <<>> => cn \in Containers
  BY TailOf DEF CommandOK, cn
<1>r. \A r \in 1..feed : r \in Releases
  BY SystemAssumption DEF MachineOK, Releases
<1>m. UNCHANGED <<host, warned, feed, containers, updated>> => MachineOK'
  BY DEF MachineOK, host, containers
<1>1. CASE StartWalk
  BY <1>1, BeginType, ListsOf DEF StartWalk, Walks, Commands, Points
<1>2. CASE StartUpgrade
  <2>1. \A c \in Containers : <<c>> \in Seq(Containers) /\ <<c>> # <<>>
    OBVIOUS
  <2> QED
    BY <1>2, <2>1, BeginType DEF StartUpgrade, Commands, Points
<1>3. CASE StartActivate
  <2>1. \A c \in Containers : <<c>> \in Seq(Containers) /\ <<c>> # <<>>
    OBVIOUS
  <2> QED
    BY <1>3, <2>1, BeginType DEF StartActivate, Commands, Points
<1>4. CASE Visit
  <2>1. CASE cn \in up
    BY <1>4, <1>m, <2>1 DEF Visit, CommandOK, Points, containers, ghosts, MachineOK, host
  <2>2. CASE cn \notin up
    BY <1>4, <1>m, <2>2, AdvanceType DEF Visit, CommandOK, containers
  <2> QED
    BY <2>1, <2>2
<1>5. CASE Issue
  BY <1>5, <1>m, AdvanceType, GotoType DEF Issue, CommandOK, Points
<1>6. CASE IssueFails
  BY <1>6, <1>m, EndType DEF IssueFails
<1>7. CASE Roll
  <2>1. todo # <<>> /\ cn \in Containers
    BY <1>7, <1>c DEF Roll, CommandOK
  <2>2. Append(succeeded, cn) \in Seq(Containers)
    BY <2>1, AppendOf DEF CommandOK
  <2>3. CommandOK'
    BY <1>7, <2>1, <2>2, AdvanceType DEF Roll, CommandOK
  <2>4. MachineOK'
    BY <1>7, <2>1, ReturnType DEF Roll, RollbackFails, MachineOK, host
  <2> QED
    BY <2>3, <2>4
<1>8. CASE Walked
  BY <1>8, <1>m, GotoType DEF Walked, Points
<1>9. CASE HostUpgrade
  <2>1. running.rel \in Releases \cup {0}
    BY DEF MachineOK, Host!Complete, Host!NoSystem
  <2>2. /\ UNCHANGED <<running, feed, containers, updated>>
        /\ pending' = TRUE /\ fallback' = running.rel
        /\ target' = feed /\ warned' = FALSE
    BY <1>9 DEF HostUpgrade, Host!Deploy, Host!Move
  <2>3. MachineOK'
    BY <2>1, <2>2 DEF MachineOK, containers
  <2> QED
    BY <1>9, <2>3, GotoType, EndType DEF HostUpgrade, HostDone, Points
<1>10. CASE HostUpgradeFails
  BY <1>10, GotoType, EndType
  DEF HostUpgradeFails, HostDone, Points, MachineOK, host, containers
<1>11. CASE HostUpToDate
  BY <1>11, <1>m, GotoType, EndType DEF HostUpToDate, HostDone, Points
<1>12. CASE HostRollback
  <2>1. MachineOK'
    BY <1>12
    DEF HostRollback, Host!Return, Host!Move, MachineOK, Host!Complete,
        Host!NoSystem, containers
  <2> QED
    BY <1>12, <2>1, GotoType DEF HostRollback, Points
<1>13. CASE HostRollbackFails
  BY <1>13, <1>m, GotoType, EndType DEF HostRollbackFails, Points
<1>14. CASE NothingNewer
  BY <1>14, <1>m, ServedType DEF NothingNewer, CommandOK
<1>15. CASE Newer
  BY <1>15, <1>m, GotoType DEF Newer, CommandOK, Points
<1>16. CASE DeleteSnapshots
  <2>1. history' \in [Containers -> Seq(Releases)]
    <3>1. <<>> \in Seq(Releases)
      OBVIOUS
    <3> QED
      BY <1>16, <3>1 DEF DeleteSnapshots, MachineOK
  <2>2. MachineOK'
    BY <1>16, <2>1 DEF DeleteSnapshots, MachineOK, host
  <2> QED
    BY <1>16, <2>2, GotoType DEF DeleteSnapshots, CommandOK, Points
<1>17. CASE RpmUpgrade
  <2>1. cn \in Containers /\ feed \in Releases
    BY <1>17, <1>c DEF RpmUpgrade, CommandOK, MachineOK
  <2>2. MachineOK'
    BY <1>17, <2>1, InstallType DEF RpmUpgrade, MachineOK, host
  <2> QED
    BY <1>17, <2>2, ServedType DEF RpmUpgrade, CommandOK
<1>18. CASE RpmUpgradeFails
  <2>1. MachineOK'
    BY <1>18, <1>m DEF RpmUpgradeFails
  <2>2. CommandOK'
    BY <1>18, EndType DEF RpmUpgradeFails, CommandOK, Points, ghosts
  <2> QED
    BY <2>1, <2>2
<1>19. CASE AbortOne
  <2>1. Head(succeeded) \in Containers /\ Tail(succeeded) \in Seq(Containers)
    BY <1>19, TailOf DEF AbortOne, CommandOK
  <2>2. MachineOK'
    BY <1>19, <2>1, ReturnType DEF AbortOne, RollbackFails, MachineOK, host
  <2>3. CommandOK'
    BY <1>19, <2>1 DEF AbortOne, CommandOK, ghosts
  <2> QED
    BY <2>2, <2>3
<1>20. CASE Aborted
  BY <1>20, <1>m, EndType DEF Aborted
<1>21. CASE ActivateDom0
  <2>1. cn \in Containers
    BY <1>21, <1>c DEF ActivateDom0, CommandOK
  <2>2. MachineOK'
    BY <1>21, <1>r, <2>1, InstallType DEF ActivateDom0, MachineOK, host
  <2> QED
    BY <1>21, <2>2, EndType DEF ActivateDom0
<1>22. CASE ActivateRefused
  BY <1>22, <1>m, EndType DEF ActivateRefused
<1>23. CASE ActivateStop
  BY <1>23, GotoType DEF ActivateStop, CommandOK, Points, MachineOK, host
<1>24. CASE ActivateImage
  <2>1. todo # <<>> /\ cn \in Containers
    BY <1>24, <1>c DEF ActivateImage, CommandOK
  <2>2. MachineOK'
    BY <1>24, <1>r, <2>1, InstallType DEF ActivateImage, MachineOK, host
  <2> QED
    BY <1>24, <2>1, <2>2, GotoType DEF ActivateImage, Points
<1>25. CASE ActivateStart
  BY <1>25, <1>c, EndType DEF ActivateStart, CommandOK, MachineOK, host
<1>26. CASE ActivateStartFails
  BY <1>26, <1>m, GotoType DEF ActivateStartFails, CommandOK, Points
<1>27. CASE ActivateBack
  <2>1. cn \in Containers
    BY <1>27, <1>c DEF ActivateBack, CommandOK
  <2>2. MachineOK'
    BY <1>27, <2>1, ReturnType DEF ActivateBack, RollbackFails, MachineOK, host
  <2> QED
    BY <1>27, <2>2, EndType DEF ActivateBack
<1>28. ASSUME NEW c \in Containers, RollbackContainer(c)
       PROVE  MachineOK' /\ CommandOK'
  BY <1>28, ReturnType
  DEF RollbackContainer, MachineOK, CommandOK, host, command, ghosts
<1>29. ASSUME NEW c \in Containers, SnapshotContainer(c)
       PROVE  MachineOK' /\ CommandOK'
  <2>1. Append(history[c], current[c]) \in Seq(Releases)
    BY AppendOf DEF MachineOK
  <2> QED
    BY <1>29, <2>1
    DEF SnapshotContainer, MachineOK, CommandOK, host, command, ghosts
<1>30. ASSUME NEW c \in Containers, StartContainer(c) \/ Exit(c)
       PROVE  MachineOK' /\ CommandOK'
  BY <1>30
  DEF StartContainer, Exit, MachineOK, CommandOK, host, command, ghosts
<1>31. CASE Publish
  BY <1>31, SystemAssumption
  DEF Publish, MachineOK, CommandOK, Releases, host, containers, command, ghosts
<1>32. CASE GoDown
  BY <1>32, EndType DEF GoDown, Host!GoDown, MachineOK
<1>33. CASE Boot
  BY <1>33 DEF Boot, Host!Boot, MachineOK, CommandOK, command, ghosts
<1>34. CASE UNCHANGED vars
  BY <1>34 DEF vars, MachineOK, CommandOK, host, containers, command, ghosts
<1> QED
  BY <1>1, <1>2, <1>3, <1>4, <1>5, <1>6, <1>7, <1>8, <1>9, <1>10, <1>11,
     <1>12, <1>13, <1>14, <1>15, <1>16, <1>17, <1>18, <1>19, <1>20, <1>21,
     <1>22, <1>23, <1>24, <1>25, <1>26, <1>27, <1>28, <1>29, <1>30, <1>31,
     <1>32, <1>33, <1>34
  DEF Next, System, Container, World

LEMMA ControlNext ==
  ASSUME CommandOK, ControlInv, [Next]_vars
  PROVE  ControlInv'
<1> USE DEF CommandOK, ControlInv, Jobs, NoJob, Walks, Goto, Advance, End, Begin,
            command
<1>1. CASE System
  <2>1. CASE StartWalk
    BY <2>1 DEF StartWalk
  <2>2. CASE Visit
    BY <2>2 DEF Visit
  <2>3. CASE Issue \/ IssueFails
    BY <2>3 DEF Issue, IssueFails
  <2>4. CASE Roll \/ Walked
    BY <2>4 DEF Roll, Walked
  <2>5. CASE HostUpgrade \/ HostUpgradeFails \/ HostUpToDate
    BY <2>5 DEF HostUpgrade, HostUpgradeFails, HostUpToDate, HostDone
  <2>6. CASE HostRollback \/ HostRollbackFails
    BY <2>6 DEF HostRollback, HostRollbackFails
  <2> QED
    BY <1>1, <2>1, <2>2, <2>3, <2>4, <2>5, <2>6 DEF System
<1>2. CASE Container
  <2>1. CASE StartUpgrade
    BY <2>1 DEF StartUpgrade
  <2>2. CASE NothingNewer \/ RpmUpgrade
    BY <2>2 DEF NothingNewer, RpmUpgrade, Served
  <2>3. CASE Newer \/ DeleteSnapshots
    BY <2>3 DEF Newer, DeleteSnapshots
  <2>4. CASE RpmUpgradeFails \/ AbortOne \/ Aborted
    BY <2>4 DEF RpmUpgradeFails, AbortOne, Aborted
  <2>5. CASE StartActivate
    BY <2>5 DEF StartActivate
  <2>6. CASE ActivateDom0 \/ ActivateRefused \/ ActivateStop \/ ActivateImage
    BY <2>6 DEF ActivateDom0, ActivateRefused, ActivateStop, ActivateImage
  <2>7. CASE ActivateStart \/ ActivateStartFails \/ ActivateBack
    BY <2>7 DEF ActivateStart, ActivateStartFails, ActivateBack
  <2> QED
    BY <1>2, <2>1, <2>2, <2>3, <2>4, <2>5, <2>6, <2>7 DEF Container
<1>3. CASE World
  BY <1>3 DEF World, RollbackContainer, SnapshotContainer, StartContainer, Exit,
              Publish, GoDown, Boot
<1>4. CASE UNCHANGED vars
  BY <1>4 DEF vars
<1> QED
  BY <1>1, <1>2, <1>3, <1>4 DEF Next

---------------------------------------------------------------------------
(* The walk over the containers                                            *)

\* A step in which neither the lists nor the containers change.
LEMMA WalkStays ==
  ASSUME WalkInv,
         UNCHANGED <<job, todo, succeeded, before, current, history, updated>>,
         pc' = "abort" <=> pc = "abort"
  PROVE  WalkInv'
BY DEF WalkInv, Saved, In, Distinct

\* The end of the command, or another command.
LEMMA WalkEnds == job'.cmd # "system_upgrade" => WalkInv'
BY DEF WalkInv

LEMMA EndsWalk == ASSUME NEW result, End(result) PROVE WalkInv'
BY WalkEnds DEF End, NoJob

LEMMA WalkAdvances ==
  ASSUME CommandOK, WalkInv, Advance, todo # <<>>, pc # "abort",
         UNCHANGED <<succeeded, current, history, updated>>
  PROVE  WalkInv'
<1>1. Distinct(todo) => Distinct(Tail(todo))
  BY TailOf DEF CommandOK
<1>2. \A c : In(c, Tail(todo)) => In(c, todo)
  BY TailOf DEF CommandOK
<1> QED
  BY <1>1, <1>2 DEF WalkInv, Saved, In, Advance, ghosts

\* A container that was served goes from one list to the other.
LEMMA WalkServes ==
  ASSUME MachineOK, CommandOK, ControlInv, WalkInv, Served,
         todo # <<>>, pc \in {"check", "rpm"},
         \/ UNCHANGED <<current, history, updated>>
         \/ \E r \in Releases : Install(cn, r)
  PROVE  WalkInv'
<1> SUFFICES ASSUME job'.cmd = "system_upgrade" PROVE WalkInv'
  BY DEF WalkInv
<1>1. job.cmd = "system_upgrade" /\ Advance /\ succeeded' = Append(succeeded, cn)
  BY DEF Served, Advance, End, NoJob, Walks
<1>2. /\ cn \in Containers /\ In(cn, todo) /\ todo' = Tail(todo)
      /\ Distinct(todo') /\ ~In(cn, todo')
      /\ \A c : In(c, todo') => In(c, todo)
  BY <1>1, TailOf DEF CommandOK, cn, WalkInv, Advance
<1>3. ~In(cn, succeeded)
  BY <1>1, <1>2 DEF WalkInv
<1>4. /\ Distinct(succeeded')
      /\ \A c : In(c, succeeded') <=> In(c, succeeded) \/ c = cn
  BY <1>1, <1>2, <1>3, AppendOf DEF CommandOK, WalkInv
<1>5. cn \notin updated /\ current[cn] = before[cn]
  BY <1>1, <1>2, <1>3 DEF WalkInv
<1>6. UNCHANGED before /\ pc' = "visit"
  BY <1>1 DEF Advance, ghosts
<1>7. /\ \A c \in Containers \ {cn} :
           /\ current'[c] = current[c] /\ history'[c] = history[c]
           /\ c \in updated' <=> c \in updated
      /\ cn \in updated' => history'[cn] # <<>> /\ Top(history'[cn]) = before[cn]
      /\ cn \notin updated' => current'[cn] = before[cn]
      /\ updated' \subseteq Containers
  BY <1>2, <1>5, InstallType DEF MachineOK
<1>8. \A c \in updated' : In(c, succeeded') /\ Saved(c)'
  BY <1>1, <1>4, <1>6, <1>7 DEF WalkInv, Saved
<1>9. \A c \in Containers \ updated' : current'[c] = before'[c]
  BY <1>1, <1>6, <1>7 DEF WalkInv
<1>10. \A c \in Containers : In(c, todo') => ~In(c, succeeded')
  BY <1>1, <1>2, <1>4 DEF WalkInv
<1> QED
  BY <1>2, <1>4, <1>6, <1>8, <1>9, <1>10 DEF WalkInv

LEMMA WalkNext ==
  ASSUME MachineOK, CommandOK, ControlInv, WalkInv, "rollback" \notin Faults,
         [Next]_vars
  PROVE  WalkInv'
<1>1. CASE StartWalk
  <2> SUFFICES ASSUME job'.cmd = "system_upgrade" PROVE WalkInv'
    BY DEF WalkInv
  <2>1. /\ todo' \in Lists /\ succeeded' = <<>> /\ updated' = {}
        /\ before' = current /\ UNCHANGED current /\ pc' = "visit"
    BY <1>1 DEF StartWalk, Begin, ControlInv, containers
  <2>2. Distinct(todo') /\ \A c : ~In(c, succeeded')
    BY <2>1, ListsOf DEF In
  <2> QED
    BY <2>1, <2>2 DEF WalkInv, Distinct
<1>2. CASE StartUpgrade \/ StartActivate
  BY <1>2, WalkEnds DEF StartUpgrade, StartActivate, Begin
<1>3. CASE Visit
  BY <1>3, WalkStays, WalkAdvances DEF Visit, containers, ghosts
<1>4. CASE Issue
  BY <1>4, WalkStays, WalkAdvances
  DEF Issue, Goto, CommandOK, containers, ghosts
<1>5. CASE Roll
  BY <1>5, WalkEnds DEF Roll, Advance, ControlInv
<1>6. CASE Walked \/ Newer
  BY <1>6, WalkStays DEF Walked, Newer, Goto, containers, ghosts
<1>7. CASE HostUpgrade \/ HostUpgradeFails \/ HostUpToDate
  BY <1>7, WalkStays, EndsWalk
  DEF HostUpgrade, HostUpgradeFails, HostUpToDate, HostDone, Goto,
      containers, ghosts
<1>8. CASE HostRollback \/ HostRollbackFails
  <2>1. job.cmd = "system_rollback"
    BY <1>8 DEF HostRollback, HostRollbackFails, ControlInv
  <2>2. End("ok") \/ UNCHANGED job
    BY <1>8 DEF HostRollback, HostRollbackFails, Goto
  <2> QED
    BY <2>1, <2>2, WalkEnds, EndsWalk
<1>9. CASE NothingNewer
  BY <1>9, WalkServes DEF NothingNewer, CommandOK, containers
<1>10. CASE DeleteSnapshots
  <2> SUFFICES ASSUME job'.cmd = "system_upgrade" PROVE WalkInv'
    BY DEF WalkInv
  <2>1. /\ UNCHANGED <<job, todo, succeeded, before, current, updated>>
        /\ pc # "abort" /\ pc' # "abort"
    BY <1>10 DEF DeleteSnapshots, Goto, ghosts
  <2>2. cn \in Containers /\ In(cn, todo)
    BY <1>10, TailOf DEF DeleteSnapshots, CommandOK, cn
  <2>3. cn \notin updated
    BY <2>1, <2>2 DEF WalkInv
  <2>4. \A c \in Containers \ {cn} : history'[c] = history[c]
    BY <1>10 DEF DeleteSnapshots, MachineOK
  <2> QED
    BY <2>1, <2>3, <2>4 DEF WalkInv, Saved, In, Distinct, MachineOK
<1>11. CASE RpmUpgrade
  BY <1>11, WalkServes DEF RpmUpgrade, CommandOK, MachineOK
<1>12. CASE RpmUpgradeFails
  <2>1. CASE job.cmd \in Walks
    BY <1>12, <2>1
    DEF RpmUpgradeFails, WalkInv, Saved, In, Distinct, containers, ghosts
  <2>2. CASE job.cmd \notin Walks
    BY <1>12, <2>2, EndsWalk DEF RpmUpgradeFails
  <2> QED
    BY <2>1, <2>2
<1>13. CASE AbortOne
  <2> DEFINE h == Head(succeeded)
  <2>1. job.cmd = "system_upgrade" /\ pc = "abort" /\ succeeded # <<>>
    BY <1>13 DEF AbortOne, ControlInv
  <2>2. UNCHANGED <<job, todo, before, updated, pc>> /\ succeeded' = Tail(succeeded)
    BY <1>13 DEF AbortOne, ghosts
  <2>3. /\ h \in Containers /\ In(h, succeeded) /\ ~In(h, succeeded')
        /\ Distinct(succeeded')
        /\ \A c : In(c, succeeded') => In(c, succeeded)
        /\ \A c : In(c, succeeded) => c = h \/ In(c, succeeded')
    BY <2>1, <2>2, TailOf DEF CommandOK, WalkInv
  <2>4. \A c \in Containers \ {h} :
          current'[c] = current[c] /\ history'[c] = history[c]
    BY <1>13, <2>3, ReturnType DEF AbortOne, RollbackFails
  <2>5. h \in updated => current'[h] = before[h]
    <3>1. h \in updated => Saved(h)
      BY <2>1, <2>3 DEF WalkInv
    <3>2. ReturnTo(h) \/ history[h] = <<>>
      BY <1>13 DEF AbortOne, RollbackFails
    <3> QED
      BY <2>3, <3>1, <3>2, ReturnType DEF Saved
  <2>6. \A c \in updated : IF In(c, succeeded') THEN Saved(c)'
                           ELSE current'[c] = before[c]
    BY <2>1, <2>2, <2>3, <2>4, <2>5 DEF WalkInv, Saved, MachineOK
  <2> QED
    BY <2>1, <2>2, <2>3, <2>6 DEF WalkInv
<1>14. CASE \/ IssueFails \/ Aborted \/ ActivateDom0 \/ ActivateRefused
            \/ ActivateStart \/ ActivateBack \/ GoDown
  <2>1. PICK result : End(result)
    BY <1>14
    DEF IssueFails, Aborted, ActivateDom0, ActivateRefused, ActivateStart,
        ActivateBack, GoDown
  <2> QED
    BY <2>1, EndsWalk
<1>15. CASE ActivateStop \/ ActivateImage \/ ActivateStartFails
  BY <1>15, WalkEnds
  DEF ActivateStop, ActivateImage, ActivateStartFails, ControlInv, Goto
<1>16. ASSUME NEW c \in Containers, RollbackContainer(c) \/ SnapshotContainer(c)
       PROVE  WalkInv'
  BY <1>16, WalkEnds
  DEF RollbackContainer, SnapshotContainer, Idle, CommandOK, NoJob, command
<1>17. ASSUME NEW c \in Containers, StartContainer(c) \/ Exit(c)
       PROVE  WalkInv'
  BY <1>17, WalkStays DEF StartContainer, Exit, command, ghosts
<1>18. CASE Publish \/ Boot
  BY <1>18, WalkStays DEF Publish, Boot, containers, command, ghosts
<1>19. CASE UNCHANGED vars
  BY <1>19, WalkStays DEF vars, containers, command, ghosts
<1> QED
  BY <1>1, <1>2, <1>3, <1>4, <1>5, <1>6, <1>7, <1>8, <1>9, <1>10, <1>11,
     <1>12, <1>13, <1>14, <1>15, <1>16, <1>17, <1>18, <1>19
  DEF Next, System, Container, World

---------------------------------------------------------------------------
(* As new as the feed was                                                  *)

LEMMA GoalStays ==
  ASSUME GoalInv, UNCHANGED <<job, succeeded, goal, current, feed>>,
         pc = "abort" => pc' = "abort"
  PROVE  GoalInv'
BY DEF GoalInv, In

LEMMA GoalEnds ==
  ASSUME goal' <= feed', job'.cmd # "system_upgrade"
  PROVE  GoalInv'
BY DEF GoalInv

LEMMA EndsGoal ==
  ASSUME MachineOK, NEW result, End(result), UNCHANGED feed
  PROVE  GoalInv'
BY GoalEnds, SystemAssumption DEF End, NoJob, MachineOK, Releases

LEMMA GoalServes ==
  ASSUME MachineOK, CommandOK, ControlInv, GoalInv, Served, UNCHANGED feed,
         todo # <<>>, pc \in {"check", "rpm"},
         "check" \notin Faults => current'[cn] >= feed,
         \/ UNCHANGED <<current, history, updated>>
         \/ \E r \in Releases : Install(cn, r)
  PROVE  GoalInv'
<1>1. CASE job.cmd \notin Walks
  BY <1>1, EndsGoal DEF Served
<1>2. CASE job.cmd \in Walks
  <2>1. /\ UNCHANGED <<job, goal>> /\ succeeded' = Append(succeeded, cn)
        /\ cn \in Containers
    BY <1>2, TailOf DEF Served, Advance, ghosts, CommandOK, cn
  <2>2. \A c : In(c, succeeded') <=> In(c, succeeded) \/ c = cn
    BY <2>1, AppendOf DEF CommandOK
  <2>3. \A c \in Containers \ {cn} : current'[c] = current[c]
    BY <2>1, InstallType
  <2>4. goal \in Nat /\ feed \in Nat /\ current'[cn] \in Nat
    BY <2>1, SystemAssumption, InstallType
    DEF MachineOK, CommandOK, Releases
  <2> QED
    BY <2>1, <2>2, <2>3, <2>4 DEF GoalInv
<1> QED
  BY <1>1, <1>2

LEMMA GoalNext ==
  ASSUME MachineOK, CommandOK, ControlInv, GoalInv, [Next]_vars
  PROVE  GoalInv'
<1>1. CASE StartWalk
  <2>1. succeeded' = <<>> /\ goal' = feed /\ UNCHANGED feed
    BY <1>1 DEF StartWalk, Begin, ControlInv
  <2>2. feed \in Nat
    BY SystemAssumption DEF MachineOK, Releases
  <2> QED
    BY <2>1, <2>2 DEF GoalInv, In
<1>2. CASE StartUpgrade \/ StartActivate
  <2>1. job'.cmd # "system_upgrade" /\ goal' = feed /\ UNCHANGED feed
    BY <1>2 DEF StartUpgrade, StartActivate, Begin
  <2>2. feed \in Nat
    BY SystemAssumption DEF MachineOK, Releases
  <2> QED
    BY <2>1, <2>2, GoalEnds
<1>3. CASE Visit \/ Issue
  BY <1>3, GoalStays DEF Visit, Issue, Advance, Goto, containers, ghosts
<1>4. CASE Roll
  BY <1>4, GoalEnds DEF Roll, Advance, ControlInv, GoalInv, ghosts
<1>5. CASE Walked \/ Newer
  BY <1>5, GoalStays DEF Walked, Newer, Goto, containers, ghosts
<1>6. CASE HostUpgrade \/ HostUpgradeFails \/ HostUpToDate
  BY <1>6, GoalStays, EndsGoal
  DEF HostUpgrade, HostUpgradeFails, HostUpToDate, HostDone, Goto,
      containers, ghosts
<1>7. CASE HostRollback \/ HostRollbackFails
  BY <1>7, GoalStays, EndsGoal
  DEF HostRollback, HostRollbackFails, Goto, containers, ghosts
<1>8. CASE NothingNewer
  BY <1>8, GoalServes DEF NothingNewer, CommandOK, containers
<1>9. CASE DeleteSnapshots
  BY <1>9, GoalStays DEF DeleteSnapshots, Goto, ghosts
<1>10. CASE RpmUpgrade
  <2>1. todo # <<>> /\ cn \in Containers /\ feed \in Releases
    BY <1>10, TailOf DEF RpmUpgrade, CommandOK, cn, MachineOK
  <2>2. current'[cn] = feed /\ feed >= feed
    BY <1>10, <2>1, InstallType, SystemAssumption DEF RpmUpgrade, Releases
  <2> QED
    BY <1>10, <2>1, <2>2, GoalServes DEF RpmUpgrade
<1>11. CASE RpmUpgradeFails
  <2>1. CASE job.cmd \in Walks
    BY <1>11, <2>1, GoalStays DEF RpmUpgradeFails, containers, ghosts
  <2>2. CASE job.cmd \notin Walks
    BY <1>11, <2>2, EndsGoal DEF RpmUpgradeFails
  <2> QED
    BY <2>1, <2>2
<1>12. CASE AbortOne
  BY <1>12 DEF AbortOne, GoalInv, ghosts
<1>13. CASE \/ IssueFails \/ Aborted \/ ActivateDom0 \/ ActivateRefused
            \/ ActivateStart \/ ActivateBack \/ GoDown
  <2>1. PICK result : End(result)
    BY <1>13
    DEF IssueFails, Aborted, ActivateDom0, ActivateRefused, ActivateStart,
        ActivateBack, GoDown
  <2>2. UNCHANGED feed
    BY <1>13
    DEF IssueFails, Aborted, ActivateDom0, ActivateRefused, ActivateStart,
        ActivateBack, GoDown
  <2> QED
    BY <2>1, <2>2, EndsGoal
<1>14. CASE ActivateStop \/ ActivateImage \/ ActivateStartFails
  BY <1>14, GoalEnds
  DEF ActivateStop, ActivateImage, ActivateStartFails, ControlInv, Goto,
      GoalInv, ghosts
<1>15. ASSUME NEW c \in Containers, RollbackContainer(c) \/ SnapshotContainer(c)
       PROVE  GoalInv'
  BY <1>15, GoalEnds
  DEF RollbackContainer, SnapshotContainer, Idle, CommandOK, NoJob, command,
      ghosts, GoalInv
<1>16. ASSUME NEW c \in Containers, StartContainer(c) \/ Exit(c)
       PROVE  GoalInv'
  BY <1>16, GoalStays DEF StartContainer, Exit, command, ghosts
<1>17. CASE Publish
  <2>1. goal \in Nat /\ feed \in Nat
    BY SystemAssumption DEF MachineOK, CommandOK, Releases
  <2> QED
    BY <1>17, <2>1 DEF Publish, GoalInv, In, containers, command, ghosts
<1>18. CASE Boot
  BY <1>18, GoalStays DEF Boot, command, ghosts
<1>19. CASE UNCHANGED vars
  BY <1>19, GoalStays DEF vars, containers, command, ghosts
<1> QED
  BY <1>1, <1>2, <1>3, <1>4, <1>5, <1>6, <1>7, <1>8, <1>9, <1>10, <1>11,
     <1>12, <1>13, <1>14, <1>15, <1>16, <1>17, <1>18, <1>19
  DEF Next, System, Container, World

---------------------------------------------------------------------------
(* Activation                                                              *)

APoints == {"a_status", "a_image", "a_dom0", "a_start", "a_back"}

LEMMA ActivateNext ==
  ASSUME MachineOK, CommandOK, ControlInv, ActivateInv, [Next]_vars
  PROVE  ActivateInv'
<1>1. CASE pc' \notin APoints
  BY <1>1 DEF ActivateInv, APoints
<1>2. CASE StartActivate
  BY <1>2 DEF StartActivate, Begin, ActivateInv, containers, cn
<1>3. CASE ActivateStop \/ ActivateStartFails
  BY <1>3
  DEF ActivateStop, ActivateStartFails, Goto, ActivateInv, Saved, containers,
      ghosts, cn
<1>4. CASE ActivateImage
  <2>1. cn \in Containers
    BY <1>4, TailOf DEF ActivateImage, CommandOK, cn
  <2>2. UNCHANGED <<todo, before>> /\ pc' = "a_start" /\ pc = "a_image"
    BY <1>4 DEF ActivateImage, Goto, ghosts
  <2>3. \A r \in 1..feed : r \in Releases
    BY SystemAssumption DEF MachineOK, Releases
  <2>4. \/ history'[cn] # <<>> /\ Top(history'[cn]) = current[cn]
        \/ UNCHANGED updated
    BY <1>4, <2>1, <2>3, InstallType DEF ActivateImage
  <2> QED
    BY <2>2, <2>4 DEF ActivateInv, Saved, cn
<1>5. CASE UNCHANGED <<pc, todo, before, current, history, updated>>
  BY <1>5 DEF ActivateInv, Saved, cn
<1>6. CASE World
  <2>1. ASSUME NEW c \in Containers, RollbackContainer(c) \/ SnapshotContainer(c)
        PROVE  ActivateInv'
    BY <2>1
    DEF RollbackContainer, SnapshotContainer, Idle, command, ActivateInv
  <2> QED
    BY <1>1, <1>5, <1>6, <2>1
    DEF World, StartContainer, Exit, Publish, GoDown, Boot, End, APoints,
        containers, command, ghosts
<1>7. CASE UNCHANGED vars
  BY <1>5, <1>7 DEF vars, containers, command, ghosts
<1>8. CASE System
  BY <1>1, <1>8
  DEF System, StartWalk, Begin, Visit, Advance, Issue, Goto, IssueFails, End,
      Roll, Walked, HostUpgrade, HostUpgradeFails, HostUpToDate, HostDone,
      HostRollback, HostRollbackFails, APoints
<1>9. CASE Container
  BY <1>1, <1>2, <1>3, <1>4, <1>9
  DEF Container, StartUpgrade, Begin, NothingNewer, Newer, DeleteSnapshots,
      RpmUpgrade, Served, RpmUpgradeFails, AbortOne, Aborted, ActivateDom0,
      ActivateRefused, ActivateStart, ActivateBack, Advance, Goto, End, APoints
<1> QED
  BY <1>6, <1>7, <1>8, <1>9 DEF Next

---------------------------------------------------------------------------
(* The invariant and what follows from it                                  *)

SystemInv ==
  /\ MachineOK /\ CommandOK /\ ControlInv /\ GoalInv /\ ActivateInv
  /\ "rollback" \notin Faults => WalkInv

LEMMA SystemInitInv == Init => SystemInv
<1> SUFFICES ASSUME Init PROVE SystemInv
  OBVIOUS
<1>1. MachineOK /\ CommandOK
  BY TypeInit
<1>2. ControlInv /\ GoalInv /\ ActivateInv /\ WalkInv
  BY SystemAssumption
  DEF Init, ControlInv, GoalInv, ActivateInv, WalkInv, NoJob
<1> QED
  BY <1>1, <1>2 DEF SystemInv

LEMMA SystemNextInv == SystemInv /\ [Next]_vars => SystemInv'
BY TypeNext, ControlNext, GoalNext, ActivateNext, WalkNext DEF SystemInv

LEMMA SystemInvariant == Spec => []SystemInv
BY SystemInitInv, SystemNextInv, PTL DEF Spec

\* Type correctness of the agent over the whole machine.
THEOREM SystemTypeCorrect == Spec => []TypeOK
<1>1. SystemInv => TypeOK
  BY TypeParts DEF SystemInv
<1> QED
  BY <1>1, SystemInvariant, PTL

\* A system upgrade that gives up has put every container it upgraded back to
\* the release it had, however many it went through and whatever was upgraded
\* meanwhile, as long as no rollback of overc-ctl fails (overc.py 82-85).
THEOREM AbortUndoesAll ==
  "rollback" \notin Faults => (Spec => []AbortUndoes)
<1> SUFFICES ASSUME "rollback" \notin Faults PROVE Spec => []AbortUndoes
  OBVIOUS
<1>1. SystemInv => AbortUndoes
  BY DEF SystemInv, ControlInv, WalkInv, AbortUndoes, In
<1> QED
  BY <1>1, SystemInvariant, PTL

\* The host is upgraded after the containers: each of those the upgrade went
\* through is then at least as new as the feed was when it began, as long as
\* no check-update fails (overc.py 79-87).
THEOREM HostAfterContainers ==
  "check" \notin Faults => (Spec => HostComesLast)
<1> SUFFICES ASSUME "check" \notin Faults PROVE Spec => HostComesLast
  OBVIOUS
<1> DEFINE Last == pc = "host" /\ target' # target =>
                     /\ target' >= goal
                     /\ \A i \in DOMAIN succeeded : current[succeeded[i]] >= goal
<1>1. ASSUME SystemInv, Next, pc = "host", target' # target
      PROVE  /\ target' >= goal
             /\ \A i \in DOMAIN succeeded : current[succeeded[i]] >= goal
  <2>1. HostUpgrade
    BY <1>1
    DEF Next, System, StartWalk, Begin, Visit, Issue, IssueFails, Roll, Walked,
        HostUpgradeFails, HostUpToDate, HostRollback, HostRollbackFails,
        Container, StartUpgrade, NothingNewer, Newer, DeleteSnapshots,
        RpmUpgrade, RpmUpgradeFails, AbortOne, Aborted, StartActivate,
        ActivateDom0, ActivateRefused, ActivateStop, ActivateImage,
        ActivateStart, ActivateStartFails, ActivateBack, World,
        RollbackContainer, SnapshotContainer, StartContainer, Exit, Publish,
        GoDown, Boot, Host!GoDown, Host!Boot, host
  <2>2. target' = feed /\ goal <= feed
    BY <1>1, <2>1 DEF HostUpgrade, SystemInv, GoalInv
  <2>3. goal \in Nat /\ feed \in Nat
    BY <1>1, SystemAssumption DEF SystemInv, MachineOK, CommandOK, Releases
  <2>4. \A i \in DOMAIN succeeded : succeeded[i] \in Containers
    BY <1>1 DEF SystemInv, CommandOK
  <2> QED
    BY <1>1, <2>2, <2>3, <2>4 DEF SystemInv, ControlInv, GoalInv, In
<1>2. SystemInv /\ [Next]_vars => [Last]_vars
  BY <1>1
<1> QED
  BY <1>2, SystemInvariant, PTL DEF Spec, HostComesLast

\* When the new image of a container was installed and the container does not
\* start, the rollback at the end of the activation restores the release the
\* image replaced, as long as overc-ctl can (dom0 137).
THEOREM ActivationUndone ==
  "rollback" \notin Faults => (Spec => ActivateUndoes)
<1> SUFFICES ASSUME "rollback" \notin Faults PROVE Spec => ActivateUndoes
  OBVIOUS
<1> DEFINE Undone == pc = "a_back" /\ pc' = "idle" /\ exit' = "ok" /\ cn \in updated =>
                       current'[cn] = before[cn]
<1>1. ASSUME SystemInv, Next, pc = "a_back", pc' = "idle", exit' = "ok",
             cn \in updated
      PROVE  current'[cn] = before[cn]
  <2>1. ActivateBack
    BY <1>1
    DEF Next, System, StartWalk, Begin, Visit, Issue, IssueFails, Roll, Walked,
        HostUpgrade, HostUpgradeFails, HostUpToDate, HostRollback,
        HostRollbackFails, Container, StartUpgrade, NothingNewer, Newer,
        DeleteSnapshots, RpmUpgrade, RpmUpgradeFails, AbortOne, Aborted,
        StartActivate, ActivateDom0, ActivateRefused, ActivateStop,
        ActivateImage, ActivateStart, ActivateStartFails, World, Idle,
        RollbackContainer, SnapshotContainer, StartContainer, Exit, Publish,
        GoDown, Boot, End, command
  <2>2. Saved(cn) /\ cn \in Containers
    BY <1>1 DEF SystemInv, ActivateInv, MachineOK
  <2>3. ReturnTo(cn)
    BY <2>1, <2>2 DEF ActivateBack, RollbackFails, Saved
  <2> QED
    BY <1>1, <2>2, <2>3, ReturnType DEF SystemInv, Saved
<1>2. SystemInv /\ [Next]_vars => [Undone]_vars
  BY <1>1
<1> QED
  BY <1>2, SystemInvariant, PTL DEF Spec, ActivateUndoes
=============================================================================
