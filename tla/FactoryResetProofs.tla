------------------------- MODULE FactoryResetProofs -------------------------
(***************************************************************************)
(* Proofs about FactoryReset, for any agents, releases and faults, any     *)
(* subvolumes of the containers and any number of working directories.     *)
(***************************************************************************)
EXTENDS FactoryReset, HostUpgradeProofs

\* Entries of listings: of the root volume, and of that of the containers.
Listable == (Subvols \X Subvols) \cup (Volumes \X (Volumes \cup Children))

\* Points at which something listed is left to be worked on.
Listing == {"f_deleting", "f_children", "c_deleting", "c_cdeleting"}

\* A tool is at work in a system that runs from a slot.
ControlInv ==
  /\ at \in [Tools -> {"idle"} \cup ResetPoints \cup CleanPoints]
  /\ at["clean"] \in {"idle"} \cup CleanPoints
  /\ \A t \in Tools : at[t] # "idle" => rootfs \in Slots
  /\ at["reset"] = "f_cp" => FactoryImage.kern # NoFile

\* What a tool still has to delete is neither a factory snapshot nor, of the
\* containers, in use; what a reset still has to snapshot is in the factory's.
ListOf(t) ==
  /\ listed[t] \subseteq Listable
  /\ at[t] \notin Listing => listed[t] = {}
  /\ at[t] \in {"f_deleting", "c_deleting"} =>
       \A e \in listed[t] : e[1] \in Subvols \ {".factory"}
  /\ at[t] = "c_cdeleting" =>
       \A e \in listed[t] : e[1] \in Volumes \ {".factory", cmounted}
  /\ at[t] = "f_children" =>
       \A e \in listed[t] : e[1] = ".factory" /\ e[2] \in Children

ListInv ==
  /\ listed = [t \in Tools |-> listed[t]]
  /\ \A t \in Tools : ListOf(t)
  /\ at["reset"] \in {"f_children", "f_work_default"} => work # cmounted

ToolsInv == ControlInv /\ ListInv

\* The root volume, and the volume of the containers.
RootInv == TInv /\ SystemsPresent

ContainersInv ==
  /\ cvols \subseteq Volumes
  /\ kids \in [Volumes -> SUBSET Children]
  /\ disabled \subseteq cvols /\ locked \subseteq cvols
  /\ {".factory", cdefault, cmounted} \subseteq cvols
  /\ kids[".factory"] = Children
  /\ work \in Works
  /\ overlapped \in BOOLEAN

BaseInv == RootInv /\ ContainersInv /\ ToolsInv

\* Until it goes down for its last reboot, a reset leaves the default subvolume
\* of the containers alone.
DefaultInv ==
  /\ rootfs # "off" => cdefault = cmounted \/ at["reset"] = "f_reboot"
  /\ ~overlapped => "idle" \in {at["reset"], at["clean"]}

\* A reset that has the machine for itself finds in the working directory, or
\* still has on its list, all that is in the factory snapshot.
WholeInv ==
  ~overlapped =>
    /\ kids[cdefault] = Children
    /\ at["reset"] \in {"f_children", "f_work_default"} =>
         \A c \in Children :
           c \in kids[work] \/ <<".factory", c>> \in listed["reset"]

\* The subvolumes inside v are listed with it.
Covered(t, v) == \A c \in kids[v] : <<v, c>> \in listed[t]

\* What the service still finds is on its list or in the hands of a reset.
CleanInv ==
  /\ \A v \in Volumes \ cvols : kids[v] = {}
  /\ at["reset"] = "c_cdeleting" =>
       \A v \in Volumes : <<v, v>> \in listed["reset"] => Covered("reset", v)
  /\ at["clean"] \in {"c_cdeleting", "c_over"} =>
       \A v \in cvols \ {".factory", cmounted, cdefault} :
         InHand(v) \/ <<v, v>> \in listed["clean"]
  /\ at["clean"] = "c_cdeleting" =>
       \A v \in Volumes \ {cdefault} :
         <<v, v>> \in listed["clean"] => InHand(v) \/ Covered("clean", v)

---------------------------------------------------------------------------
(* The root volume                                                         *)

\* No agent's command ends or begins a boot.
LEMMA HostKeepsBooted == HostStep => UNCHANGED booted
BY DEF HostStep, booted, Upgrade, Rollback, KernelCopied, InitFails,
       StartUpgrade, UpgradeCleanup, UpgradeCheckClean, UpgradeSnapBakup,
       UpgradeSnapNext, UpgradeRaises, UpgradeDnf, UpgradeDnfOk,
       UpgradeDnfFails, UpgradeKernel, UpgradeBakupCopied, UpgradeCopyOpen,
       UpgradeSetDefault, StartRollback, NoPreviousStatus, RollbackCopyOpen,
       RollbackNoKernel, RollbackSetDefault

\* A deletion from a listing, and the snapshots of .factory.
LEMMA DeleteRootInv ==
  ASSUME RootInv, NEW s \in Subvols \ {".factory"},
         DeleteOne(Subvols \ {s}), UNCHANGED <<booted, notes>>
  PROVE  RootInv'
BY FactoryImageType
DEF RootInv, TInv, TypeOK, BusyOnSlot, SourceKnown, SystemsPresent,
    DeleteOne, Doomed, At, Points, UpgradePoints, Subvols, Slots, kernels,
    booted, memory, notes

LEMMA FactorySnapshotInv ==
  ASSUME RootInv, NEW s \in Subvols \ {".factory", rootfs},
         Snapshot(".factory", s), UNCHANGED <<booted, pc, memory, notes>>
  PROVE  RootInv'
<1>1. image' \in [Subvols -> Images] /\ subvols' \subseteq Subvols
  BY DEF RootInv, TInv, TypeOK, Snapshot, Subvols
<1> QED
  BY <1>1
  DEF RootInv, TInv, TypeOK, BusyOnSlot, SourceKnown, SystemsPresent,
      Snapshot, Subvols, Slots, kernels, booted, memory, notes

LEMMA RootStays == ASSUME RootInv, UNCHANGED vars PROVE RootInv'
BY DEF RootInv, TInv, TypeOK, BusyOnSlot, SourceKnown, SystemsPresent, vars,
       volume, kernels, booted, memory, notes

LEMMA RootNext ==
  ASSUME RootInv, ToolsInv, [ResetNext]_resetVars
  PROVE  RootInv'
<1> DEFINE Quiet == UNCHANGED vars
<1>1. ASSUME NEW t \in Tools, NEW point \in {"f_deleting", "c_deleting"},
             DeleteRoot(t, point)
      PROVE RootInv'
  <2>1. PICK e \in listed[t] :
          \/ DeleteOne(Subvols \ {e[1]})
          \/ UNCHANGED <<volume, kernels, memory, pc>>
    BY <1>1 DEF DeleteRoot, NextListed
  <2>2. UNCHANGED <<booted, notes>>
    BY <1>1 DEF DeleteRoot
  <2>3. e[1] \in Subvols \ {".factory"}
    BY <1>1 DEF DeleteRoot, ToolsInv, ListInv, ListOf
  <2>4. CASE DeleteOne(Subvols \ {e[1]})
    BY <2>2, <2>3, <2>4, DeleteRootInv
  <2>5. CASE UNCHANGED <<volume, kernels, memory, pc>>
    BY <2>2, <2>5, RootStays DEF vars
  <2> QED
    BY <2>1, <2>4, <2>5
<1>2. CASE ResetSnapNext
  <2>1. rootfs \in Slots /\ next_rootfs \in Subvols \ {".factory", rootfs}
    BY <1>2, NextRootfs DEF ResetSnapNext, ToolsInv, ControlInv, Tools, Subvols, Slots
  <2>2. UNCHANGED <<booted, pc, memory, notes>>
    BY <1>2 DEF ResetSnapNext
  <2>3. Snapshot(".factory", next_rootfs) \/ UNCHANGED <<volume, kernels>>
    BY <1>2 DEF ResetSnapNext
  <2> QED
    BY <2>1, <2>2, <2>3, FactorySnapshotInv, RootStays DEF vars
<1>3. CASE ResetSnapBakup
  <2>1. rootfs \in Slots
    BY <1>3 DEF ResetSnapBakup, Step, ToolsInv, ControlInv, Tools
  <2>2. "rootfs_bakup" \in Subvols \ {".factory", rootfs}
    BY <2>1 DEF Subvols, Slots
  <2>3. UNCHANGED <<booted, pc, memory, notes>>
    BY <1>3 DEF ResetSnapBakup
  <2>4. Snapshot(".factory", "rootfs_bakup") \/ UNCHANGED <<volume, kernels>>
    BY <1>3 DEF ResetSnapBakup
  <2> QED
    BY <2>2, <2>3, <2>4, FactorySnapshotInv, RootStays DEF vars
<1>4. CASE ResetSetDefault
  <2>1. rootfs \in Slots /\ next_rootfs \in Slots
    BY <1>4, NextRootfs DEF ResetSetDefault, ToolsInv, ControlInv, Tools
  <2>2. image[rootfs].rel \in Releases
    BY <2>1, ImageFields DEF RootInv, TInv, TypeOK, Subvols
  <2>3. /\ UNCHANGED <<subvols, image, kernels, booted, pc, memory, warned>>
        /\ \/ default' = default /\ previous' = previous
           \/ /\ default' = next_rootfs /\ next_rootfs \in subvols
              /\ previous' = image[rootfs].rel
    BY <1>4 DEF ResetSetDefault, SetDefault, SetDefaultFails, volume
  <2> QED
    BY <2>1, <2>2, <2>3
    DEF RootInv, TInv, TypeOK, BusyOnSlot, SourceKnown, SystemsPresent,
        kernels, booted, memory
<1>5. CASE ResetKernelOpen \/ ResetKernelCopied
  <2>1. at["reset"] = "f_cp" => image[".factory"].kern \in Kernels
    BY ImageFields, FactoryImageType
    DEF RootInv, ToolsInv, ControlInv, SystemsPresent
  <2>2. kernel' \in Kernels \cup {Torn}
    BY <1>5, <2>1
    DEF ResetKernelOpen, ResetKernelCopied, Step, RootInv, TInv, TypeOK
  <2>3. UNCHANGED <<volume, kernel_bakup, booted, pc, memory, notes>>
    BY <1>5 DEF ResetKernelOpen, ResetKernelCopied
  <2> QED
    BY <2>2, <2>3
    DEF RootInv, TInv, TypeOK, BusyOnSlot, SourceKnown, SystemsPresent,
        volume, booted, memory, notes
<1>6. CASE HostStep
  <2>1. PICK a \in Agents : AgentStep(a)
    BY <1>6 DEF HostStep, AgentStep
  <2>2. TInv'
    BY <2>1, NextTInv DEF RootInv, Next, AgentStep
  <2> QED
    BY <2>1, <2>2, AgentSparesSystems DEF RootInv
<1>7. CASE Down
  BY <1>7 DEF Down, Reboot, PowerLoss, GoDown, RootInv, TInv, TypeOK,
    BusyOnSlot, SourceKnown, SystemsPresent, Points, Outcomes, volume,
    kernels, notes
<1>8. CASE Boot
  <2>1. Machine
    BY <1>8 DEF Boot, Machine
  <2> QED
    BY <2>1, MachineTInv, MachineSparesSystems DEF RootInv
<1>9. CASE StartReset \/ ResetList \/ ResetCheckClean \/ ResetWork
           \/ ResetChild \/ ResetChildrenOver \/ ResetWorkDefault
  <2>1. Quiet
    BY <1>9 DEF StartReset, ResetList, ResetCheckClean, ResetWork, ResetChild,
                ResetChildrenOver, ResetWorkDefault
  <2> QED
    BY <2>1, RootStays
<1>10. ASSUME NEW t \in Tools,
              \/ CleanEssential(t) \/ EssentialCleaned(t)
              \/ CleanContainer(t) \/ DeleteContainer(t)
              \/ ContainerCleaned(t) \/ CleanOver(t) \/ CleanLock(t)
       PROVE RootInv'
  <2>1. Quiet
    BY <1>10 DEF CleanEssential, EssentialCleaned, CleanContainer,
                 DeleteContainer, ContainerCleaned, CleanOver, CleanLock
  <2> QED
    BY <2>1, RootStays
<1>11. CASE UNCHANGED resetVars
  BY <1>11, RootStays DEF resetVars
<1> QED
  BY <1>1, <1>2, <1>3, <1>4, <1>5, <1>6, <1>7, <1>8, <1>9, <1>10, <1>11
  DEF ResetNext, ResetStep, Clean, Tools

---------------------------------------------------------------------------
(* The volume of the containers                                            *)

LEMMA ContainersNext ==
  ASSUME ContainersInv, ToolsInv, [ResetNext]_resetVars
  PROVE  ContainersInv'
<1> USE DEF ContainersInv, cvolume
<1>1. CASE ResetWork
  BY <1>1, VolumesAssumption DEF ResetWork, Volumes
<1>2. CASE ResetChild
  <2>1. work \in Volumes /\ work # ".factory"
    BY VolumesAssumption DEF Volumes
  <2>2. ASSUME NEW e \in listed["reset"], at["reset"] = "f_children"
        PROVE  e[2] \in Children
    BY <2>2 DEF ToolsInv, ListInv, ListOf, Tools
  <2> QED
    BY <1>2, <2>1, <2>2 DEF ResetChild
<1>3. CASE ResetWorkDefault
  BY <1>3 DEF ResetWorkDefault
<1>4. ASSUME NEW t \in Tools, DeleteContainer(t) PROVE ContainersInv'
  <2>1. PICK e \in listed[t] :
          \/ /\ e[1] # e[2]
             /\ kids' = [kids EXCEPT ![e[1]] = @ \ {e[2]}]
             /\ UNCHANGED <<cvols, disabled, locked>>
          \/ /\ e[1] # cdefault
             /\ cvols' = cvols \ {e[1]}
             /\ disabled' = disabled \ {e[1]} /\ locked' = locked \ {e[1]}
             /\ UNCHANGED kids
          \/ UNCHANGED <<cvols, kids, disabled, locked>>
    BY <1>4 DEF DeleteContainer, NextListed
  <2>2. e[1] \in Volumes \ {".factory", cmounted}
    BY <1>4 DEF DeleteContainer, ToolsInv, ListInv, ListOf
  <2>3. UNCHANGED <<cdefault, cmounted, work, overlapped>>
    BY <1>4 DEF DeleteContainer
  <2> QED
    BY <2>1, <2>2, <2>3
<1>5. ASSUME NEW t \in Tools, CleanOver(t) \/ CleanLock(t) PROVE ContainersInv'
  BY <1>5 DEF CleanOver, CleanLock
<1>6. CASE Boot
  BY <1>6 DEF Boot
<1>7. CASE StartReset
  BY <1>7 DEF StartReset
<1>8. UNCHANGED <<cvolume, cmounted, work, overlapped>> => ContainersInv'
  OBVIOUS
<1> QED
  BY <1>1, <1>2, <1>3, <1>4, <1>5, <1>6, <1>7, <1>8
  DEF ResetNext, ResetStep, Clean, ResetList, DeleteRoot, ResetCheckClean,
      ResetSnapNext, ResetSnapBakup, ResetSetDefault, ResetKernelOpen,
      ResetKernelCopied, ResetChildrenOver, CleanEssential, EssentialCleaned,
      CleanContainer, ContainerCleaned, HostStep, Down, resetVars, tools

---------------------------------------------------------------------------
(* The tools                                                               *)

LEMMA ControlNext ==
  ASSUME RootInv, ToolsInv, [ResetNext]_resetVars
  PROVE  ControlInv'
<1> USE DEF ToolsInv, ControlInv, Tools, ResetPoints, CleanPoints, tools,
        vars, booted
<1>1. CASE StartReset
  BY <1>1 DEF StartReset, Step
<1>2. CASE ResetList
  BY <1>2 DEF ResetList, Step, Relist, RootEntries
<1>3. CASE DeleteRoot("reset", "f_deleting")
  BY <1>3 DEF DeleteRoot, Relist, NextListed
<1>4. CASE ResetCheckClean
  BY <1>4 DEF ResetCheckClean, Abort, Step
<1>5. CASE ResetSnapNext
  BY <1>5 DEF ResetSnapNext, Abort, Step
<1>6. CASE ResetSnapBakup
  BY <1>6 DEF ResetSnapBakup, Step
<1>7. CASE ResetSetDefault
  BY <1>7 DEF ResetSetDefault, Abort, Step
<1>8. CASE ResetKernelOpen
  BY <1>8 DEF ResetKernelOpen, Step, RootInv, SystemsPresent
<1>9. CASE ResetKernelCopied
  BY <1>9 DEF ResetKernelCopied, Step
<1>10. CASE ResetWork
  BY <1>10 DEF ResetWork, Abort, Step, Relist
<1>11. CASE ResetChild
  BY <1>11 DEF ResetChild, Abort, Step, Relist
<1>12. CASE ResetChildrenOver
  BY <1>12 DEF ResetChildrenOver, Step
<1>13. CASE ResetWorkDefault
  BY <1>13 DEF ResetWorkDefault, Abort, Step
<1>14. ASSUME NEW t \in Tools, CleanEssential(t) PROVE ControlInv'
  BY <1>14 DEF CleanEssential, Step, Relist, RootEntries
<1>15. ASSUME NEW t \in Tools, DeleteRoot(t, "c_deleting") PROVE ControlInv'
  BY <1>15 DEF DeleteRoot, Relist, NextListed
<1>16. ASSUME NEW t \in Tools, EssentialCleaned(t) PROVE ControlInv'
  BY <1>16 DEF EssentialCleaned, Step
<1>17. ASSUME NEW t \in Tools, CleanContainer(t) PROVE ControlInv'
  BY <1>17 DEF CleanContainer, Step, Relist, ContainerEntries
<1>18. ASSUME NEW t \in Tools, DeleteContainer(t) PROVE ControlInv'
  BY <1>18 DEF DeleteContainer, Relist, NextListed
<1>19. ASSUME NEW t \in Tools, ContainerCleaned(t) PROVE ControlInv'
  BY <1>19 DEF ContainerCleaned, Step
<1>20. ASSUME NEW t \in Tools, CleanOver(t) \/ CleanLock(t) PROVE ControlInv'
  BY <1>20 DEF CleanOver, CleanLock, Step
<1>21. CASE HostStep
  BY <1>21, HostKeepsBooted DEF HostStep
<1>22. CASE Down
  BY <1>22 DEF Down, Reboot, PowerLoss, GoDown
<1>23. CASE Boot
  <2>1. rootfs = "off" /\ \A t \in Tools : at[t] = "idle"
    BY <1>23 DEF Boot, BootNormal, BootBackup, Slots
  <2>2. at'["clean"] # "idle" => rootfs' \in Slots
    BY <1>23, <2>1 DEF Boot
  <2>3. /\ at'["clean"] \in {"idle", "c_essential"} /\ at'["reset"] = "idle"
        /\ at' \in [Tools -> {"idle"} \cup ResetPoints \cup CleanPoints]
    BY <1>23, <2>1 DEF Boot
  <2> QED
    BY <2>2, <2>3
<1>24. CASE UNCHANGED resetVars
  BY <1>24 DEF resetVars, vars, volume, booted
<1> QED
  BY <1>1, <1>2, <1>3, <1>4, <1>5, <1>6, <1>7, <1>8, <1>9, <1>10, <1>11,
     <1>12, <1>13, <1>14, <1>15, <1>16, <1>17, <1>18, <1>19, <1>20, <1>21,
     <1>22, <1>23, <1>24
  DEF ResetNext, ResetStep, Clean

\* A list that is empty is as it should be wherever the tool is.
LEMMA EmptyList == ASSUME NEW t \in Tools, listed[t] = {} PROVE ListOf(t)
BY DEF ListOf

\* A step to another point by a tool with nothing on its list.
LEMMA ListStays ==
  ASSUME ToolsInv, NEW t \in Tools, NEW from, NEW to, Step(t, from, to),
         from \notin Listing \/ listed[t] = {},
         to = "f_work_default" => from = "f_children", to # "f_children",
         UNCHANGED <<listed, cmounted, work>>
  PROVE  ListInv'
<1>1. at[t] = from /\ at'[t] = to /\ \A u \in Tools \ {t} : at'[u] = at[u]
  BY DEF Step, ToolsInv, ControlInv
<1>2. listed'[t] = {} /\ UNCHANGED listed
  BY <1>1 DEF ToolsInv, ListInv, ListOf
<1>3. ASSUME NEW u \in Tools PROVE ListOf(u)'
  BY <1>1, <1>2 DEF ToolsInv, ListInv, ListOf
<1>4. at'["reset"] \in {"f_children", "f_work_default"} => work' # cmounted'
  BY <1>1 DEF ToolsInv, ListInv, Tools
<1>5. listed' = [u \in Tools |-> listed'[u]]
  BY <1>2 DEF ToolsInv, ListInv
<1> QED
  BY <1>3, <1>4, <1>5 DEF ListInv

\* A step to another point with another list.
LEMMA ListIsNew ==
  ASSUME ToolsInv, NEW t \in Tools, NEW from, NEW to, Step(t, from, to),
         NEW entries, Relist(t, entries),
         to = "f_work_default" => from = "f_children",
         to = "f_children" => work' # cmounted,
         UNCHANGED cmounted, work' = work \/ to = "f_children",
         entries \subseteq Listable,
         to \notin Listing => entries = {},
         to \in {"f_deleting", "c_deleting"} =>
           \A e \in entries : e[1] \in Subvols \ {".factory"},
         to = "c_cdeleting" =>
           \A e \in entries : e[1] \in Volumes \ {".factory", cmounted},
         to = "f_children" =>
           \A e \in entries : e[1] = ".factory" /\ e[2] \in Children,
         t = "clean" => to # "f_children"
  PROVE  ListInv'
<1>1. at[t] = from /\ at'[t] = to /\ \A u \in Tools \ {t} : at'[u] = at[u]
  BY DEF Step, ToolsInv, ControlInv
<1>2. /\ listed'[t] = entries
      /\ \A u \in Tools \ {t} : listed'[u] = listed[u]
      /\ listed' = [u \in Tools |-> listed'[u]]
  BY DEF Relist, ToolsInv, ListInv
<1>3. ASSUME NEW u \in Tools \ {t} PROVE ListOf(u)'
  BY <1>1, <1>2 DEF ToolsInv, ListInv, ListOf
<1>4. ListOf(t)'
  BY <1>1, <1>2 DEF ListOf
<1>5. at'["reset"] \in {"f_children", "f_work_default"} => work' # cmounted'
  BY <1>1 DEF ToolsInv, ListInv, Tools
<1> QED
  BY <1>2, <1>3, <1>4, <1>5 DEF ListInv

\* One entry has been worked on.
LEMMA ListShrinks ==
  ASSUME ToolsInv, NEW t \in Tools, NEW e \in listed[t],
         Relist(t, listed[t] \ {e}), UNCHANGED <<at, cmounted, work>>
  PROVE  ListInv'
<1>1. /\ listed'[t] = listed[t] \ {e}
      /\ \A u \in Tools \ {t} : listed'[u] = listed[u]
      /\ listed' = [u \in Tools |-> listed'[u]]
  BY DEF Relist, ToolsInv, ListInv
<1>2. ASSUME NEW u \in Tools PROVE ListOf(u)'
  BY <1>1 DEF ToolsInv, ListInv, ListOf
<1> QED
  BY <1>1, <1>2 DEF ToolsInv, ListInv

LEMMA ListNext ==
  ASSUME RootInv, ContainersInv, ToolsInv, [ResetNext]_resetVars
  PROVE  ListInv'
<1>1. ASSUME NEW exclude, ".factory" \in exclude
      PROVE  /\ RootEntries(exclude) \subseteq Listable
             /\ \A e \in RootEntries(exclude) : e[1] \in Subvols \ {".factory"}
  BY <1>1 DEF RootEntries, Listable, RootInv, TInv, TypeOK
<1>2. CASE ResetList
  BY <1>1, <1>2, ListIsNew DEF ResetList, Tools, Listing
<1>3. ASSUME NEW t \in Tools, CleanEssential(t) PROVE ListInv'
  BY <1>1, <1>3, ListIsNew DEF CleanEssential, Listing
<1>4. ASSUME NEW t \in Tools, CleanContainer(t) PROVE ListInv'
  <2>1. /\ ContainerEntries \subseteq Listable
        /\ \A e \in ContainerEntries : e[1] \in Volumes \ {".factory", cmounted}
    BY DEF ContainerEntries, Listable, ContainersInv
  <2> QED
    BY <1>4, <2>1, ListIsNew DEF CleanContainer, Listing
<1>5. CASE ResetWork
  <2>1. CASE Abort("f_work") /\ UNCHANGED <<listed, cmounted, work>>
    BY <2>1, ListStays DEF Abort, Tools, Listing
  <2>2. CASE ~(Abort("f_work") /\ UNCHANGED <<listed, cmounted, work>>)
    <3> DEFINE Inside == {<<".factory", c>> : c \in kids[".factory"]}
    <3>1. /\ Step("reset", "f_work", "f_children")
          /\ Relist("reset", Inside)
          /\ work' \notin cvols /\ UNCHANGED cmounted
      BY <1>5, <2>2 DEF ResetWork
    <3>2. /\ Inside \subseteq Listable
          /\ \A e \in Inside : e[1] = ".factory" /\ e[2] \in Children
      BY DEF Listable, Volumes, ContainersInv
    <3>3. cmounted \in cvols
      BY DEF ContainersInv
    <3> QED
      BY <3>1, <3>2, <3>3, ListIsNew DEF Tools, Listing
  <2> QED
    BY <2>1, <2>2
<1>6. CASE ResetChild
  <2>1. PICK e \in listed["reset"] :
          \/ Relist("reset", listed["reset"] \ {e}) /\ UNCHANGED at
          \/ Abort("f_children") /\ Relist("reset", {})
    BY <1>6 DEF ResetChild
  <2>2. UNCHANGED <<cmounted, work>>
    BY <1>6 DEF ResetChild
  <2> QED
    BY <2>1, <2>2, ListShrinks, ListIsNew DEF Abort, Tools, Listing
<1>7. CASE ResetCheckClean
  BY <1>7, ListStays DEF ResetCheckClean, Abort, Tools
<1>8. CASE StartReset \/ ResetSnapNext \/ ResetSnapBakup \/ ResetSetDefault
           \/ ResetKernelOpen \/ ResetKernelCopied
  <2>1. PICK from \in {"idle", "f_snap_next", "f_snap_bakup", "f_set_default",
                       "f_kernel", "f_cp"},
             to \in {"f_list", "f_snap_bakup", "f_set_default", "f_kernel",
                     "f_cp", "f_work", "idle", "c_essential"} :
          Step("reset", from, to)
    BY <1>8 DEF StartReset, ResetSnapNext, ResetSnapBakup, ResetSetDefault,
                ResetKernelOpen, ResetKernelCopied, Abort
  <2>2. UNCHANGED <<listed, cmounted, work>>
    BY <1>8 DEF StartReset, ResetSnapNext, ResetSnapBakup, ResetSetDefault,
                ResetKernelOpen, ResetKernelCopied
  <2> QED
    BY <2>1, <2>2, ListStays DEF Tools, Listing
<1>9. CASE ResetChildrenOver
  BY <1>9, ListStays DEF ResetChildrenOver, Tools
<1>10. CASE ResetWorkDefault
  BY <1>10, ListStays DEF ResetWorkDefault, Abort, Tools, Listing
<1>11. ASSUME NEW t \in Tools, EssentialCleaned(t) PROVE ListInv'
  BY <1>11, ListStays DEF EssentialCleaned
<1>12. ASSUME NEW t \in Tools, ContainerCleaned(t) PROVE ListInv'
  BY <1>12, ListStays DEF ContainerCleaned
<1>13. ASSUME NEW t \in Tools, CleanOver(t) \/ CleanLock(t) PROVE ListInv'
  BY <1>13, ListStays DEF CleanOver, CleanLock, Listing
<1>14. ASSUME NEW t \in Tools, NEW point, DeleteRoot(t, point) PROVE ListInv'
  BY <1>14, ListShrinks DEF DeleteRoot, NextListed
<1>15. ASSUME NEW t \in Tools, DeleteContainer(t) PROVE ListInv'
  BY <1>15, ListShrinks DEF DeleteContainer, NextListed
<1>16. CASE Down
  BY <1>16 DEF Down, ListInv, ListOf, Tools
<1>17. CASE Boot
  <2>1. /\ rootfs = "off" /\ UNCHANGED <<listed, work>>
        /\ at'["reset"] = at["reset"] /\ at' \in [Tools -> {"c_essential"} \cup {at[t] : t \in Tools} \cup {"idle"}]
    BY <1>17 DEF Boot, BootNormal, BootBackup, ToolsInv, ControlInv, Tools
  <2>2. \A t \in Tools : at[t] = "idle"
    BY <2>1 DEF ToolsInv, ControlInv, Slots
  <2>3. \A t \in Tools : listed'[t] = {}
    BY <2>1, <2>2 DEF ToolsInv, ListInv, ListOf, Listing
  <2> QED
    BY <2>1, <2>2, <2>3 DEF ToolsInv, ListInv, ListOf, Tools
<1>18. CASE HostStep \/ UNCHANGED resetVars
  BY <1>18 DEF HostStep, resetVars, tools, ToolsInv, ListInv, ListOf
<1> QED
  BY <1>2, <1>3, <1>4, <1>5, <1>6, <1>7, <1>8, <1>9, <1>10, <1>11,
     <1>12, <1>13, <1>14, <1>15, <1>16, <1>17, <1>18
  DEF ResetNext, ResetStep, Clean, Tools

LEMMA BaseNext == BaseInv /\ [ResetNext]_resetVars => BaseInv'
BY RootNext, ContainersNext, ControlNext, ListNext DEF BaseInv, ToolsInv

---------------------------------------------------------------------------
(* The subvolume the next boot mounts at /opt/container                    *)

LEMMA DefaultNext ==
  ASSUME BaseInv, DefaultInv, [ResetNext]_resetVars
  PROVE  DefaultInv'
<1> USE DEF BaseInv, ToolsInv, ControlInv, DefaultInv, Tools, CleanPoints,
        cvolume, tools, vars, booted
<1>1. CASE StartReset
  BY <1>1 DEF StartReset, Step
<1>2. CASE ResetList
  BY <1>2 DEF ResetList, Step, Relist, RootEntries
<1>3. CASE DeleteRoot("reset", "f_deleting")
  BY <1>3 DEF DeleteRoot, Relist, NextListed
<1>4. CASE ResetCheckClean
  BY <1>4 DEF ResetCheckClean, Abort, Step
<1>5. CASE ResetSnapNext
  BY <1>5 DEF ResetSnapNext, Abort, Step
<1>6. CASE ResetSnapBakup
  BY <1>6 DEF ResetSnapBakup, Step
<1>7. CASE ResetSetDefault
  BY <1>7 DEF ResetSetDefault, Abort, Step
<1>8. CASE ResetKernelOpen
  BY <1>8 DEF ResetKernelOpen, Step
<1>9. CASE ResetKernelCopied
  BY <1>9 DEF ResetKernelCopied, Step
<1>10. CASE ResetWork
  BY <1>10 DEF ResetWork, Abort, Step, Relist
<1>11. CASE ResetChild
  BY <1>11 DEF ResetChild, Abort, Step, Relist
<1>12. CASE ResetChildrenOver
  BY <1>12 DEF ResetChildrenOver, Step
<1>13. CASE ResetWorkDefault
  BY <1>13 DEF ResetWorkDefault, Abort, Step
<1>14. ASSUME NEW t \in Tools, CleanEssential(t) PROVE DefaultInv'
  BY <1>14 DEF CleanEssential, Step, Relist, RootEntries
<1>15. ASSUME NEW t \in Tools, DeleteRoot(t, "c_deleting") PROVE DefaultInv'
  BY <1>15 DEF DeleteRoot, Relist, NextListed
<1>16. ASSUME NEW t \in Tools, EssentialCleaned(t) PROVE DefaultInv'
  BY <1>16 DEF EssentialCleaned, Step
<1>17. ASSUME NEW t \in Tools, CleanContainer(t) PROVE DefaultInv'
  BY <1>17 DEF CleanContainer, Step, Relist, ContainerEntries
<1>18. ASSUME NEW t \in Tools, DeleteContainer(t) PROVE DefaultInv'
  BY <1>18 DEF DeleteContainer, Relist, NextListed
<1>19. ASSUME NEW t \in Tools, ContainerCleaned(t) PROVE DefaultInv'
  BY <1>19 DEF ContainerCleaned, Step
<1>20. ASSUME NEW t \in Tools, CleanOver(t) \/ CleanLock(t) PROVE DefaultInv'
  BY <1>20 DEF CleanOver, CleanLock, Step
<1>21. CASE HostStep
  BY <1>21, HostKeepsBooted DEF HostStep
<1>22. CASE Down
  BY <1>22 DEF Down, Reboot, PowerLoss, GoDown
<1>23. CASE Boot
  <2>1. at["reset"] = "idle" /\ cmounted' = cdefault /\ UNCHANGED cdefault
    BY <1>23 DEF Boot, BootNormal, BootBackup, Slots
  <2>2. at'["reset"] = "idle" /\ UNCHANGED overlapped
    BY <1>23, <2>1 DEF Boot
  <2> QED
    BY <2>1, <2>2
<1>24. CASE UNCHANGED resetVars
  BY <1>24 DEF resetVars, vars, volume, booted
<1> QED
  BY <1>1, <1>2, <1>3, <1>4, <1>5, <1>6, <1>7, <1>8, <1>9, <1>10, <1>11,
     <1>12, <1>13, <1>14, <1>15, <1>16, <1>17, <1>18, <1>19, <1>20, <1>21,
     <1>22, <1>23, <1>24
  DEF ResetNext, ResetStep, Clean

LEMMA WholeNext ==
  ASSUME BaseInv, DefaultInv, WholeInv, [ResetNext]_resetVars
  PROVE  WholeInv'
<1> USE DEF BaseInv, ContainersInv, ToolsInv, ControlInv, ListInv, DefaultInv,
        WholeInv, Tools, CleanPoints, cvolume, tools
<1>1. CASE StartReset
  BY <1>1 DEF StartReset, Step
<1>2. CASE ResetList
  BY <1>2 DEF ResetList, Step, Relist, RootEntries
<1>3. CASE DeleteRoot("reset", "f_deleting")
  BY <1>3 DEF DeleteRoot, Relist, NextListed
<1>4. CASE ResetCheckClean
  BY <1>4 DEF ResetCheckClean, Abort, Step
<1>5. CASE ResetSnapNext
  BY <1>5 DEF ResetSnapNext, Abort, Step
<1>6. CASE ResetSnapBakup
  BY <1>6 DEF ResetSnapBakup, Step
<1>7. CASE ResetSetDefault
  BY <1>7 DEF ResetSetDefault, Abort, Step
<1>8. CASE ResetKernelOpen
  BY <1>8 DEF ResetKernelOpen, Step
<1>9. CASE ResetKernelCopied
  BY <1>9 DEF ResetKernelCopied, Step
<1>10. CASE ResetWork
  <2>1. CASE UNCHANGED <<cvolume, listed, work, overlapped>> /\ Abort("f_work")
    BY <2>1 DEF Abort, Step
  <2>2. CASE ~(UNCHANGED <<cvolume, listed, work, overlapped>> /\ Abort("f_work"))
    <3>1. PICK w \in Works \ cvols :
            /\ work' = w /\ kids' = [kids EXCEPT ![w] = {}]
            /\ Relist("reset", {<<".factory", c>> : c \in kids[".factory"]})
            /\ UNCHANGED <<cdefault, overlapped>>
      BY <1>10, <2>2 DEF ResetWork
    <3>2. listed'["reset"] = {<<".factory", c>> : c \in Children}
      BY <3>1 DEF Relist
    <3>3. kids'[cdefault] = kids[cdefault]
      BY <3>1
    <3> QED
      BY <3>1, <3>2, <3>3
  <2> QED
    BY <2>1, <2>2
<1>11. CASE ResetChild
  <2>1. UNCHANGED <<cdefault, work, overlapped>>
    BY <1>11 DEF ResetChild
  <2>2. work \in Volumes
    BY DEF Volumes
  <2>3. CASE UNCHANGED kids /\ Abort("f_children")
    BY <2>1, <2>3 DEF Abort, Step
  <2>4. CASE ~(UNCHANGED kids /\ Abort("f_children"))
    <3>1. PICK e \in listed["reset"] :
            /\ at["reset"] = "f_children" /\ UNCHANGED at
            /\ kids' = [kids EXCEPT ![work] = @ \cup {e[2]}]
            /\ Relist("reset", listed["reset"] \ {e})
      BY <1>11, <2>4 DEF ResetChild
    <3>2. e[1] = ".factory" /\ e[2] \in Children
      BY <3>1 DEF ListOf
    <3>3. listed'["reset"] = listed["reset"] \ {e}
      BY <3>1 DEF Relist
    <3>4. /\ kids'[work] = kids[work] \cup {e[2]}
          /\ \A v \in Volumes \ {work} : kids'[v] = kids[v]
      BY <2>2, <3>1
    <3>5. ASSUME NEW c \in Children, <<".factory", c>> \in listed["reset"]
          PROVE  c \in kids'[work] \/ <<".factory", c>> \in listed'["reset"]
      BY <3>3, <3>4, <3>5
    <3>6. kids[cdefault] = Children => kids'[cdefault] = Children
      BY <3>2, <3>4
    <3> QED
      BY <2>1, <3>1, <3>4, <3>5, <3>6
  <2> QED
    BY <2>3, <2>4
<1>12. CASE ResetChildrenOver
  BY <1>12 DEF ResetChildrenOver, Step
<1>13. CASE ResetWorkDefault
  <2>1. UNCHANGED <<kids, listed, work, overlapped>>
    BY <1>13 DEF ResetWorkDefault
  <2>2. at'["reset"] \notin {"f_children", "f_work_default"}
    BY <1>13 DEF ResetWorkDefault, Abort, Step
  <2>3. at["reset"] = "f_work_default" /\ listed["reset"] = {}
    BY <1>13 DEF ResetWorkDefault, Abort, Step, ListOf, Listing
  <2>4. work \in Volumes /\ cdefault' \in {cdefault, work}
    BY <1>13 DEF ResetWorkDefault, Volumes
  <2>5. ~overlapped => kids[work] = Children
    BY <2>3, <2>4
  <2> QED
    BY <2>1, <2>2, <2>4, <2>5
<1>14. ASSUME NEW t \in Tools, CleanEssential(t) PROVE WholeInv'
  BY <1>14 DEF CleanEssential, Step, Relist, RootEntries
<1>15. ASSUME NEW t \in Tools, DeleteRoot(t, "c_deleting") PROVE WholeInv'
  BY <1>15 DEF DeleteRoot, Relist, NextListed
<1>16. ASSUME NEW t \in Tools, EssentialCleaned(t) PROVE WholeInv'
  BY <1>16 DEF EssentialCleaned, Step
<1>17. ASSUME NEW t \in Tools, CleanContainer(t) PROVE WholeInv'
  BY <1>17 DEF CleanContainer, Step, Relist, ContainerEntries
<1>18. ASSUME NEW t \in Tools, DeleteContainer(t) PROVE WholeInv'
  <2>1. PICK e \in listed[t] :
          \/ kids' = [kids EXCEPT ![e[1]] = @ \ {e[2]}] \/ UNCHANGED kids
    BY <1>18 DEF DeleteContainer, NextListed
  <2>2. /\ at[t] = "c_cdeleting" /\ UNCHANGED <<cdefault, work, overlapped, at>>
        /\ e[1] \in Volumes \ {".factory", cmounted}
    BY <1>18 DEF DeleteContainer, ListOf
  <2>3. rootfs # "off"
    BY <2>2 DEF Slots
  <2>4. ~overlapped => at["reset"] \notin {"f_children", "f_work_default"}
    BY <2>2
  <2>5. ~overlapped => cdefault = cmounted
    BY <2>2, <2>3
  <2>6. ~overlapped => kids'[cdefault] = kids[cdefault]
    BY <2>1, <2>2, <2>5
  <2> QED
    BY <2>2, <2>4, <2>6
<1>19. ASSUME NEW t \in Tools, ContainerCleaned(t) PROVE WholeInv'
  BY <1>19 DEF ContainerCleaned, Step
<1>20. ASSUME NEW t \in Tools, CleanOver(t) \/ CleanLock(t) PROVE WholeInv'
  BY <1>20 DEF CleanOver, CleanLock, Step
<1>21. CASE HostStep
  BY <1>21 DEF HostStep
<1>22. CASE Down
  BY <1>22 DEF Down, Reboot, PowerLoss, GoDown
<1>23. CASE Boot
  BY <1>23 DEF Boot, BootNormal, BootBackup
<1>24. CASE UNCHANGED resetVars
  BY <1>24 DEF resetVars, vars, volume, booted
<1> QED
  BY <1>1, <1>2, <1>3, <1>4, <1>5, <1>6, <1>7, <1>8, <1>9, <1>10, <1>11,
     <1>12, <1>13, <1>14, <1>15, <1>16, <1>17, <1>18, <1>19, <1>20, <1>21,
     <1>22, <1>23, <1>24
  DEF ResetNext, ResetStep, Clean

---------------------------------------------------------------------------
(* What the service leaves                                                 *)

\* A step that changes neither the volume nor the lists of subvolumes of the
\* containers, and takes no working directory out of the hands of a reset.
LEMMA CleanStays ==
  ASSUME CleanInv, UNCHANGED <<cvols, kids, cdefault, cmounted, work>>,
         \A t \in Tools :
           /\ at'[t] = "c_cdeleting" => at[t] = "c_cdeleting"
           /\ at[t] \in {"c_cdeleting", "c_over"} => listed'[t] = listed[t],
         at'["clean"] = "c_over" => at["clean"] \in {"c_cdeleting", "c_over"},
         \A v : InHand(v) => InHand(v)'
  PROVE  CleanInv'
BY DEF CleanInv, Covered, Tools

\* A tool moves on.
LEMMA CleanMoves ==
  ASSUME ToolsInv, CleanInv, NEW t \in Tools, NEW from, NEW to,
         Step(t, from, to), to # "c_cdeleting",
         UNCHANGED <<cvols, kids, cdefault, cmounted, work>>,
         \A u \in Tools : u # t => listed'[u] = listed[u],
         from \in {"c_cdeleting", "c_over"} => UNCHANGED listed,
         to = "c_over" => from = "c_cdeleting",
         from = "c_cdeleting" => listed[t] = {},
         from \in {"f_children", "f_work_default", "c_essential", "c_deleting",
                   "c_container"} =>
           to \in {"f_children", "f_work_default", "c_essential", "c_deleting",
                   "c_container"}
  PROVE  CleanInv'
<1>1. at[t] = from /\ at'[t] = to /\ \A u \in Tools \ {t} : at'[u] = at[u]
  BY DEF Step, ToolsInv, ControlInv
<1>2. ASSUME NEW v, InHand(v) PROVE InHand(v)'
  BY <1>1, <1>2 DEF InHand, Tools
<1> QED
  BY <1>1, <1>2, CleanStays DEF Tools

LEMMA CleanNextWork ==
  ASSUME BaseInv, CleanInv, ResetWork
  PROVE  CleanInv'
<1> USE DEF Tools
<1>1. CASE Abort("f_work") /\ UNCHANGED <<cvolume, cmounted, listed, work>>
  BY <1>1, CleanMoves DEF BaseInv, Abort, cvolume
<1>2. CASE ~(Abort("f_work") /\ UNCHANGED <<cvolume, cmounted, listed, work>>)
  <2>1. PICK w \in Works \ cvols :
          /\ Step("reset", "f_work", "f_children")
          /\ \A t \in Tools : <<w, w>> \notin listed[t]
          /\ work' = w /\ cvols' = cvols \cup {w}
          /\ kids' = [kids EXCEPT ![w] = {}]
          /\ Relist("reset", {<<".factory", c>> : c \in kids[".factory"]})
          /\ UNCHANGED <<cdefault, cmounted>>
    BY <1>2 DEF ResetWork
  <2>2. /\ at["reset"] = "f_work" /\ at'["reset"] = "f_children"
        /\ at'["clean"] = at["clean"] /\ listed'["clean"] = listed["clean"]
    BY <2>1 DEF Step, Relist, BaseInv, ToolsInv, ControlInv, ListInv
  <2>3. /\ kids'[w] = {}
        /\ \A v \in Volumes \ {w} : kids'[v] = kids[v]
    BY <2>1 DEF BaseInv, ContainersInv, Volumes
  <2>4. \A v : ~InHand(v) /\ (InHand(v)' <=> v = w)
    BY <2>1, <2>2 DEF InHand
  <2>5. <<w, w>> \notin listed["clean"]
    BY <2>1
  <2>6. \A v \in Volumes \ cvols' : kids'[v] = {}
    BY <2>1, <2>3 DEF CleanInv
  <2>7. ASSUME NEW v \in Volumes \ {cdefault}, at["clean"] = "c_cdeleting",
               <<v, v>> \in listed["clean"]
        PROVE  Covered("clean", v)'
    BY <2>2, <2>3, <2>4, <2>5, <2>7 DEF CleanInv, Covered
  <2> QED
    BY <2>1, <2>2, <2>4, <2>6, <2>7 DEF CleanInv
<1> QED
  BY <1>1, <1>2

LEMMA CleanNextChild ==
  ASSUME BaseInv, CleanInv, ResetChild
  PROVE  CleanInv'
<1> USE DEF Tools
<1>1. UNCHANGED <<cvols, cdefault, cmounted, work>>
  BY DEF ResetChild
<1>2. PICK e \in listed["reset"] :
        \/ /\ work \in cvols /\ at["reset"] = "f_children" /\ UNCHANGED at
           /\ kids' = [kids EXCEPT ![work] = @ \cup {e[2]}]
           /\ Relist("reset", listed["reset"] \ {e})
        \/ Abort("f_children") /\ Relist("reset", {}) /\ UNCHANGED kids
  BY DEF ResetChild
<1>3. CASE Abort("f_children") /\ Relist("reset", {}) /\ UNCHANGED kids
  BY <1>1, <1>3, CleanMoves DEF BaseInv, ToolsInv, ListInv, Abort, Relist
<1>4. CASE work \in cvols /\ at["reset"] = "f_children" /\ UNCHANGED at
           /\ kids' = [kids EXCEPT ![work] = @ \cup {e[2]}]
           /\ Relist("reset", listed["reset"] \ {e})
  <2>1. listed'["clean"] = listed["clean"]
    BY <1>4 DEF Relist, BaseInv, ToolsInv, ListInv
  <2>2. \A v \in Volumes \ {work} : kids'[v] = kids[v]
    BY <1>4 DEF BaseInv, ContainersInv
  <2>3. \A v : (InHand(v) <=> v = work) /\ (InHand(v)' <=> v = work)
    BY <1>1, <1>4 DEF InHand
  <2>4. ASSUME NEW v \in Volumes \ {work}, Covered("clean", v)
        PROVE  Covered("clean", v)'
    BY <2>1, <2>2, <2>4 DEF Covered
  <2> QED
    BY <1>1, <1>4, <2>1, <2>2, <2>3, <2>4 DEF CleanInv
<1> QED
  BY <1>2, <1>3, <1>4

LEMMA CleanNextWorkDefault ==
  ASSUME BaseInv, DefaultInv, CleanInv, ResetWorkDefault
  PROVE  CleanInv'
<1> USE DEF Tools
<1>1. UNCHANGED <<cvols, kids, cmounted, work, listed>>
  BY DEF ResetWorkDefault
<1>2. CASE Abort("f_work_default") /\ UNCHANGED cdefault
  BY <1>1, <1>2, CleanMoves DEF BaseInv, Abort
<1>3. CASE Step("reset", "f_work_default", "f_reboot") /\ cdefault' = work
  <2>1. /\ at["reset"] = "f_work_default" /\ at'["reset"] = "f_reboot"
        /\ at'["clean"] = at["clean"]
    BY <1>3 DEF Step, BaseInv, ToolsInv, ControlInv
  <2>2. cdefault = cmounted
    BY <2>1 DEF BaseInv, ToolsInv, ControlInv, DefaultInv, Slots
  <2>3. at["clean"] = "c_cdeleting" => <<cmounted, cmounted>> \notin listed["clean"]
    BY DEF BaseInv, ToolsInv, ListInv, ListOf
  <2>4. \A v : (InHand(v) => v = work) /\ ~InHand(v)'
    BY <2>1 DEF InHand
  <2>5. \A v : Covered("clean", v)' <=> Covered("clean", v)
    BY <1>1 DEF Covered
  <2> QED
    BY <1>1, <1>3, <2>1, <2>2, <2>3, <2>4, <2>5 DEF CleanInv
<1> QED
  BY <1>2, <1>3 DEF ResetWorkDefault

\* A listing is complete when it is made.
LEMMA ListingIsWhole ==
  ASSUME ContainersInv
  PROVE  /\ \A v \in cvols \ {".factory", cmounted} : <<v, v>> \in ContainerEntries
         /\ \A v : <<v, v>> \in ContainerEntries =>
              v \in cvols /\ \A c \in kids[v] : <<v, c>> \in ContainerEntries
BY DEF ContainersInv, ContainerEntries

LEMMA CleanNextContainer ==
  ASSUME BaseInv, CleanInv, NEW t \in Tools, CleanContainer(t)
  PROVE  CleanInv'
<1> USE DEF Tools
<1>1. UNCHANGED <<cvols, kids, cdefault, cmounted, work>>
  BY DEF CleanContainer, cvolume
<1>2. /\ at[t] = "c_container" /\ at'[t] = "c_cdeleting"
      /\ listed'[t] = ContainerEntries
      /\ \A u \in Tools \ {t} : at'[u] = at[u] /\ listed'[u] = listed[u]
  BY DEF CleanContainer, Step, Relist, BaseInv, ToolsInv, ControlInv, ListInv
<1>3. \A v \in Volumes : <<v, v>> \in listed'[t] => Covered(t, v)'
  BY <1>1, <1>2, ListingIsWhole DEF BaseInv, Covered
<1>4. CASE t = "clean"
  <2>1. \A v : InHand(v)' <=> InHand(v)
    BY <1>1, <1>2, <1>4 DEF InHand
  <2>2. \A v : Covered("reset", v)' <=> Covered("reset", v)
    BY <1>1, <1>2, <1>4 DEF Covered
  <2> QED
    BY <1>1, <1>2, <1>3, <1>4, <2>1, <2>2, ListingIsWhole
    DEF BaseInv, CleanInv
<1>5. CASE t = "reset"
  <2>1. \A v : /\ InHand(v) <=> v = work
               /\ InHand(v)' <=> v = work /\ <<v, v>> \in ContainerEntries
    BY <1>1, <1>2, <1>5 DEF InHand
  <2>2. \A v : Covered("clean", v)' <=> Covered("clean", v)
    BY <1>1, <1>2, <1>5 DEF Covered
  <2>3. work \in cvols \ {".factory", cmounted} => InHand(work)'
    BY <1>1, <2>1, ListingIsWhole DEF BaseInv
  <2>4. at["clean"] = "c_cdeleting" =>
          <<cmounted, cmounted>> \notin listed["clean"]
          /\ <<".factory", ".factory">> \notin listed["clean"]
    BY DEF BaseInv, ToolsInv, ListInv, ListOf
  <2>5. work \notin cvols => Covered("clean", work)
    BY DEF BaseInv, ContainersInv, Volumes, CleanInv, Covered
  <2> QED
    BY <1>1, <1>2, <1>3, <1>5, <2>1, <2>2, <2>3, <2>4, <2>5 DEF CleanInv
<1> QED
  BY <1>4, <1>5

LEMMA CleanNextDelete ==
  ASSUME BaseInv, DefaultInv, CleanInv, "delete" \notin Faults,
         NEW t \in Tools, DeleteContainer(t)
  PROVE  CleanInv'
<1> USE DEF Tools
<1>1. UNCHANGED <<cdefault, cmounted, work, at>> /\ at[t] = "c_cdeleting"
  BY DEF DeleteContainer
<1>2. PICK e \in NextListed(t) :
        /\ Relist(t, listed[t] \ {e})
        /\ \/ /\ e[1] # e[2]
              /\ kids' = [kids EXCEPT ![e[1]] = @ \ {e[2]}]
              /\ UNCHANGED cvols
           \/ /\ e[1] = e[2] /\ e[1] # cdefault /\ kids[e[1]] = {}
              /\ cvols' = cvols \ {e[1]}
              /\ UNCHANGED kids
           \/ /\ e[1] = e[2] /\ (e[1] = cdefault \/ kids[e[1]] # {})
              /\ UNCHANGED <<cvols, kids>>
  BY DEF DeleteContainer
<1>3. /\ listed'[t] = listed[t] \ {e}
      /\ \A u \in Tools \ {t} : listed'[u] = listed[u]
  BY <1>2 DEF Relist, BaseInv, ToolsInv, ListInv
<1>4. /\ e \in listed[t] /\ e = <<e[1], e[2]>>
      /\ e[1] \in Volumes \ {".factory", cmounted}
  BY <1>1, <1>2
  DEF NextListed, BaseInv, ToolsInv, ListInv, ListOf, Listable
<1>5. /\ kids \in [Volumes -> SUBSET Children]
      /\ \A v \in Volumes : kids'[v] \subseteq kids[v]
      /\ cvols' \subseteq cvols
  BY <1>2 DEF BaseInv, ContainersInv
<1>6. e[1] = e[2] => \A c \in Children : <<e[1], c>> \notin listed[t]
  <2> SUFFICES ASSUME e[1] = e[2], NEW c \in Children, <<e[1], c>> \in listed[t]
               PROVE  FALSE
    OBVIOUS
  <2>1. \A d \in listed[t] : d[1] = e[1] => d = e
    BY <1>2 DEF NextListed
  <2>2. <<e[1], c>> = e
    BY <2>1
  <2>3. c = e[1]
    BY <1>4, <2>2
  <2> QED
    BY <1>4, <2>3, VolumesAssumption
\* What lies inside has gone before; so an entry for the subvolume itself is
\* taken off the list together with it.
<1>7. e[1] = e[2] /\ Covered(t, e[1]) => kids[e[1]] = {}
  BY <1>4, <1>5, <1>6 DEF Covered
<1>8. ASSUME NEW v \in Volumes, <<v, v>> \in listed'[t], Covered(t, v)
      PROVE  Covered(t, v)'
  BY <1>2, <1>3, <1>4, <1>5, <1>8 DEF Covered
<1>9. ASSUME NEW u \in Tools \ {t}, NEW v \in Volumes, Covered(u, v)
      PROVE  Covered(u, v)'
  BY <1>3, <1>5, <1>9 DEF Covered
<1>10. \A v \in Volumes \ cvols' : kids'[v] = {}
  BY <1>2, <1>4, <1>5 DEF CleanInv
<1>11. CASE t = "clean"
  <2>1. \A v : InHand(v)' <=> InHand(v)
    BY <1>1, <1>3, <1>11 DEF InHand
  <2>2. ASSUME NEW v \in cvols' \ {".factory", cmounted, cdefault}, ~InHand(v)
        PROVE  <<v, v>> \in listed'["clean"]
    <3>1. <<v, v>> \in listed["clean"] /\ v \in Volumes
      BY <1>1, <1>5, <1>11, <2>2 DEF CleanInv, BaseInv, ContainersInv
    <3>2. Covered("clean", v)
      BY <1>1, <1>11, <2>2, <3>1 DEF CleanInv
    <3>3. e # <<v, v>>
      BY <1>2, <1>4, <1>7, <1>11, <2>2, <3>2
    <3> QED
      BY <1>3, <1>11, <3>1, <3>3
  <2> QED
    BY <1>1, <1>3, <1>8, <1>9, <1>10, <1>11, <2>1, <2>2 DEF CleanInv
<1>12. CASE t = "reset"
  <2>1. \A v \in Volumes : <<v, v>> \in listed["reset"] => Covered("reset", v)
    BY <1>1, <1>12 DEF CleanInv
  <2>2. e[1] = e[2] => kids[e[1]] = {}
    BY <1>4, <1>7, <1>12, <2>1
  <2>3. cdefault = cmounted
    BY <1>1, <1>12 DEF BaseInv, ToolsInv, ControlInv, DefaultInv, Slots
  <2>4. e[1] = e[2] => cvols' = cvols \ {e[1]} /\ kids'[e[1]] = {}
    BY <1>2, <1>4, <2>2, <2>3
  <2>5. ASSUME NEW v, v # e[1] \/ e[1] # e[2] PROVE InHand(v)' <=> InHand(v)
    BY <1>1, <1>3, <1>4, <1>12, <2>5 DEF InHand
  <2>6. ASSUME NEW v \in Volumes \ {cdefault}, at["clean"] = "c_cdeleting",
               <<v, v>> \in listed["clean"]
        PROVE  InHand(v)' \/ Covered("clean", v)'
    <3>1. CASE v = e[1] /\ e[1] = e[2]
      BY <2>4, <3>1 DEF Covered
    <3>2. CASE ~(v = e[1] /\ e[1] = e[2])
      BY <1>9, <1>12, <2>5, <2>6, <3>2 DEF CleanInv
    <3> QED
      BY <3>1, <3>2
  <2>7. ASSUME NEW v \in cvols' \ {".factory", cmounted, cdefault},
               at["clean"] \in {"c_cdeleting", "c_over"}
        PROVE  InHand(v)' \/ <<v, v>> \in listed["clean"]
    <3>1. ~(v = e[1] /\ e[1] = e[2])
      BY <2>4, <2>7
    <3> QED
      BY <1>5, <2>5, <2>7, <3>1 DEF CleanInv
  <2> QED
    BY <1>1, <1>3, <1>8, <1>10, <1>12, <2>1, <2>6, <2>7 DEF CleanInv
<1> QED
  BY <1>11, <1>12

LEMMA CleanNext ==
  ASSUME BaseInv, DefaultInv, CleanInv, "delete" \notin Faults,
         [ResetNext]_resetVars
  PROVE  CleanInv'
<1> USE DEF Tools
<1>1. CASE ResetWork
  BY <1>1, CleanNextWork
<1>2. CASE ResetChild
  BY <1>2, CleanNextChild
<1>3. CASE ResetWorkDefault
  BY <1>3, CleanNextWorkDefault
<1>4. ASSUME NEW t \in Tools, CleanContainer(t) PROVE CleanInv'
  BY <1>4, CleanNextContainer
<1>5. ASSUME NEW t \in Tools, DeleteContainer(t) PROVE CleanInv'
  BY <1>5, CleanNextDelete
<1>6. CASE ResetList
  BY <1>6, CleanMoves DEF BaseInv, ToolsInv, ListInv, ResetList, Relist, cvolume
<1>7. ASSUME NEW t \in Tools, CleanEssential(t) PROVE CleanInv'
  BY <1>7, CleanMoves
  DEF BaseInv, ToolsInv, ListInv, CleanEssential, Relist, cvolume
<1>8. ASSUME NEW t \in Tools, NEW point \in {"f_deleting", "c_deleting"},
             DeleteRoot(t, point)
      PROVE CleanInv'
  <2>1. /\ UNCHANGED <<cvolume, cmounted, at, work>>
        /\ at[t] = point /\ \E entries : Relist(t, entries)
    BY <1>8 DEF DeleteRoot
  <2>2. \A u \in Tools \ {t} : listed'[u] = listed[u]
    BY <2>1 DEF Relist, BaseInv, ToolsInv, ListInv
  <2>3. \A v : InHand(v) => InHand(v)'
    BY <2>1, <2>2 DEF InHand
  <2> QED
    BY <2>1, <2>2, <2>3, CleanStays DEF cvolume
<1>9. CASE ResetCheckClean
  BY <1>9, CleanMoves DEF BaseInv, ResetCheckClean, Abort, cvolume
<1>10. CASE StartReset \/ ResetSnapNext \/ ResetSnapBakup \/ ResetSetDefault
            \/ ResetKernelOpen \/ ResetKernelCopied
  <2>1. PICK from \in {"idle", "f_snap_next", "f_snap_bakup", "f_set_default",
                       "f_kernel", "f_cp"},
             to \in {"f_list", "f_snap_bakup", "f_set_default", "f_kernel",
                     "f_cp", "f_work", "idle", "c_essential"} :
          Step("reset", from, to)
    BY <1>10 DEF StartReset, ResetSnapNext, ResetSnapBakup, ResetSetDefault,
                 ResetKernelOpen, ResetKernelCopied, Abort
  <2>2. UNCHANGED <<cvolume, listed, cmounted, work>>
    BY <1>10 DEF StartReset, ResetSnapNext, ResetSnapBakup, ResetSetDefault,
                 ResetKernelOpen, ResetKernelCopied
  <2> QED
    BY <2>1, <2>2, CleanMoves DEF BaseInv, cvolume
<1>11. CASE ResetChildrenOver
  BY <1>11, CleanMoves DEF BaseInv, ResetChildrenOver, cvolume
<1>12. ASSUME NEW t \in Tools, EssentialCleaned(t) PROVE CleanInv'
  BY <1>12, CleanMoves DEF BaseInv, EssentialCleaned, cvolume
<1>13. ASSUME NEW t \in Tools, ContainerCleaned(t) PROVE CleanInv'
  BY <1>13, CleanMoves DEF BaseInv, ContainerCleaned, cvolume
<1>14. ASSUME NEW t \in Tools, CleanOver(t) \/ CleanLock(t) PROVE CleanInv'
  BY <1>14, CleanMoves DEF BaseInv, CleanOver, CleanLock, cvolume
<1>15. CASE Down
  BY <1>15 DEF Down, CleanInv, cvolume
<1>16. CASE Boot
  <2>1. at["reset"] = "idle"
    BY <1>16
    DEF Boot, BootNormal, BootBackup, BaseInv, ToolsInv, ControlInv, Slots
  <2>2. at'["reset"] = "idle" /\ at'["clean"] \in {"idle", "c_essential"}
    BY <1>16, <2>1 DEF Boot, BaseInv, ToolsInv, ControlInv
  <2> QED
    BY <1>16, <2>2 DEF Boot, CleanInv, cvolume
<1>17. CASE HostStep \/ UNCHANGED resetVars
  <2>1. UNCHANGED <<cvolume, cmounted, tools>>
    BY <1>17 DEF HostStep, resetVars
  <2> QED
    BY <2>1 DEF CleanInv, InHand, Covered, cvolume, tools
<1> QED
  BY <1>1, <1>2, <1>3, <1>4, <1>5, <1>6, <1>7, <1>8, <1>9, <1>10, <1>11,
     <1>12, <1>13, <1>14, <1>15, <1>16, <1>17
  DEF ResetNext, ResetStep, Clean

---------------------------------------------------------------------------
(* The invariant and what follows from it                                  *)

ResetInv ==
  /\ BaseInv /\ DefaultInv /\ WholeInv
  /\ "delete" \notin Faults => CleanInv

LEMMA ResetInitInv == ResetInit => ResetInv
<1> SUFFICES ASSUME ResetInit PROVE ResetInv
  OBVIOUS
<1>1. RootInv
  BY InitTInv, InitSystemsPresent DEF ResetInit, RootInv
<1>2. rootfs = "rootfs"
  BY DEF ResetInit, Init
<1>3. ContainersInv
  BY VolumesAssumption DEF ResetInit, ContainersInv, Volumes
<1>4. /\ at = [t \in Tools |-> IF t = "clean" THEN "c_essential" ELSE "idle"]
      /\ listed = [t \in Tools |-> {}]
  BY DEF ResetInit
<1>5. ControlInv
  BY <1>2, <1>4 DEF ControlInv, Tools, CleanPoints, Slots
<1>6. ListInv
  BY <1>4 DEF ListInv, ListOf, Tools
<1>7. DefaultInv /\ WholeInv /\ CleanInv
  BY <1>3, <1>4, VolumesAssumption
  DEF ResetInit, DefaultInv, WholeInv, CleanInv, ContainersInv, Tools, Volumes
<1> QED
  BY <1>1, <1>3, <1>5, <1>6, <1>7 DEF ResetInv, BaseInv, ToolsInv

LEMMA ResetNextInv == ResetInv /\ [ResetNext]_resetVars => ResetInv'
BY BaseNext, DefaultNext, WholeNext, CleanNext DEF ResetInv

LEMMA ResetInvariant == ResetSpec => []ResetInv
BY ResetInitInv, ResetNextInv, PTL DEF ResetSpec

\* Type correctness of the two volumes and of the two tools.
THEOREM ResetTypeCorrect == ResetSpec => []ResetTypeOK
<1>1. ASSUME ResetInv PROVE ResetTypeOK
  <2>1. \A t \in Tools : listed[t] \subseteq Listable
    BY <1>1 DEF ResetInv, BaseInv, ToolsInv, ListInv, ListOf
  <2> QED
    BY <1>1, <2>1
    DEF ResetInv, BaseInv, RootInv, TInv, ContainersInv, ToolsInv, ControlInv,
        ResetTypeOK, Listable
<1> QED
  BY <1>1, ResetInvariant, PTL

\* Whatever the reset, the clean up, the agents and the power do to one
\* another, and whichever commands fail: the root volume keeps what the next
\* boot mounts, the factory system and the running one, and the volume of the
\* containers its factory snapshot whole, what is in use and what is mounted
\* next (the exclude lists of btrfs.py lines 152 and 157).
THEOREM VolumesNeverLost == ResetSpec => []VolumesPresent
<1>1. ResetInv => VolumesPresent
  BY DEF ResetInv, BaseInv, RootInv, ContainersInv, VolumesPresent
<1> QED
  BY <1>1, ResetInvariant, PTL

\* What the next boot mounts at /opt/container holds every subvolume of the
\* factory snapshot, as long as the reset and the clean up of the boot service
\* never ran at the same time: set-default comes after the last snapshot.
THEOREM NextContainersAreWhole == ResetSpec => []NextContainersWhole
<1>1. ResetInv => NextContainersWhole
  BY DEF ResetInv, WholeInv, NextContainersWhole
<1> QED
  BY <1>1, ResetInvariant, PTL

\* While the machine is up, neither the reset nor the clean up nor an agent
\* touches the root it runs from or the subvolumes of the containers in use.
THEOREM InUseNeverTouched == ResetSpec => InUseUntouched
<1> DEFINE Kept ==
      rootfs # "off" /\ rootfs' = rootfs =>
        /\ rootfs \in subvols' /\ image'[rootfs] = image[rootfs]
        /\ cmounted \in cvols' /\ kids'[cmounted] = kids[cmounted]
<1>1. ASSUME ResetInv, ResetNext, rootfs # "off", rootfs' = rootfs
      PROVE  rootfs \in subvols' /\ image'[rootfs] = image[rootfs]
  <2> USE DEF ResetInv, BaseInv, RootInv
  <2>1. rootfs \in subvols /\ rootfs \in Subvols
    BY <1>1 DEF SystemsPresent, TInv, TypeOK, Subvols
  <2>2. CASE HostStep
    BY <1>1, <2>2, AgentSparesSystems
    DEF HostStep, AgentStep, SystemsPresent
  <2>3. CASE Down \/ Boot
    BY <1>1, <2>3 DEF Down, Boot, Reboot, PowerLoss, GoDown, BootNormal, BootBackup
  <2>4. ASSUME NEW t \in Tools, NEW point, DeleteRoot(t, point)
        PROVE  rootfs \in subvols' /\ image'[rootfs] = image[rootfs]
    BY <1>1, <2>1, <2>4
    DEF DeleteRoot, DeleteOne, Doomed, volume, TInv, TypeOK
  <2>5. CASE ResetSnapNext \/ ResetSnapBakup
    <3>1. rootfs \in Slots
      BY <1>1, <2>5
      DEF ResetSnapNext, ResetSnapBakup, Step, ToolsInv, ControlInv, Tools
    <3> QED
      BY <1>1, <2>1, <2>5, <3>1, NextRootfs
      DEF ResetSnapNext, ResetSnapBakup, Snapshot, volume, Slots, TInv, TypeOK
  <2>6. CASE ResetSetDefault
    BY <2>1, <2>6 DEF ResetSetDefault, SetDefault, SetDefaultFails, volume
  <2>7. CASE ResetKernelOpen \/ ResetKernelCopied
    BY <2>1, <2>7 DEF ResetKernelOpen, ResetKernelCopied, volume
  <2>8. UNCHANGED vars => rootfs \in subvols' /\ image'[rootfs] = image[rootfs]
    BY <2>1 DEF vars, volume
  <2> QED
    BY <1>1, <2>2, <2>3, <2>4, <2>5, <2>6, <2>7, <2>8
    DEF ResetNext, ResetStep, Clean, StartReset, ResetList, ResetCheckClean,
        ResetWork, ResetChild, ResetChildrenOver, ResetWorkDefault,
        CleanEssential, EssentialCleaned, CleanContainer, DeleteContainer,
        ContainerCleaned, CleanOver, CleanLock, Tools
<1>2. ASSUME ResetInv, ResetNext, rootfs # "off", rootfs' = rootfs
      PROVE  cmounted \in cvols' /\ kids'[cmounted] = kids[cmounted]
  <2> USE DEF ResetInv, BaseInv, cvolume, tools
  <2>1. cmounted \in cvols /\ cmounted \in Volumes /\ work \in Volumes
    BY <1>2 DEF ContainersInv, Volumes
  <2>2. ASSUME NEW t \in Tools, DeleteContainer(t)
        PROVE  cmounted \in cvols' /\ kids'[cmounted] = kids[cmounted]
    <3>1. PICK e \in listed[t] :
            \/ kids' = [kids EXCEPT ![e[1]] = @ \ {e[2]}] /\ UNCHANGED cvols
            \/ cvols' = cvols \ {e[1]} /\ UNCHANGED kids
            \/ UNCHANGED <<cvols, kids>>
      BY <2>2 DEF DeleteContainer, NextListed
    <3>2. e[1] \in Volumes \ {cmounted}
      BY <1>2, <2>2 DEF DeleteContainer, ToolsInv, ListInv, ListOf
    <3> QED
      BY <1>2, <2>1, <3>1, <3>2 DEF ContainersInv
  <2>3. CASE ResetWork
    BY <1>2, <2>1, <2>3 DEF ResetWork, ContainersInv
  <2>4. CASE ResetChild
    <3>1. UNCHANGED cvols
      BY <2>4 DEF ResetChild
    <3>2. \/ UNCHANGED kids
          \/ /\ at["reset"] = "f_children"
             /\ \E c : kids' = [kids EXCEPT ![work] = @ \cup {c}]
      BY <2>4 DEF ResetChild
    <3>3. at["reset"] = "f_children" => work # cmounted
      BY <1>2 DEF ToolsInv, ListInv
    <3> QED
      BY <1>2, <2>1, <3>1, <3>2, <3>3 DEF ContainersInv
  <2>5. UNCHANGED <<cvols, kids>> =>
          cmounted \in cvols' /\ kids'[cmounted] = kids[cmounted]
    BY <2>1
  <2> QED
    BY <1>2, <2>2, <2>3, <2>4, <2>5
    DEF ResetNext, ResetStep, Clean, StartReset, ResetList, DeleteRoot,
        ResetCheckClean, ResetSnapNext, ResetSnapBakup, ResetSetDefault,
        ResetKernelOpen, ResetKernelCopied, ResetChildrenOver,
        ResetWorkDefault, CleanEssential, EssentialCleaned, CleanContainer,
        ContainerCleaned, CleanOver, CleanLock, HostStep, Down, Boot, Tools
<1>3. ResetInv /\ [ResetNext]_resetVars => [Kept]_resetVars
  BY <1>1, <1>2
<1> QED
  BY <1>3, ResetInvariant, PTL DEF ResetSpec, InUseUntouched

\* When the service is disabled, every subvolume that neither this boot nor the
\* next one needs is gone or in the hands of a reset that runs beside it, and
\* with no reset beside it every one is gone, as long as btrfs deletes what it
\* can delete.
THEOREM DisabledMeansClean ==
  "delete" \notin Faults => (ResetSpec => DisabledIsClean)
<1> SUFFICES ASSUME "delete" \notin Faults PROVE ResetSpec => DisabledIsClean
  OBVIOUS
<1> DEFINE Clean_ ==
      \/ disabled' \subseteq disabled
      \/ \A v \in cvols \ {".factory", cmounted, cdefault} : InHand(v)
<1>1. ASSUME ResetInv, CleanOver("clean") PROVE Clean_
  <2>1. at["clean"] = "c_over" /\ listed["clean"] = {}
    BY <1>1
    DEF CleanOver, Step, ResetInv, BaseInv, ToolsInv, ListInv, ListOf, Listing,
        Tools
  <2> QED
    BY <1>1, <2>1 DEF ResetInv, CleanInv
<1>2. ResetNext => CleanOver("clean") \/ disabled' \subseteq disabled
  BY DEF ResetNext, ResetStep, Clean, StartReset, ResetList, DeleteRoot,
    ResetCheckClean, ResetSnapNext, ResetSnapBakup, ResetSetDefault,
    ResetKernelOpen, ResetKernelCopied, ResetWork, ResetChild,
    ResetChildrenOver, ResetWorkDefault, CleanEssential, EssentialCleaned,
    CleanContainer, DeleteContainer, ContainerCleaned, CleanOver, CleanLock,
    HostStep, Down, Boot, cvolume, Tools
<1>3. ResetInv /\ [ResetNext]_resetVars => [Clean_]_resetVars
  BY <1>1, <1>2
<1> QED
  BY <1>3, ResetInvariant, PTL DEF ResetSpec, DisabledIsClean
=============================================================================
