------------------------- MODULE HostUpgradeProofs -------------------------
(***************************************************************************)
(* Proofs about HostUpgrade, for every set of kernels and of releases.     *)
(* First what holds for any number of agents and any faults; then what a   *)
(* lone agent guarantees: the next boot is complete and runs its own       *)
(* kernel, and a boot kernel cut short leaves the backup entry.            *)
(***************************************************************************)
EXTENDS HostUpgrade, TLAPS

\* Only an agent running on a slot is in the middle of a command, and the cp
\* that replaces the boot kernel has a file to read.
BusyOnSlot  == \A a \in Agents : pc[a] # "idle" => rootfs \in Slots
SourceKnown == \A a \in Agents : pc[a] \in {"u_cp", "r_cp"} => source[a] # NoFile

TInv == TypeOK /\ BusyOnSlot /\ SourceKnown

\* The other slot is a slot, and another one.
LEMMA NextRootfs ==
  ASSUME rootfs \in Slots
  PROVE  next_rootfs \in Slots /\ next_rootfs # rootfs
BY DEF next_rootfs, rootfs_dic, Slots

\* A full upgrade of an image is an image.
LEMMA UpgradedImage ==
  ASSUME NEW img \in Images, NEW r \in Releases
  PROVE  Upgraded(img, r) \in Images
BY ConstantsAssumption DEF Upgraded, Images

\* What an image is made of.
LEMMA ImageFields ==
  ASSUME NEW img \in Images
  PROVE  /\ img.rel \in Releases
         /\ img.kern \in Kernels \cup {NoFile}
         /\ img.mixed \in BOOLEAN
BY DEF Images

LEMMA FactoryImageType == FactoryImage \in Images
BY ConstantsAssumption DEF FactoryImage, Images, Releases

LEMMA InitTInv == Init => TInv
<1> SUFFICES ASSUME Init PROVE TInv
  OBVIOUS
<1>1. 1 \in Releases /\ KernelOf[1] \in Kernels /\ FactoryImage \in Images
  BY ConstantsAssumption, FactoryImageType DEF Releases
<1>2. TypeOK
  BY <1>1 DEF Init, TypeOK, Subvols, Slots, Points, Outcomes
<1>3. BusyOnSlot /\ SourceKnown
  BY DEF Init, BusyOnSlot, SourceKnown, Slots
<1> QED
  BY <1>2, <1>3 DEF TInv

LEMMA UpgradeTInv ==
  ASSUME TInv, NEW a \in Agents, Upgrade(a)
  PROVE  TInv'
<1> USE ConstantsAssumption
        DEF TInv, TypeOK, BusyOnSlot, SourceKnown, At, Goto, Return,
            UpgradeReturn, Points, UpgradePoints, RollbackPoints, Outcomes,
            Slots, Subvols, volume, kernels, booted, memory, notes
<1>1. CASE StartUpgrade(a)
  BY <1>1 DEF StartUpgrade, BeginCommand
<1>2. CASE UpgradeCleanup(a)
  BY <1>2, FactoryImageType DEF UpgradeCleanup, DeleteOne, Doomed
<1>3. CASE UpgradeCheckClean(a)
  BY <1>3 DEF UpgradeCheckClean
<1>4. CASE UpgradeSnapBakup(a)
  BY <1>4 DEF UpgradeSnapBakup, Snapshot
<1>5. CASE UpgradeSnapNext(a)
  BY <1>5, NextRootfs DEF UpgradeSnapNext, Snapshot
<1>6. CASE UpgradeRaises(a)
  BY <1>6 DEF UpgradeRaises
<1>7. CASE UpgradeDnf(a)
  <2>1. rootfs \in Slots /\ next_rootfs \in Slots
    BY <1>7, NextRootfs DEF UpgradeDnf
  <2>2. PICK r \in Releases, new \in BOOLEAN :
          image' = [image EXCEPT ![next_rootfs] =
                      [rel   |-> r,
                       kern  |-> IF new THEN Upgraded(image[rootfs], r).kern
                                 ELSE image[rootfs].kern,
                       mixed |-> TRUE]]
    BY <1>7 DEF UpgradeDnf
  <2>3. image[rootfs] \in Images /\ Upgraded(image[rootfs], r) \in Images
    BY <2>1, UpgradedImage
  <2>4. [rel   |-> r,
         kern  |-> IF new THEN Upgraded(image[rootfs], r).kern
                   ELSE image[rootfs].kern,
         mixed |-> TRUE] \in Images
    BY <2>3, ImageFields DEF Images
  <2>5. image' \in [Subvols -> Images]
    BY <2>1, <2>2, <2>4
  <2> QED
    BY <1>7, <2>1, <2>5 DEF UpgradeDnf
<1>8. CASE UpgradeDnfOk(a)
  <2>1. rootfs \in Slots /\ next_rootfs \in Slots
    BY <1>8, NextRootfs DEF UpgradeDnfOk
  <2>2. image[rootfs] \in Images /\ image[next_rootfs].rel \in Releases
    BY <2>1, ImageFields
  <2>3. Upgraded(image[rootfs], image[next_rootfs].rel) \in Images
    BY <2>2, UpgradedImage
  <2>4. image' \in [Subvols -> Images]
    BY <1>8, <2>1, <2>3 DEF UpgradeDnfOk
  <2> QED
    BY <1>8, <2>1, <2>4 DEF UpgradeDnfOk
<1>9. CASE UpgradeDnfFails(a)
  BY <1>9 DEF UpgradeDnfFails
<1>10. CASE UpgradeKernel(a)
  BY <1>10 DEF UpgradeKernel
<1>11. CASE UpgradeBakupCopied(a)
  BY <1>11 DEF UpgradeBakupCopied
<1>12. CASE UpgradeCopyOpen(a)
  <2>1. rootfs \in Slots /\ next_rootfs \in Slots
    BY <1>12, NextRootfs DEF UpgradeCopyOpen
  <2>2. image[next_rootfs].kern \in Kernels \cup {NoFile}
    BY <2>1, ImageFields
  <2> QED
    BY <1>12, <2>1, <2>2 DEF UpgradeCopyOpen
<1>13. CASE UpgradeSetDefault(a)
  <2>1. rootfs \in Slots /\ next_rootfs \in Slots
    BY <1>13, NextRootfs DEF UpgradeSetDefault
  <2>2. image[rootfs].rel \in Releases
    BY <2>1, ImageFields
  <2>3. default' \in Slots /\ previous' \in Releases \cup {0}
    BY <1>13, <2>1, <2>2 DEF UpgradeSetDefault, SetDefault, SetDefaultFails
  <2>4. UNCHANGED <<subvols, image, kernel, kernel_bakup>>
    BY <1>13 DEF UpgradeSetDefault, SetDefault, SetDefaultFails
  <2>5. PICK p \in {"idle", "reboot"} : Return(a, "ok", p)
    BY <1>13 DEF UpgradeSetDefault
  <2> QED
    BY <1>13, <2>1, <2>3, <2>4, <2>5 DEF UpgradeSetDefault
<1> QED
  BY <1>1, <1>2, <1>3, <1>4, <1>5, <1>6, <1>7, <1>8, <1>9, <1>10,
     <1>11, <1>12, <1>13 DEF Upgrade

LEMMA RollbackTInv ==
  ASSUME TInv, NEW a \in Agents, Rollback(a)
  PROVE  TInv'
<1> USE ConstantsAssumption
        DEF TInv, TypeOK, BusyOnSlot, SourceKnown, At, Goto, Return, Points,
            UpgradePoints, RollbackPoints, Outcomes, Slots, Subvols, volume,
            kernels, booted, memory, notes
<1>1. CASE StartRollback(a)
  BY <1>1 DEF StartRollback, BeginCommand
<1>2. CASE NoPreviousStatus(a)
  BY <1>2 DEF NoPreviousStatus
<1>3. CASE RollbackCopyOpen(a)
  <2>1. rootfs \in Slots /\ next_rootfs \in Slots
    BY <1>3, NextRootfs DEF RollbackCopyOpen
  <2>2. rollback_kernel \in Kernels \cup {Torn, NoFile}
    BY <2>1, ImageFields DEF rollback_kernel
  <2> QED
    BY <1>3, <2>1, <2>2 DEF RollbackCopyOpen
<1>4. CASE RollbackNoKernel(a)
  BY <1>4 DEF RollbackNoKernel
<1>5. CASE RollbackSetDefault(a)
  <2>1. rootfs \in Slots /\ next_rootfs \in Slots
    BY <1>5, NextRootfs DEF RollbackSetDefault
  <2>2. image[rootfs].rel \in Releases
    BY <2>1, ImageFields
  <2>3. default' \in Slots /\ previous' \in Releases \cup {0}
    BY <1>5, <2>1, <2>2 DEF RollbackSetDefault, SetDefault, SetDefaultFails
  <2> QED
    BY <1>5, <2>1, <2>3 DEF RollbackSetDefault, SetDefault, SetDefaultFails
<1> QED
  BY <1>1, <1>2, <1>3, <1>4, <1>5 DEF Rollback

LEMMA MachineTInv ==
  ASSUME TInv, Machine
  PROVE  TInv'
<1> USE ConstantsAssumption
        DEF TInv, TypeOK, BusyOnSlot, SourceKnown, Points, Outcomes, Slots,
            volume, kernels, booted, memory, notes
<1>1. CASE Reboot
  BY <1>1 DEF Reboot, GoDown
<1>2. CASE PowerLoss
  BY <1>2 DEF PowerLoss, GoDown
<1>3. CASE BootNormal
  BY <1>3 DEF BootNormal
<1>4. CASE BootBackup
  BY <1>4 DEF BootBackup
<1> QED
  BY <1>1, <1>2, <1>3, <1>4 DEF Machine

LEMMA NextTInv == TInv /\ [Next]_vars => TInv'
<1> SUFFICES ASSUME TInv, [Next]_vars PROVE TInv'
  OBVIOUS
<1>1. ASSUME NEW a \in Agents, Upgrade(a) PROVE TInv'
  BY <1>1, UpgradeTInv
<1>2. ASSUME NEW a \in Agents, Rollback(a) PROVE TInv'
  BY <1>2, RollbackTInv
<1>3. ASSUME NEW a \in Agents, KernelCopied(a) \/ InitFails(a) PROVE TInv'
  BY <1>3, ConstantsAssumption
  DEF KernelCopied, InitFails, Return, Goto, At, TInv, TypeOK, BusyOnSlot, SourceKnown,
      Points, UpgradePoints, RollbackPoints, Outcomes, volume, kernels,
      booted, memory, notes
<1>4. CASE Machine
  BY <1>4, MachineTInv
<1>5. CASE UNCHANGED vars
  BY <1>5 DEF vars, volume, kernels, booted, memory, notes, TInv, TypeOK,
              BusyOnSlot, SourceKnown
<1> QED
  BY <1>1, <1>2, <1>3, <1>4, <1>5 DEF Next

\* Type correctness, with the control facts it rests on.
THEOREM TypeCorrect == Spec => []TypeOK
<1>1. Init => TInv
  BY InitTInv
<1>2. TInv /\ [Next]_vars => TInv'
  BY NextTInv
<1>3. TInv => TypeOK
  BY DEF TInv
<1> QED
  BY <1>1, <1>2, <1>3, PTL DEF Spec

---------------------------------------------------------------------------
(* What can never be lost.                                                 *)

AgentStep(a) == Upgrade(a) \/ Rollback(a) \/ KernelCopied(a) \/ InitFails(a)

\* The agent's steps leave the running root alone: _cleanup_subvol spares it
\* and .factory, btrfs spares the default one, and everything else works on
\* the other slot or on rootfs_bakup.
LEMMA AgentSparesSystems ==
  ASSUME TInv, SystemsPresent, NEW a \in Agents,
         AgentStep(a)
  PROVE  /\ SystemsPresent'
         /\ rootfs # "off" => image'[rootfs] = image[rootfs]
<1> DEFINE Kept == /\ default \in subvols' /\ ".factory" \in subvols'
                   /\ rootfs # "off" => rootfs \in subvols'
                   /\ \A s \in {".factory", rootfs} \cap Subvols :
                        image'[s] = image[s]
<1> USE DEF TInv, TypeOK, SystemsPresent, Slots, Subvols, volume, kernels, booted,
            AgentStep
<1>1. ASSUME UNCHANGED <<subvols, image>> PROVE Kept
  BY <1>1
<1>2. ASSUME pc[a] # "idle", NEW img, subvols \subseteq subvols',
             \/ image' = image
             \/ image' = [image EXCEPT ![next_rootfs] = img]
             \/ image' = [image EXCEPT !["rootfs_bakup"] = img]
      PROVE Kept
  BY <1>2, NextRootfs DEF BusyOnSlot
<1>3. CASE UpgradeCleanup(a)
  BY <1>3 DEF UpgradeCleanup, DeleteOne, Doomed
<1>4. Kept /\ UNCHANGED rootfs
  <2>1. CASE UpgradeSnapBakup(a)
    BY <1>2, <2>1 DEF UpgradeSnapBakup, Snapshot, At
  <2>2. CASE UpgradeSnapNext(a)
    BY <1>2, <2>2 DEF UpgradeSnapNext, Snapshot, At
  <2>3. CASE UpgradeDnf(a)
    BY <1>2, <2>3 DEF UpgradeDnf, At
  <2>4. CASE UpgradeDnfOk(a)
    BY <1>2, <2>4 DEF UpgradeDnfOk, At
  <2>5. CASE UpgradeDnfFails(a)
    BY <1>2, <2>5 DEF UpgradeDnfFails, At
  <2>6. CASE UpgradeCleanup(a)
    BY <2>6 DEF UpgradeCleanup, DeleteOne, Doomed
  <2>7. CASE UpgradeSetDefault(a) \/ RollbackSetDefault(a)
    BY <1>1, <2>7 DEF UpgradeSetDefault, RollbackSetDefault, SetDefault,
                      SetDefaultFails
  <2>8. CASE StartUpgrade(a) \/ UpgradeCheckClean(a) \/ UpgradeRaises(a)
             \/ UpgradeKernel(a) \/ UpgradeBakupCopied(a)
             \/ UpgradeCopyOpen(a) \/ KernelCopied(a)
    BY <1>1, <2>8 DEF StartUpgrade, UpgradeCheckClean, UpgradeRaises,
         UpgradeKernel, UpgradeBakupCopied, UpgradeCopyOpen,
         KernelCopied
  <2>9. CASE StartRollback(a) \/ NoPreviousStatus(a) \/ RollbackCopyOpen(a)
             \/ RollbackNoKernel(a) \/ InitFails(a)
    BY <1>1, <2>9 DEF StartRollback, NoPreviousStatus, RollbackCopyOpen,
         RollbackNoKernel, InitFails
  <2> QED
    BY <2>1, <2>2, <2>3, <2>4, <2>5, <2>6, <2>7, <2>8, <2>9
    DEF Upgrade, Rollback
<1>5. default' = default \/ default' \in subvols'
  BY DEF Upgrade, Rollback, StartUpgrade, UpgradeCleanup, DeleteOne,
         UpgradeCheckClean, UpgradeSnapBakup, UpgradeSnapNext, Snapshot,
         UpgradeRaises, UpgradeDnf, UpgradeDnfOk, UpgradeDnfFails,
         UpgradeKernel, UpgradeBakupCopied, UpgradeCopyOpen,
         KernelCopied, UpgradeSetDefault, SetDefault, SetDefaultFails,
         StartRollback, NoPreviousStatus, RollbackCopyOpen, RollbackNoKernel,
         RollbackSetDefault, InitFails
<1> QED
  BY <1>4, <1>5

LEMMA MachineSparesSystems ==
  ASSUME TInv, SystemsPresent, Machine
  PROVE  SystemsPresent' /\ rootfs' # rootfs
BY DEF TInv, TypeOK, SystemsPresent, Machine, Reboot, PowerLoss, GoDown,
       BootNormal, BootBackup, volume, Slots

LEMMA NextSystemsPresent ==
  TInv /\ SystemsPresent /\ [Next]_vars => SystemsPresent'
<1> SUFFICES ASSUME TInv, SystemsPresent, [Next]_vars PROVE SystemsPresent'
  OBVIOUS
<1>1. CASE UNCHANGED vars
  BY <1>1 DEF vars, volume, booted, SystemsPresent
<1> QED
  BY <1>1, AgentSparesSystems, MachineSparesSystems DEF Next, AgentStep

LEMMA InitSystemsPresent == Init => SystemsPresent
BY DEF Init, SystemsPresent, Subvols, Slots

\* SystemsPresent for any number of agents, whatever fails.
THEOREM SystemsNeverLost == Spec => []SystemsPresent
<1>1. Init => TInv /\ SystemsPresent
  BY InitTInv, InitSystemsPresent
<1>2. TInv /\ SystemsPresent /\ [Next]_vars => (TInv /\ SystemsPresent)'
  BY NextTInv, NextSystemsPresent
<1> QED
  BY <1>1, <1>2, PTL DEF Spec

\* RunningUntouched for any number of agents, whatever fails.
THEOREM RunningNeverTouched == Spec => RunningUntouched
<1>1. Init => TInv /\ SystemsPresent
  BY InitTInv, InitSystemsPresent
<1>2. TInv /\ SystemsPresent /\ [Next]_vars => (TInv /\ SystemsPresent)'
  BY NextTInv, NextSystemsPresent
<1>3. ASSUME TInv, SystemsPresent, [Next]_vars
      PROVE  [rootfs # "off" /\ rootfs' = rootfs =>
                rootfs \in subvols' /\ image'[rootfs] = image[rootfs]]_vars
  <2>1. CASE UNCHANGED vars
    BY <2>1
  <2>2. CASE Machine
    BY <1>3, <2>2, MachineSparesSystems
  <2>3. ASSUME NEW a \in Agents, AgentStep(a)
        PROVE  rootfs # "off" /\ rootfs' = rootfs =>
                 rootfs \in subvols' /\ image'[rootfs] = image[rootfs]
    BY <1>3, <2>3, AgentSparesSystems DEF SystemsPresent
  <2> QED
    BY <1>3, <2>1, <2>2, <2>3 DEF Next, AgentStep
<1> QED
  BY <1>1, <1>2, <1>3, PTL DEF Spec, RunningUntouched

---------------------------------------------------------------------------
(* What a lone agent guarantees when neither the power nor set-default     *)
(* fails and the operator follows the Notes of the README.                 *)

\* LoneInvariant, its hypothesis apart.
Lone ==
  /\ MixedKnown
  /\ OwnKernelFile
  /\ \A a \in Agents : KernelAt(a) /\ SlotsAt(a)
  /\ PreviousSlot
  /\ RunsOwnKernel

\* What dnf makes of the running root: a complete system of release r with the
\* kernel of r, in its /boot or inherited.
LEMMA UpgradedFields ==
  ASSUME NEW img \in Images, NEW r \in Releases
  PROVE  /\ Upgraded(img, r).rel = r
         /\ ~Upgraded(img, r).mixed
         /\ \/ /\ Upgraded(img, r).kern = KernelOf[r]
               /\ Upgraded(img, r).kern # NoFile
            \/ /\ Upgraded(img, r).kern = img.kern
               /\ KernelOf[r] = KernelOf[img.rel]
BY ConstantsAssumption DEF Upgraded

LEMMA InitLone == ASSUME LoneAgent PROVE Init => Lone
<1> SUFFICES ASSUME Init PROVE Lone
  OBVIOUS
<1>1. 1 \in Releases /\ FactoryImage.rel = 1 /\ ~FactoryImage.mixed
      /\ FactoryImage.kern \in {KernelOf[1], NoFile}
  BY ConstantsAssumption DEF FactoryImage, Releases
<1>2. \A s \in Subvols : image[s] = FactoryImage
  BY DEF Init
<1>3. MixedKnown /\ OwnKernelFile
  BY <1>1, <1>2 DEF MixedKnown, OwnKernelFile, Init, Present, OwnKernel, Subvols, Slots
<1>4. \A a \in Agents : KernelAt(a) /\ SlotsAt(a)
  BY <1>1, <1>2 DEF KernelAt, SlotsAt, Init, OwnKernel, UpgradePoints,
       RollbackPoints, Building, Built, Subvols, Slots
<1>5. PreviousSlot /\ RunsOwnKernel
  BY <1>1, <1>2 DEF PreviousSlot, RunsOwnKernel, Init, OwnKernel, rootfs_dic, Subvols, Slots
<1> QED
  BY <1>3, <1>4, <1>5 DEF Lone

LEMMA UpgradeLone ==
  ASSUME LoneAgent, TInv, SystemsPresent, Lone, NEW a \in Agents, Upgrade(a)
  PROVE  Lone'
<1> USE ConstantsAssumption
        DEF LoneAgent, TInv, TypeOK, BusyOnSlot, SourceKnown, At, Goto, Return,
            SystemsPresent, UpgradeReturn, Points, UpgradePoints,
            RollbackPoints, Outcomes, Slots, Subvols, volume, kernels, booted,
            memory, notes, Lone, MixedKnown, OwnKernelFile, OwnKernel,
            KernelAt, SlotsAt, PreviousSlot, RunsOwnKernel, Present, Building,
            Built, next_rootfs, rootfs_dic
<1>1. CASE StartUpgrade(a)
  BY <1>1 DEF StartUpgrade, BeginCommand
<1>2. CASE UpgradeCleanup(a)
  BY <1>2, FactoryImageType DEF UpgradeCleanup, DeleteOne, Doomed
<1>3. CASE UpgradeCheckClean(a)
  BY <1>3 DEF UpgradeCheckClean
<1>4. CASE UpgradeSnapBakup(a)
  BY <1>4 DEF UpgradeSnapBakup, Snapshot
<1>5. CASE UpgradeSnapNext(a)
  BY <1>5 DEF UpgradeSnapNext, Snapshot
<1>6. CASE UpgradeRaises(a)
  BY <1>6 DEF UpgradeRaises
<1>7. CASE UpgradeDnf(a)
  BY <1>7 DEF UpgradeDnf
<1>8. CASE UpgradeDnfOk(a)
  <2> DEFINE n == next_rootfs
             u == Upgraded(image[rootfs], image[n].rel)
  <2>1. rootfs \in Slots /\ n \in Slots /\ n # rootfs
    BY <1>8, NextRootfs DEF UpgradeDnfOk
  <2>2. image[rootfs] \in Images /\ image[n].rel \in Releases
    BY <2>1, ImageFields
  <2>3. /\ u.rel = image[n].rel /\ ~u.mixed
        /\ \/ u.kern = KernelOf[u.rel] /\ u.kern # NoFile
           \/ u.kern = image[rootfs].kern /\ KernelOf[u.rel] = OwnKernel(rootfs)
    BY <2>2, UpgradedFields
  <2>4. image' = [image EXCEPT ![n] = u]
    BY <1>8, <2>1 DEF UpgradeDnfOk
  <2> HIDE DEF u
  <2>5. /\ image'[n] = u /\ image'[rootfs] = image[rootfs]
        /\ pc' = [pc EXCEPT ![a] = "u_kernel"]
        /\ UNCHANGED <<subvols, default, kernel, kernel_bakup, rootfs, uname,
                       kernel_md5, source, outcome, warned, previous>>
    BY <1>8, <2>1, <2>4 DEF UpgradeDnfOk
  <2>6. /\ pc[a] = "u_dnf_run" /\ \A b \in Agents : b = a
        /\ default = rootfs /\ n \in subvols /\ image[n].mixed
        /\ ~image[rootfs].mixed /\ image[n].rel >= image[rootfs].rel
    BY <1>8, <2>1 DEF UpgradeDnfOk
  <2>7. MixedKnown'
    BY <2>1, <2>3, <2>5, <2>6
  <2>8. OwnKernelFile'
    BY <2>1, <2>3, <2>5, <2>6
  <2>9. (\A b \in Agents : KernelAt(b) /\ SlotsAt(b))'
    BY <2>1, <2>3, <2>5, <2>6
  <2>10. (PreviousSlot /\ RunsOwnKernel)'
    BY <2>1, <2>3, <2>5, <2>6
  <2> QED
    BY <2>7, <2>8, <2>9, <2>10
<1>9. CASE UpgradeDnfFails(a)
  BY <1>9 DEF UpgradeDnfFails
<1>10. CASE UpgradeKernel(a)
  <2>1. rootfs \in Slots /\ next_rootfs \in Slots /\ next_rootfs # rootfs
    BY <1>10, NextRootfs DEF UpgradeKernel
  <2>2. kernel = OwnKernel(rootfs) /\ kernel_md5[a] = kernel
        /\ ~image[next_rootfs].mixed /\ ~image[rootfs].mixed
    BY <1>10, <2>1 DEF UpgradeKernel
  <2>3. CASE image[next_rootfs].kern \in {NoFile, kernel_md5[a]}
    <3>1. OwnKernel(next_rootfs) \in Kernels
      BY <2>1, ImageFields
    <3>2. kernel = OwnKernel(next_rootfs)
      BY <1>10, <2>1, <2>2, <2>3, <3>1 DEF UpgradeKernel
    <3> QED
      BY <1>10, <2>1, <2>2, <2>3, <3>2 DEF UpgradeKernel
  <2>4. CASE image[next_rootfs].kern \notin {NoFile, kernel_md5[a]}
    BY <1>10, <2>1, <2>2, <2>4 DEF UpgradeKernel
  <2> QED
    BY <2>3, <2>4
<1>11. CASE UpgradeBakupCopied(a)
  BY <1>11 DEF UpgradeBakupCopied
<1>12. CASE UpgradeCopyOpen(a)
  BY <1>12 DEF UpgradeCopyOpen
<1>13. CASE UpgradeSetDefault(a)
  BY <1>13 DEF UpgradeSetDefault, SetDefault, SetDefaultFails
<1> QED
  BY <1>1, <1>2, <1>3, <1>4, <1>5, <1>6, <1>7, <1>8, <1>9, <1>10,
     <1>11, <1>12, <1>13 DEF Upgrade

LEMMA RollbackLone ==
  ASSUME LoneAgent, TInv, SystemsPresent, Lone, NEW a \in Agents,
         Rollback(a) \/ KernelCopied(a) \/ InitFails(a)
  PROVE  Lone'
<1> USE ConstantsAssumption
        DEF LoneAgent, TInv, TypeOK, BusyOnSlot, SourceKnown, At, Goto, Return,
            SystemsPresent, Points, UpgradePoints, RollbackPoints, Outcomes,
            Slots, Subvols, volume, kernels, booted, memory, notes, Lone,
            MixedKnown, OwnKernelFile, OwnKernel, KernelAt, SlotsAt,
            PreviousSlot, RunsOwnKernel, Present, Building, Built, next_rootfs,
            rootfs_dic
<1>1. CASE StartRollback(a)
  BY <1>1 DEF StartRollback, BeginCommand, MayRollback
<1>2. CASE NoPreviousStatus(a)
  BY <1>2 DEF NoPreviousStatus
<1>3. CASE RollbackCopyOpen(a)
  <2>1. rootfs \in Slots /\ next_rootfs \in Slots /\ next_rootfs # rootfs
    BY <1>3, NextRootfs DEF RollbackCopyOpen
  <2>2. ~image[next_rootfs].mixed
    BY <1>3, <2>1 DEF RollbackCopyOpen
  <2>3. \A b \in Agents : b = a
    OBVIOUS
  <2>4. next_rootfs \in Present /\ pc[a] = "r_kernel"
    BY <1>3, <2>1 DEF RollbackCopyOpen
  <2>5. \/ image[next_rootfs].kern = OwnKernel(next_rootfs)
        \/ /\ image[next_rootfs].kern = NoFile
           /\ kernel_bakup \in {NoFile, OwnKernel(next_rootfs)}
    <3>1. OwnKernelFile
      BY DEF Lone
    <3> HIDE DEF next_rootfs, Present, OwnKernel
    <3> QED
      BY <2>2, <2>3, <2>4, <3>1
  <2>6. rollback_kernel = OwnKernel(next_rootfs)
    <3>1. OwnKernel(next_rootfs) # NoFile
      BY <2>1, ImageFields
    <3>2. rollback_kernel # NoFile
      BY <1>3 DEF RollbackCopyOpen
    <3> QED
      BY <2>5, <3>1, <3>2 DEF rollback_kernel
  <2> QED
    BY <1>3, <2>1, <2>2, <2>6 DEF RollbackCopyOpen
<1>4. CASE RollbackNoKernel(a)
  BY <1>4 DEF RollbackNoKernel
<1>5. CASE RollbackSetDefault(a)
  BY <1>5 DEF RollbackSetDefault, SetDefault, SetDefaultFails
<1>6. CASE KernelCopied(a)
  BY <1>6 DEF KernelCopied
<1>7. CASE InitFails(a)
  BY <1>7 DEF InitFails
<1> QED
  BY <1>1, <1>2, <1>3, <1>4, <1>5, <1>6, <1>7 DEF Rollback

LEMMA MachineLone ==
  ASSUME LoneAgent, TInv, SystemsPresent, Lone, Machine
  PROVE  Lone'
<1> USE ConstantsAssumption
        DEF LoneAgent, TInv, TypeOK, BusyOnSlot, SourceKnown, At,
            SystemsPresent, Points, UpgradePoints, RollbackPoints, Outcomes,
            Slots, Subvols, volume, kernels, booted, memory, notes, Lone,
            MixedKnown, OwnKernelFile, OwnKernel, KernelAt, SlotsAt,
            PreviousSlot, RunsOwnKernel, Present, Building, Built, next_rootfs,
            rootfs_dic
<1>1. CASE Reboot
  BY <1>1 DEF Reboot, GoDown
<1>2. CASE PowerLoss
  BY <1>2 DEF PowerLoss
<1>3. CASE BootNormal
  BY <1>3 DEF BootNormal
<1>4. CASE BootBackup
  BY <1>4 DEF BootBackup
<1> QED
  BY <1>1, <1>2, <1>3, <1>4 DEF Machine

LEMMA NextLone ==
  ASSUME LoneAgent
  PROVE  TInv /\ SystemsPresent /\ Lone /\ [Next]_vars => Lone'
<1> SUFFICES ASSUME TInv, SystemsPresent, Lone, [Next]_vars PROVE Lone'
  OBVIOUS
<1>1. CASE UNCHANGED vars
  BY <1>1 DEF vars, volume, kernels, booted, memory, notes, Lone, MixedKnown,
     OwnKernelFile, OwnKernel, KernelAt, SlotsAt, PreviousSlot, RunsOwnKernel,
     Present, next_rootfs
<1> QED
  BY <1>1, UpgradeLone, RollbackLone, MachineLone DEF Next

\* The inductive invariant.
THEOREM LoneInvariantHolds == Spec => []LoneInvariant
<1>1. CASE ~LoneAgent
  BY <1>1, PTL DEF LoneInvariant
<1>2. CASE LoneAgent
  <2>1. Init => TInv /\ SystemsPresent /\ Lone
    BY <1>2, InitTInv, InitSystemsPresent, InitLone
  <2>2. TInv /\ SystemsPresent /\ Lone /\ [Next]_vars
        => (TInv /\ SystemsPresent /\ Lone)'
    BY <1>2, NextTInv, NextSystemsPresent, NextLone
  <2>3. Lone => LoneInvariant
    BY DEF Lone, LoneInvariant
  <2> QED
    BY <2>1, <2>2, <2>3, PTL DEF Spec
<1> QED
  BY <1>1, <1>2

\* DefaultComplete: the default subvolume is never half upgraded.
THEOREM DefaultStaysComplete ==
  ASSUME LoneAgent
  PROVE  Spec => []DefaultComplete
<1>1. Spec => []SystemsPresent
  BY SystemsNeverLost
<1>2. Spec => []TypeOK
  BY TypeCorrect
<1>3. LoneInvariant /\ SystemsPresent /\ TypeOK => DefaultComplete
  BY DEF LoneInvariant, MixedKnown, Present, SystemsPresent, TypeOK,
         DefaultComplete
<1> QED
  BY <1>1, <1>2, <1>3, LoneInvariantHolds, PTL

\* RunsOwnKernel: whatever the normal entry boots runs the kernel of its own
\* release.
THEOREM KernelMatchesRoot ==
  ASSUME LoneAgent
  PROVE  Spec => []RunsOwnKernel
<1>1. LoneInvariant => RunsOwnKernel
  BY DEF LoneInvariant
<1> QED
  BY <1>1, LoneInvariantHolds, PTL

---------------------------------------------------------------------------
(* The refinement: the handlers implement AtomicUpgrade.                   *)

\* btrfs refuses to delete the default subvolume, and the commands of a lone
\* agent never build in it.
LEMMA AgentSparesDefault ==
  ASSUME LoneAgent, TInv, SystemsPresent, Lone, NEW a \in Agents, AgentStep(a)
  PROVE  image'[default] = image[default]
<1> USE DEF TInv, TypeOK, BusyOnSlot, At, SystemsPresent, Slots, Subvols,
            volume, kernels
<1>1. ASSUME default = rootfs PROVE image'[default] = image[default]
  BY <1>1, AgentSparesSystems
<1>2. CASE UpgradeSnapNext(a) \/ UpgradeDnf(a) \/ UpgradeDnfOk(a)
           \/ UpgradeDnfFails(a)
  <2>1. default = rootfs
    BY <1>2 DEF UpgradeSnapNext, UpgradeDnf, UpgradeDnfOk, UpgradeDnfFails,
                Lone, SlotsAt, Building
  <2> QED
    BY <1>1, <2>1
<1>3. CASE UpgradeCleanup(a)
  BY <1>3 DEF UpgradeCleanup, DeleteOne, Doomed
<1>4. CASE UpgradeSnapBakup(a)
  BY <1>4 DEF UpgradeSnapBakup, Snapshot
<1>5. CASE UNCHANGED image
  BY <1>5
<1> QED
  BY <1>2, <1>3, <1>4, <1>5
  DEF AgentStep, Upgrade, Rollback, StartUpgrade, UpgradeCheckClean,
      UpgradeRaises, UpgradeKernel,
      UpgradeBakupCopied, UpgradeCopyOpen, UpgradeSetDefault, SetDefault,
      SetDefaultFails, KernelCopied, StartRollback, NoPreviousStatus,
      RollbackCopyOpen, RollbackNoKernel, RollbackSetDefault, InitFails

\* The two set-default commands are where a command takes effect; everything
\* else an agent does is a stuttering step.
LEMMA AgentRefines ==
  ASSUME LoneAgent, TInv, SystemsPresent, Lone, NEW a \in Agents, AgentStep(a)
  PROVE  [Atomic!Next]_(Atomic!vars)
<1> USE DEF Atomic!vars, Up, TInv, TypeOK, BusyOnSlot, At, SystemsPresent,
            Slots, Subvols, volume, kernels, booted, memory, notes
<1>1. ASSUME UNCHANGED <<rootfs, uname, default, previous>>,
             rootfs \in Slots => image'[rootfs] = image[rootfs],
             image'[default].rel = image[default].rel
      PROVE  UNCHANGED Atomic!vars
  BY <1>1
<1>2. CASE UpgradeSetDefault(a)
  <2>1. rootfs \in Slots /\ next_rootfs \in Slots /\ next_rootfs # rootfs
    BY <1>2, NextRootfs DEF UpgradeSetDefault
  <2>2. /\ default = rootfs /\ next_rootfs \in subvols
        /\ image[next_rootfs].rel >= image[rootfs].rel
    BY <1>2, <2>1 DEF UpgradeSetDefault, Lone, SlotsAt, Built
  <2>3. SetDefault(next_rootfs) /\ UNCHANGED booted
    BY <1>2, <2>2 DEF UpgradeSetDefault, SetDefaultFails, LoneAgent
  <2>4. image[next_rootfs].rel \in Releases /\ image[rootfs].rel \in Releases
    BY <2>1, ImageFields
  <2>5. Atomic!Deploy
    BY <2>1, <2>2, <2>3, <2>4, ConstantsAssumption
    DEF Atomic!Deploy, Atomic!Move, Atomic!NoSystem, SetDefault, Releases
  <2> QED
    BY <2>5 DEF Atomic!Next
<1>3. CASE RollbackSetDefault(a)
  <2>1. rootfs \in Slots /\ next_rootfs \in Slots /\ next_rootfs # rootfs
    BY <1>3, NextRootfs DEF RollbackSetDefault
  <2>2. /\ default = rootfs /\ next_rootfs \in subvols /\ ~warned
    BY <1>3, <2>1 DEF RollbackSetDefault, Lone, SlotsAt, RollbackPoints
  <2>3. SetDefault(next_rootfs) /\ UNCHANGED booted
    BY <1>3, <2>2 DEF RollbackSetDefault, SetDefaultFails, LoneAgent
  <2>4. image[next_rootfs].rel \in Releases /\ image[rootfs].rel \in Releases
    BY <2>1, ImageFields
  <2>5. previous = image[next_rootfs].rel
    BY <1>3, <2>2 DEF RollbackSetDefault, Lone, PreviousSlot, Built, next_rootfs
  <2>6. Atomic!Return
    BY <2>1, <2>2, <2>3, <2>4, <2>5, ConstantsAssumption
    DEF Atomic!Return, Atomic!Move, Atomic!NoSystem, SetDefault, Releases
  <2> QED
    BY <2>6 DEF Atomic!Next
<1>4. CASE ~UpgradeSetDefault(a) /\ ~RollbackSetDefault(a)
  <2>1. UNCHANGED <<rootfs, uname, default, previous>>
    BY <1>4 DEF AgentStep, Upgrade, Rollback, StartUpgrade, UpgradeCleanup,
         DeleteOne, UpgradeCheckClean, UpgradeSnapBakup, UpgradeSnapNext,
         Snapshot, UpgradeRaises, UpgradeDnf, UpgradeDnfOk,
         UpgradeDnfFails, UpgradeKernel, UpgradeBakupCopied,
         UpgradeCopyOpen, KernelCopied, StartRollback, NoPreviousStatus,
         RollbackCopyOpen, RollbackNoKernel, InitFails
  <2>2. rootfs \in Slots => image'[rootfs] = image[rootfs]
    BY AgentSparesSystems
  <2>3. image'[default] = image[default]
    BY AgentSparesDefault, <1>4
  <2> QED
    BY <1>1, <2>1, <2>2, <2>3
<1> QED
  BY <1>2, <1>3, <1>4

LEMMA MachineRefines ==
  ASSUME LoneAgent, TInv, SystemsPresent, Lone, Machine
  PROVE  [Atomic!Next]_(Atomic!vars)
<1> USE DEF Atomic!vars, Up, TInv, TypeOK, SystemsPresent, Slots, Subvols,
            volume, kernels, booted, memory, notes
<1>1. CASE GoDown
  <2>1. UNCHANGED <<image, default, previous>> /\ rootfs' = "off"
    BY <1>1 DEF GoDown
  <2>2. CASE rootfs \in Slots
    <3>1. image[rootfs].rel # 0
      BY <2>2, ImageFields DEF Releases
    <3> QED
      BY <2>1, <2>2, <3>1 DEF Atomic!Next, Atomic!GoDown, Atomic!NoSystem
  <2>3. CASE rootfs \notin Slots
    BY <2>1, <2>3
  <2> QED
    BY <2>2, <2>3
<1>2. CASE BootNormal
  <2>1. /\ rootfs = "off" /\ rootfs' = default /\ uname' = kernel
        /\ UNCHANGED <<image, default, previous>>
    BY <1>2 DEF BootNormal
  <2>2. kernel = KernelOf[image[default].rel]
    <3>1. PICK a \in Agents : pc[a] = "idle"
      BY <2>1 DEF LoneAgent, Lone, PreviousSlot
    <3> QED
      BY <3>1 DEF Lone, KernelAt, OwnKernel
  <2>3. image[default].mixed = FALSE
    BY ImageFields DEF Lone, MixedKnown, Present
  <2> QED
    BY <2>1, <2>2, <2>3
    DEF Atomic!Next, Atomic!Boot, Atomic!NoSystem, Atomic!Complete
<1>3. CASE BootBackup
  BY <1>3 DEF BootBackup
<1> QED
  BY <1>1, <1>2, <1>3 DEF Machine, Reboot, PowerLoss

\* ImplementsAtomicUpgrade: a lone agent's commands are atomic.
THEOREM UpgradeIsAtomic ==
  ASSUME LoneAgent
  PROVE  Spec => ImplementsAtomicUpgrade
<1>1. Init => TInv /\ SystemsPresent /\ Lone
  BY InitTInv, InitSystemsPresent, InitLone
<1>2. TInv /\ SystemsPresent /\ Lone /\ [Next]_vars
      => (TInv /\ SystemsPresent /\ Lone)'
  BY NextTInv, NextSystemsPresent, NextLone
<1>3. Init => Atomic!Init
  <2>1. FactoryImage.rel = 1 /\ ~FactoryImage.mixed
        /\ FactoryImage.mixed = FALSE
    BY DEF FactoryImage
  <2> QED
    BY <2>1 DEF Init, Atomic!Init, Atomic!Complete, Up, Slots, Subvols
<1>4. TInv /\ SystemsPresent /\ Lone /\ [Next]_vars
      => [Atomic!Next]_(Atomic!vars)
  <2> SUFFICES ASSUME TInv, SystemsPresent, Lone, [Next]_vars
               PROVE  [Atomic!Next]_(Atomic!vars)
    OBVIOUS
  <2>1. CASE UNCHANGED vars
    BY <2>1 DEF vars, volume, booted, notes, Atomic!vars, Up
  <2> QED
    BY <2>1, AgentRefines, MachineRefines DEF Next, AgentStep
<1> QED
  BY <1>1, <1>2, <1>3, <1>4, PTL DEF Spec, ImplementsAtomicUpgrade, Atomic!Spec

---------------------------------------------------------------------------
(* A boot kernel cut short.                                                *)

\* A lone agent that only upgrades and whose snapshots work; the power may
\* fail, and so may dnf, deletions and set-default.
LoneUpgrader ==
  /\ \E a \in Agents : Agents = {a}
  /\ "rollback" \notin Commands
  /\ "snapshot" \notin Faults

\* What is default, runs or is kept for the backup entry is complete, and so is
\* what a command is about to make the default.
RootsComplete ==
  /\ ~image[default].mixed
  /\ rootfs # "off" => ~image[rootfs].mixed
  /\ ~image["rootfs_bakup"].mixed
  /\ \A a \in Agents :
       /\ pc[a] \in Building \cup Built => default = rootfs
       /\ pc[a] \in Built => ~image[next_rootfs].mixed

\* From its snapshot on, the backup root is there.
BackupRoot ==
  \A a \in Agents :
    pc[a] \in {"u_snap_next", "u_dnf", "u_dnf_run"} \cup Built =>
      "rootfs_bakup" \in subvols

\* The boot kernel is only cut short by the agent that is copying it, or was
\* when the machine went down, and then the running one has been saved.
BackupKernel ==
  /\ \A a \in Agents :
       /\ pc[a] = "u_bakup_cp" => source[a] \in Kernels
       /\ pc[a] = "u_cp" => source[a] \in Kernels
       /\ pc[a] \in {"u_cp_open", "u_cp"} => kernel_bakup \in Kernels
       /\ pc[a] \notin RollbackPoints
       /\ kernel = Torn /\ rootfs \in Slots => pc[a] = "u_cp"
  /\ kernel = Torn => kernel_bakup \in Kernels /\ "rootfs_bakup" \in subvols

BackupInv == RootsComplete /\ BackupRoot /\ BackupKernel

LEMMA InitBackup == Init => BackupInv
<1>1. ~FactoryImage.mixed /\ KernelOf[1] \in Kernels
  BY ConstantsAssumption DEF FactoryImage, Releases
<1> QED
  BY <1>1, ConstantsAssumption
  DEF Init, BackupInv, RootsComplete, BackupRoot, BackupKernel, Subvols, Slots,
      Building, Built, RollbackPoints

LEMMA UpgradeBackup ==
  ASSUME LoneUpgrader, TInv, SystemsPresent, BackupInv, NEW a \in Agents,
         Upgrade(a)
  PROVE  BackupInv'
<1> USE ConstantsAssumption
        DEF LoneUpgrader, TInv, TypeOK, BusyOnSlot, SystemsPresent, At, Goto,
            Return, UpgradeReturn, Points, UpgradePoints, RollbackPoints, Slots,
            Subvols, volume, kernels, booted, memory, notes, BackupInv,
            RootsComplete, BackupRoot, BackupKernel, Building, Built,
            next_rootfs, rootfs_dic
<1>1. CASE StartUpgrade(a)
  BY <1>1 DEF StartUpgrade, BeginCommand
<1>2. CASE UpgradeCleanup(a)
  <2>1. ~FactoryImage.mixed
    BY DEF FactoryImage
  <2> QED
    BY <1>2, <2>1 DEF UpgradeCleanup, DeleteOne, Doomed
<1>3. CASE UpgradeCheckClean(a)
  BY <1>3 DEF UpgradeCheckClean
<1>4. CASE UpgradeSnapBakup(a)
  BY <1>4 DEF UpgradeSnapBakup, Snapshot
<1>5. CASE UpgradeSnapNext(a)
  BY <1>5 DEF UpgradeSnapNext, Snapshot
<1>6. CASE UpgradeRaises(a)
  BY <1>6 DEF UpgradeRaises
<1>7. CASE UpgradeDnf(a)
  BY <1>7 DEF UpgradeDnf
<1>8. CASE UpgradeDnfOk(a)
  <2>1. ~Upgraded(image[rootfs], image[next_rootfs].rel).mixed
    BY DEF Upgraded
  <2>2. image' = [image EXCEPT ![next_rootfs] =
                    Upgraded(image[rootfs], image[next_rootfs].rel)]
    BY <1>8 DEF UpgradeDnfOk
  <2> QED
    BY <1>8, <2>1, <2>2 DEF UpgradeDnfOk
<1>9. CASE UpgradeDnfFails(a)
  BY <1>9 DEF UpgradeDnfFails
<1>10. CASE UpgradeKernel(a)
  BY <1>10 DEF UpgradeKernel
<1>11. CASE UpgradeBakupCopied(a)
  BY <1>11 DEF UpgradeBakupCopied
<1>12. CASE UpgradeCopyOpen(a)
  <2>1. image[next_rootfs].kern \in Kernels \cup {NoFile}
    BY <1>12, ImageFields DEF UpgradeCopyOpen
  <2> QED
    BY <1>12, <2>1 DEF UpgradeCopyOpen
<1>13. CASE UpgradeSetDefault(a)
  BY <1>13 DEF UpgradeSetDefault, SetDefault, SetDefaultFails
<1> QED
  BY <1>1, <1>2, <1>3, <1>4, <1>5, <1>6, <1>7, <1>8, <1>9, <1>10,
     <1>11, <1>12, <1>13 DEF Upgrade

LEMMA NextBackup ==
  ASSUME LoneUpgrader
  PROVE  TInv /\ SystemsPresent /\ BackupInv /\ [Next]_vars => BackupInv'
<1> SUFFICES ASSUME TInv, SystemsPresent, BackupInv, [Next]_vars PROVE BackupInv'
  OBVIOUS
<1>1. CASE UNCHANGED vars
  BY <1>1 DEF vars, volume, kernels, booted, memory, notes, BackupInv,
     RootsComplete, BackupRoot, BackupKernel, next_rootfs
<1>2. ASSUME NEW a \in Agents PROVE ~Rollback(a)
  BY DEF Rollback, StartRollback, NoPreviousStatus, RollbackCopyOpen,
     RollbackNoKernel, RollbackSetDefault, LoneUpgrader, BackupInv,
     BackupKernel, RollbackPoints, At
<1>3. ASSUME NEW a \in Agents, KernelCopied(a) PROVE BackupInv'
  BY <1>3, ConstantsAssumption
  DEF KernelCopied, Goto, At, LoneUpgrader, TInv, TypeOK, BackupInv,
      RootsComplete, BackupRoot, BackupKernel, RollbackPoints, Building, Built,
      volume, booted, memory, notes, next_rootfs
<1>4. ASSUME NEW a \in Agents, InitFails(a) PROVE BackupInv'
  BY <1>4
  DEF InitFails, Return, Goto, At, LoneUpgrader, TInv, TypeOK, BackupInv,
      RootsComplete, BackupRoot, BackupKernel, RollbackPoints, Building, Built,
      volume, kernels, booted, notes, next_rootfs
<1>5. CASE Machine
  BY <1>5
  DEF Machine, Reboot, PowerLoss, GoDown, BootNormal, BootBackup, BackupInv,
      RootsComplete, BackupRoot, BackupKernel, RollbackPoints, Building, Built,
      TInv, TypeOK, BusyOnSlot, Slots, volume, kernels, booted, memory, notes
<1> QED
  BY <1>1, <1>2, <1>3, <1>4, <1>5, UpgradeBackup DEF Next

\* TornKernelHasBackup: however often the power fails, an upgrade that left the
\* boot kernel cut short has left the backup entry a kernel and a complete root.
THEOREM BackupWhenTorn ==
  ASSUME LoneUpgrader
  PROVE  Spec => []TornKernelHasBackup
<1>1. Init => TInv /\ SystemsPresent /\ BackupInv
  BY InitTInv, InitSystemsPresent, InitBackup
<1>2. TInv /\ SystemsPresent /\ BackupInv /\ [Next]_vars
      => (TInv /\ SystemsPresent /\ BackupInv)'
  BY NextTInv, NextSystemsPresent, NextBackup
<1>3. BackupInv => TornKernelHasBackup
  BY DEF BackupInv, RootsComplete, BackupKernel, TornKernelHasBackup
<1> QED
  BY <1>1, <1>2, <1>3, PTL DEF Spec
===========================================================================
