---------------------------- MODULE FactoryReset ----------------------------
(***************************************************************************)
(* `overc system factory-reset' and the clean up at the boot after it:     *)
(* factory_reset, clean_essential and clean_container of Overc/backends/   *)
(* btrfs.py, factory_reset and system_cleanup of Overc/overc.py, and       *)
(* factory_clean.py as factory-reset.service runs it.                      *)
(*                                                                         *)
(* Two volumes are reset one after the other: the root volume of module    *)
(* HostUpgrade, then the volume of the containers (/opt/container), whose  *)
(* default subvolume is replaced by a fresh snapshot of `.factory' and of  *)
(* the subvolumes inside it.  What the old subvolumes leave is removed at  *)
(* the next boot by a service that disables itself, and then leaves a lock *)
(* file, when it is done.                                                  *)
(* Upgrades, rollbacks and power failures happen meanwhile as in           *)
(* HostUpgrade; one action is again one external command.                  *)
(*                                                                         *)
(* Abstractions.  A subvolume of the containers is the set of the          *)
(* subvolumes inside it; what the containers wrote is not looked at.  The  *)
(* mounts of /opt/container/.tmp stack up and are left out, as are the     *)
(* histories of the containers, which container_cleanup deletes at the end.*)
(***************************************************************************)
EXTENDS HostUpgrade

CONSTANTS
  Children, \* subvolumes inside the factory snapshot of the containers
  Works     \* random names of working directories, as many as may coexist

Tools   == {"reset", "clean"}  \* the operator's command; the boot service
Volumes == {"installed", ".factory"} \cup Works

ASSUME VolumesAssumption ==
  /\ Works \cap {"installed", ".factory"} = {}
  /\ Children \cap Volumes = {}

\* Control points of the reset, of the cleaning that both tools do, and
\* "deleting" ones, at which the deletions of a listing are under way.
ResetPoints == {"f_list", "f_deleting", "f_snap_next", "f_snap_bakup",
                "f_set_default", "f_kernel", "f_cp", "f_work", "f_children",
                "f_work_default", "f_reboot"}
CleanPoints == {"c_essential", "c_deleting", "c_container", "c_cdeleting",
                "c_over", "c_lock"}

VARIABLES
  cvols,     \* top-level subvolumes of the volume of the containers
  kids,      \* the subvolumes inside each of them
  disabled,  \* those in whose dom0 the service has been disabled
  locked,    \* those with a lock file in the root of dom0
  cdefault,  \* the default subvolume: what the next boot mounts
  cmounted,  \* the subvolume mounted at /opt/container
  at,        \* control point of each tool
  listed,    \* <<subvolume, one inside it or itself>> still to be worked on
  work,      \* the working directory of the reset
  overlapped \* history: the two tools ran at the same time

cvolume   == <<cvols, kids, disabled, locked, cdefault>>
tools     == <<at, listed, work, overlapped>>
resetVars == <<vars, cvolume, cmounted, tools>>

ResetTypeOK ==
  /\ TypeOK
  /\ cvols \subseteq Volumes
  /\ kids \in [Volumes -> SUBSET Children]
  /\ disabled \subseteq cvols /\ locked \subseteq cvols
  /\ cdefault \in cvols /\ cmounted \in cvols
  /\ at \in [Tools -> {"idle"} \cup ResetPoints \cup CleanPoints]
  /\ \A t \in Tools : listed[t] \subseteq
       (Subvols \X Subvols) \cup (Volumes \X (Volumes \cup Children))
  /\ work \in Works
  /\ overlapped \in BOOLEAN

\* The first boot after the installation: the service is enabled, and there is
\* no lock file yet.
ResetInit ==
  /\ Init
  /\ cvols = {"installed", ".factory"}
  /\ kids = [v \in Volumes |-> IF v \in Works THEN {} ELSE Children]
  /\ disabled = {} /\ locked = {}
  /\ cdefault = "installed" /\ cmounted = "installed"
  /\ at = [t \in Tools |-> IF t = "clean" THEN "c_essential" ELSE "idle"]
  /\ listed = [t \in Tools |-> {}]
  /\ work \in Works
  /\ overlapped = FALSE

---------------------------------------------------------------------------
(* Listing subvolumes and deleting what was listed: _cleanup_subvol.       *)

Step(t, from, to) ==
  /\ at[t] = from
  /\ at' = [at EXCEPT ![t] = to]

Relist(t, entries) == listed' = [listed EXCEPT ![t] = entries]

\* Mutant: the exclude list is not looked at.
RootEntriesAll(exclude) == {<<s, s>> : s \in subvols \ {rootfs}}

RootEntries(exclude) == {<<s, s>> : s \in subvols \ ({rootfs} \cup exclude)}

\* Mutant: the subvolume in use is not excluded.
ContainerEntriesInUse ==
  {e \in cvols \X (cvols \cup Children) :
     /\ e[1] # ".factory"
     /\ e[2] = e[1] \/ e[2] \in kids[e[1]]}

\* A listing names the subvolumes inside a subvolume too; current_subvol and
\* .factory are excluded with theirs.
ContainerEntries ==
  {e \in cvols \X (cvols \cup Children) :
     /\ e[1] \notin {cmounted, ".factory"}
     /\ e[2] = e[1] \/ e[2] \in kids[e[1]]}

\* The stack is worked off from the end: what lies inside goes first.
NextListed(t) ==
  {e \in listed[t] : e[1] = e[2] => \A d \in listed[t] : d[1] = e[1] => d = e}

\* btrfs refuses to delete the default subvolume; the exit code is ignored.
DeleteRoot(t, point) ==
  /\ at[t] = point
  /\ \E e \in NextListed(t) :
       /\ Relist(t, listed[t] \ {e})
       /\ \/ DeleteOne(Subvols \ {e[1]})
          \/ /\ e[1] \notin subvols \ {default} \/ "delete" \in Faults
             /\ UNCHANGED <<volume, kernels, memory, pc>>
  /\ UNCHANGED <<booted, notes, cvolume, cmounted, at, work, overlapped>>

\* The default subvolume is safe, and so is one that is not empty; but what
\* lies inside the default subvolume is not.
DeleteContainer(t) ==
  /\ at[t] = "c_cdeleting"
  /\ \E e \in NextListed(t) :
       /\ Relist(t, listed[t] \ {e})
       /\ \/ /\ e[1] # e[2]
             /\ kids' = [kids EXCEPT ![e[1]] = @ \ {e[2]}]
             /\ UNCHANGED <<cvols, disabled, locked>>
          \/ /\ e[1] = e[2] /\ e[1] # cdefault /\ kids[e[1]] = {}
             /\ cvols' = cvols \ {e[1]}
             /\ disabled' = disabled \ {e[1]} /\ locked' = locked \ {e[1]}
             /\ UNCHANGED kids
          \/ /\ \/ e[1] = cdefault /\ e[2] = cdefault
                \/ e[1] = e[2] /\ kids[e[1]] # {}
                \/ "delete" \in Faults
             /\ UNCHANGED <<cvols, kids, disabled, locked>>
  /\ UNCHANGED <<vars, cdefault, cmounted, at, work, overlapped>>

---------------------------------------------------------------------------
(* clean_essential and clean_container, after a failed reset or at boot.   *)

CleanEssential(t) ==
  /\ Step(t, "c_essential", "c_deleting")
  /\ Relist(t, RootEntries({".factory", "rootfs_bakup"}))
  /\ UNCHANGED <<vars, cvolume, cmounted, work, overlapped>>

\* Mutant: only essential is cleaned.
EssentialOnlyCleaned(t) ==
  /\ listed[t] = {}
  /\ Step(t, "c_deleting", "c_over")
  /\ UNCHANGED <<vars, cvolume, cmounted, listed, work, overlapped>>

EssentialCleaned(t) ==
  /\ listed[t] = {}
  /\ Step(t, "c_deleting", "c_container")
  /\ UNCHANGED <<vars, cvolume, cmounted, listed, work, overlapped>>

CleanContainer(t) ==
  /\ Step(t, "c_container", "c_cdeleting")
  /\ Relist(t, ContainerEntries)
  /\ UNCHANGED <<vars, cvolume, cmounted, work, overlapped>>

ContainerCleaned(t) ==
  /\ listed[t] = {}
  /\ Step(t, "c_cdeleting", "c_over")
  /\ UNCHANGED <<vars, cvolume, cmounted, listed, work, overlapped>>

\* The failed reset prints its message.  The service has deleted the snapshots
\* of the containers too, and is disabled: no later boot runs it again.
CleanOver(t) ==
  /\ IF t = "clean"
       THEN Step(t, "c_over", "c_lock") /\ disabled' = disabled \cup {cmounted}
       ELSE Step(t, "c_over", "idle") /\ UNCHANGED disabled
  /\ UNCHANGED <<vars, cvols, kids, locked, cdefault, cmounted, listed, work,
                 overlapped>>

\* A command of its own touches the lock file.
CleanLock(t) ==
  /\ Step(t, "c_lock", "idle")
  /\ locked' = locked \cup {cmounted}
  /\ UNCHANGED <<vars, cvols, kids, disabled, cdefault, cmounted, listed, work,
                 overlapped>>

Clean(t) ==
  \/ CleanEssential(t) \/ DeleteRoot(t, "c_deleting")
  \/ EssentialCleaned(t) \/ CleanContainer(t) \/ DeleteContainer(t)
  \/ ContainerCleaned(t) \/ CleanOver(t) \/ CleanLock(t)

---------------------------------------------------------------------------
(* _factory_reset_essential                                                *)

Abort(from) == Step("reset", from, "c_essential")

\* The working directory's name is drawn when it is needed (line 226).
StartReset ==
  /\ rootfs \in Slots
  /\ Step("reset", "idle", "f_list")
  /\ overlapped' = (overlapped \/ at["clean"] # "idle")
  /\ UNCHANGED <<vars, cvolume, cmounted, listed, work>>

ResetList ==
  /\ Step("reset", "f_list", "f_deleting")
  /\ Relist("reset", RootEntries({".factory"}))
  /\ UNCHANGED <<vars, cvolume, cmounted, work, overlapped>>

\* An upgrade that waits for its reboot made the other slot the default: it
\* could not be deleted, and no reset is possible before the reboot.
ResetCheckClean ==
  /\ at["reset"] = "f_deleting" /\ listed["reset"] = {}
  /\ IF next_rootfs \in subvols THEN Abort("f_deleting")
     ELSE Step("reset", "f_deleting", "f_snap_next")
  /\ UNCHANGED <<vars, cvolume, cmounted, listed, work, overlapped>>

ResetSnapNext ==
  /\ at["reset"] = "f_snap_next"
  /\ \/ /\ Snapshot(".factory", next_rootfs)
        /\ Step("reset", "f_snap_next", "f_snap_bakup")
     \/ /\ "snapshot" \in Faults
        /\ Abort("f_snap_next")
        /\ UNCHANGED <<volume, kernels>>
  /\ UNCHANGED <<booted, pc, memory, notes, cvolume, cmounted, listed, work,
                 overlapped>>

\* The backup's root becomes the factory's, its kernel stays.
ResetSnapBakup ==
  /\ Step("reset", "f_snap_bakup", "f_set_default")
  /\ \/ Snapshot(".factory", "rootfs_bakup")
     \/ "snapshot" \in Faults /\ UNCHANGED <<volume, kernels>>
  /\ UNCHANGED <<booted, pc, memory, notes, cvolume, cmounted, listed, work,
                 overlapped>>

\* Mutant: the backup's snapshot is made the default.
ResetDefaultsBakup ==
  /\ at["reset"] = "f_set_default"
  /\ \/ SetDefault("rootfs_bakup") /\ Step("reset", "f_set_default", "f_kernel")
     \/ SetDefaultFails("rootfs_bakup") /\ Abort("f_set_default")
  /\ UNCHANGED <<booted, pc, memory, warned, cvolume, cmounted, listed, work,
                 overlapped>>

\* From here on the next boot is a factory system, whatever follows.
ResetSetDefault ==
  /\ at["reset"] = "f_set_default"
  /\ \/ SetDefault(next_rootfs) /\ Step("reset", "f_set_default", "f_kernel")
     \/ SetDefaultFails(next_rootfs) /\ Abort("f_set_default")
  /\ UNCHANGED <<booted, pc, memory, warned, cvolume, cmounted, listed, work,
                 overlapped>>

\* The cp of line 193 truncates the boot kernel.  When the factory root has no
\* kernel file cp leaves it alone, or realpath objects before that: then
\* check_output raises, and nothing is cleaned.
ResetKernelOpen ==
  /\ IF image[".factory"].kern # NoFile
       THEN kernel' = Torn /\ Step("reset", "f_kernel", "f_cp")
       ELSE /\ UNCHANGED kernel
            /\ \E to \in {"f_work", "idle"} : Step("reset", "f_kernel", to)
  /\ UNCHANGED <<volume, kernel_bakup, booted, pc, memory, notes, cvolume,
                 cmounted, listed, work, overlapped>>

ResetKernelCopied ==
  /\ Step("reset", "f_cp", "f_work")
  /\ kernel' = image[".factory"].kern
  /\ UNCHANGED <<volume, kernel_bakup, booted, pc, memory, notes, cvolume,
                 cmounted, listed, work, overlapped>>

---------------------------------------------------------------------------
(* _factory_reset_container                                                *)

\* The snapshot of .factory has empty directories where the subvolumes inside
\* it were; these are listed and follow one by one.
ResetWork ==
  \/ \E w \in Works \ cvols :
       /\ Step("reset", "f_work", "f_children")
       /\ \A t \in Tools : <<w, w>> \notin listed[t]
       /\ work' = w
       /\ cvols' = cvols \cup {w}
       /\ kids' = [kids EXCEPT ![w] = {}]
       /\ Relist("reset", {<<".factory", c>> : c \in kids[".factory"]})
       /\ UNCHANGED <<vars, disabled, locked, cdefault, cmounted, overlapped>>
  \/ /\ ".factory" \notin cvols \/ "snapshot" \in Faults
     /\ Abort("f_work")
     /\ UNCHANGED <<vars, cvolume, cmounted, listed, work, overlapped>>

\* Mutant: a child that cannot be snapshotted is passed over.
ResetChildUnchecked ==
  /\ at["reset"] = "f_children"
  /\ \E e \in listed["reset"] :
       /\ Relist("reset", listed["reset"] \ {e})
       /\ \/ work \in cvols /\ kids' = [kids EXCEPT ![work] = @ \cup {e[2]}]
          \/ "snapshot" \in Faults /\ UNCHANGED kids
  /\ UNCHANGED <<vars, cvols, disabled, locked, cdefault, cmounted, at, work,
                 overlapped>>

\* The working directory may be gone, deleted by the service.
ResetChild ==
  /\ \E e \in listed["reset"] :
       \/ /\ work \in cvols
          /\ at["reset"] = "f_children" /\ UNCHANGED at
          /\ kids' = [kids EXCEPT ![work] = @ \cup {e[2]}]
          /\ Relist("reset", listed["reset"] \ {e})
       \/ /\ work \notin cvols \/ "snapshot" \in Faults
          /\ Abort("f_children")
          /\ Relist("reset", {})
          /\ UNCHANGED kids
  /\ UNCHANGED <<vars, cvols, disabled, locked, cdefault, cmounted, work,
                 overlapped>>

ResetChildrenOver ==
  /\ listed["reset"] = {}
  /\ Step("reset", "f_children", "f_work_default")
  /\ UNCHANGED <<vars, cvolume, cmounted, listed, work, overlapped>>

ResetWorkDefault ==
  /\ \/ /\ work \in cvols
        /\ Step("reset", "f_work_default", "f_reboot")
        /\ cdefault' = work
     \/ /\ work \notin cvols \/ "set_default" \in Faults
        /\ Abort("f_work_default")
        /\ UNCHANGED cdefault
  /\ UNCHANGED <<vars, cvols, kids, disabled, locked, cmounted, listed, work,
                 overlapped>>

ResetStep ==
  \/ StartReset \/ ResetList \/ DeleteRoot("reset", "f_deleting")
  \/ ResetCheckClean \/ ResetSnapNext \/ ResetSnapBakup \/ ResetSetDefault
  \/ ResetKernelOpen \/ ResetKernelCopied
  \/ ResetWork \/ ResetChild \/ ResetChildrenOver \/ ResetWorkDefault

---------------------------------------------------------------------------
(* The agents of HostUpgrade and the machine.                              *)

HostStep ==
  /\ \E a \in Agents :
       Upgrade(a) \/ Rollback(a) \/ KernelCopied(a) \/ InitFails(a)
  /\ UNCHANGED <<cvolume, cmounted, tools>>

Down ==
  /\ Reboot \/ PowerLoss \/ (at["reset"] = "f_reboot" /\ GoDown)
  /\ at' = [t \in Tools |-> "idle"]
  /\ listed' = [t \in Tools |-> {}]
  /\ UNCHANGED <<cvolume, cmounted, work, overlapped>>

\* Mutant: the service is disabled on a volume that a reset does not renew.
BootDisabledForAll ==
  /\ BootNormal \/ BootBackup
  /\ cmounted' = cdefault
  /\ at' = [at EXCEPT !["clean"] =
              IF disabled \cup locked = {} /\ rootfs' \in Slots
              THEN "c_essential" ELSE "idle"]
  /\ UNCHANGED <<cvolume, listed, work, overlapped>>

\* The service is started unless it is disabled or its lock is there; in the
\* backup system the constructor of Overc raises KeyError, so it fails at once.
Boot ==
  /\ BootNormal \/ BootBackup
  /\ cmounted' = cdefault
  /\ at' = [at EXCEPT !["clean"] =
              IF cdefault \notin disabled \cup locked /\ rootfs' \in Slots
              THEN "c_essential" ELSE "idle"]
  /\ UNCHANGED <<cvolume, listed, work, overlapped>>

ResetNext ==
  \/ ResetStep \/ \E t \in Tools : Clean(t)
  \/ HostStep \/ Down \/ Boot

\* The service is a program of its own that always gets on; nobody has to issue
\* a command, and the power need not come back.
ResetSpec ==
  /\ ResetInit /\ [][ResetNext]_resetVars
  /\ WF_resetVars(Clean("clean"))

---------------------------------------------------------------------------
(* Properties.                                                             *)

\* Whatever the tools, the agents and the power do to one another, the root
\* volume keeps the systems of SystemsPresent, and the containers' volume its
\* factory snapshot whole, the subvolume in use with all that is inside it,
\* and a default subvolume to mount (the exclude lists of lines 152 and 157).
VolumesPresent ==
  /\ SystemsPresent
  /\ {".factory", cdefault, cmounted} \subseteq cvols
  /\ kids[".factory"] = Children

\* While the machine is up, neither reset nor clean up touches what runs: the
\* subvolume at "/" and the subvolumes of the containers in use.
InUseUntouched ==
  [][rootfs # "off" /\ rootfs' = rootfs =>
       /\ rootfs \in subvols' /\ image'[rootfs] = image[rootfs]
       /\ cmounted \in cvols' /\ kids'[cmounted] = kids[cmounted]]_resetVars

\* What the next boot mounts at /opt/container holds every subvolume of the
\* factory snapshot: set-default comes after the last of them (lines 237-258),
\* and a failed one aborts.  It takes the tools one at a time: a clean up that
\* listed the working directory before it became the default deletes what is
\* inside it afterwards.
NextContainersWhole == ~overlapped => kids[cdefault] = Children

\* A reset has v in hand: it builds it as its working directory, or the clean
\* up after its failure is still to list it or has it on its list.
InHand(v) ==
  /\ v = work
  /\ \/ at["reset"] \in {"f_children", "f_work_default"}
     \/ at["reset"] \in {"c_essential", "c_deleting", "c_container"}
     \/ at["reset"] = "c_cdeleting" /\ <<v, v>> \in listed["reset"]

\* When the service is disabled, every subvolume that neither this boot nor the
\* next one needs is gone, those that earlier resets left half made when they
\* failed or the power did included, or a reset of this boot has it in hand.
DisabledIsClean ==
  [][disabled' \subseteq disabled
     \/ \A v \in cvols \ {".factory", cmounted, cdefault} : InHand(v)]_resetVars

\* The clean up is made up for, after each reset: a machine that in the end
\* stays up in a normal system has completed it in a boot from the very
\* subvolume of the containers it stays with, not only from one of an earlier
\* round, however often it went down during the clean up.
CleanedInTheEnd == <>[](rootfs \in Slots) => <>[](cmounted \in disabled)

\* "Factory reset aborted!" (lines 172 to 264): with nobody else at work, the
\* machine is then still to boot the system it runs.
AbortedChangesNothing == at["reset"] \in CleanPoints => default = rootfs
=============================================================================
