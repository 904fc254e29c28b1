---------------------------- MODULE HostUpgrade ----------------------------
(***************************************************************************)
(* Upgrade and rollback of the essential (host) system by the OverC agent: *)
(* class Btrfs of Overc/backends/btrfs.py as driven by _host_upgrade and   *)
(* host_rollback of Overc/overc.py.                                        *)
(*                                                                         *)
(* Three pieces of durable state are changed one after the other, with no  *)
(* transaction around them: the subvolumes of the root btrfs volume, its   *)
(* default subvolume, and the kernel files of the separate boot partition. *)
(* One action is one external command of the code (one `btrfs', one `cp',  *)
(* one `dnf'), because the power may fail, and another agent may run,      *)
(* between any two of them.  Several agents may be active: each command    *)
(* line call and each REST request builds its own Overc object and nothing *)
(* locks them out of each other.                                           *)
(*                                                                         *)
(* Abstractions.  A root filesystem is the release its packages come from, *)
(* the kernel file in its /boot and whether a package transaction was left *)
(* half done in it.  The .p7b signature and the grub efi binaries travel   *)
(* with the kernel file.  The kernel path of __init__ (lines 18-31) is     *)
(* found; a board with none of those names is not modelled.                *)
(***************************************************************************)
EXTENDS Naturals, FiniteSets

CONSTANTS
  Agents,      \* processes that run the agent: command lines and REST requests
  MaxRelease,  \* the feed offers releases 1..MaxRelease; 1 is the factory one
  Kernels,     \* kernel images
  KernelOf,    \* the kernel package of each release
  NoFile,      \* "there is no such file"
  Torn,        \* a kernel file whose copy was cut short
  ShipsKernel, \* whether the installed root filesystem has a file in /boot
  Commands,    \* the subcommands of `overc host' the operator uses
  Faults,      \* which commands may fail, and whether the power may
  ObeyNotes    \* whether the operator follows the Notes of README 83-84
               \* and the "Please do not run rollback!" of a failed upgrade

Releases == 1..MaxRelease

ASSUME ConstantsAssumption ==
  /\ MaxRelease \in Nat \ {0}
  /\ KernelOf \in [Releases -> Kernels]
  /\ NoFile \notin Kernels /\ Torn \notin Kernels /\ NoFile # Torn
  /\ ShipsKernel \in BOOLEAN /\ ObeyNotes \in BOOLEAN

Slots   == {"rootfs", "rootfs_upgrade"}
Subvols == Slots \cup {"rootfs_bakup", ".factory"}

\* Mutant: the entry of rootfs_upgrade names the wrong subvolume.
rootfs_dic_wrong == [s \in Slots |->
                       IF s = "rootfs" THEN "rootfs_upgrade"
                       ELSE "rootfs_bakup"]

\* The other slot: the subvolume an upgrade builds and a rollback returns to.
rootfs_dic == [s \in Slots |->
                 IF s = "rootfs" THEN "rootfs_upgrade" ELSE "rootfs"]

Images == [rel : Releases, kern : Kernels \cup {NoFile}, mixed : BOOLEAN]

\* Control points of the two handlers; "reboot" is os.system('reboot').
UpgradePoints  == {"u_cleanup", "u_snap_bakup", "u_snap_next", "u_dnf",
                   "u_dnf_run", "u_dnf_gone", "u_kernel", "u_bakup_cp",
                   "u_cp_open", "u_cp", "u_set_default"}
RollbackPoints == {"r_kernel", "r_cp", "r_set_default"}
Points == {"idle", "reboot"} \cup UpgradePoints \cup RollbackPoints

\* How the last command of an agent ended.  "exception" is an uncaught one.
Outcomes == {"none", "ok", "failed", "exception"}

VARIABLES
  subvols,      \* top-level subvolumes that exist on the root volume
  image,        \* content of each subvolume (a fixed one when it is missing)
  default,      \* the default subvolume: what the normal boot entry mounts
  kernel,       \* the kernel file the normal boot entry loads
  kernel_bakup, \* the file <kernel>_bakup that the backup boot entry loads
  rootfs,       \* the subvolume mounted at "/", or "off"
  uname,        \* the kernel now running
  pc,           \* control point of each agent
  kernel_md5,   \* the checksum each agent took of `kernel' in __init__
  source,       \* what the cp in progress in an agent has read
  outcome,      \* how the agent's last command ended
  warned,       \* the operator was told not to roll back
  previous      \* history: the release that ran when default was last moved

volume  == <<subvols, image, default>>
kernels == <<kernel, kernel_bakup>>
booted  == <<rootfs, uname>>
memory  == <<kernel_md5, source, outcome>>
notes   == <<warned, previous>>
vars    == <<volume, kernels, booted, pc, memory, notes>>

TypeOK ==
  /\ subvols \subseteq Subvols
  /\ image \in [Subvols -> Images]
  /\ default \in Slots
  /\ kernel \in Kernels \cup {Torn}
  /\ kernel_bakup \in Kernels \cup {Torn, NoFile}
  /\ rootfs \in Slots \cup {"rootfs_bakup", "off"}
  /\ uname \in Kernels
  /\ pc \in [Agents -> Points]
  /\ kernel_md5 \in [Agents -> Kernels \cup {Torn, NoFile}]
  /\ source \in [Agents -> Kernels \cup {Torn, NoFile}]
  /\ outcome \in [Agents -> Outcomes]
  /\ warned \in BOOLEAN
  /\ previous \in Releases \cup {0}

---------------------------------------------------------------------------
FactoryImage == [rel   |-> 1,
                 kern  |-> IF ShipsKernel THEN KernelOf[1] ELSE NoFile,
                 mixed |-> FALSE]

\* As installed: README 22-28 (rootfs in subvolume `rootfs', set default), and
\* the snapshot .factory that factory_reset needs.  Whether the installer puts a
\* bzImage_bakup on the boot partition is not for this code to say.
Init ==
  /\ subvols = {"rootfs", ".factory"}
  /\ image = [s \in Subvols |-> FactoryImage]
  /\ default = "rootfs"
  /\ kernel = KernelOf[1]
  /\ kernel_bakup \in {NoFile, KernelOf[1]}
  /\ rootfs = "rootfs"
  /\ uname = KernelOf[1]
  /\ pc = [a \in Agents |-> "idle"]
  /\ kernel_md5 = [a \in Agents |-> NoFile]
  /\ source = [a \in Agents |-> NoFile]
  /\ outcome = [a \in Agents |-> "none"]
  /\ warned = FALSE
  /\ previous = 0

---------------------------------------------------------------------------
(* Steps of an agent.                                                      *)

At(a, point)   == pc[a] = point
Goto(a, point) == pc' = [pc EXCEPT ![a] = point]

\* self.next_rootfs of an agent running on a slot.
next_rootfs == rootfs_dic[rootfs]

\* A handler returns: the outcome is reported, the process and what it
\* remembered are gone.
Return(a, result, point) ==
  /\ outcome' = [outcome EXCEPT ![a] = result]
  /\ kernel_md5' = [kernel_md5 EXCEPT ![a] = NoFile]
  /\ source' = [source EXCEPT ![a] = NoFile]
  /\ Goto(a, point)

\* Btrfs.__init__ on a slot: it remembers the checksum of the boot kernel.
BeginCommand(a, point) ==
  /\ At(a, "idle")
  /\ rootfs \in Slots
  /\ kernel_md5' = [kernel_md5 EXCEPT ![a] = kernel]
  /\ outcome' = [outcome EXCEPT ![a] = "none"]
  /\ Goto(a, point)
  /\ UNCHANGED source

\* Btrfs.__init__ in the backup system: rootfs_dic has no entry for
\* 'rootfs_bakup', so line 39 raises KeyError before any command runs.
InitFails(a) ==
  /\ At(a, "idle")
  /\ rootfs = "rootfs_bakup"
  /\ Return(a, "exception", "idle")
  /\ UNCHANGED <<volume, kernels, booted, notes>>

(* External: what the btrfs, dnf and cp programs do.                       *)

\* Mutants: _cleanup_subvol without its exclude list, and without its test of
\* the running root.
DoomedNoExclude(exclude) == (subvols \ {rootfs}) \ {default}
DoomedRunning(exclude)   == (subvols \ exclude) \ {default}

\* The subvolumes _cleanup_subvol asks btrfs to delete, less the default one,
\* which btrfs refuses to delete.
Doomed(exclude) == (subvols \ ({rootfs} \cup exclude)) \ {default}

\* One round of the deletion loop of _cleanup_subvol.  A dnf at work inside the
\* deleted slot can no longer write there.
DeleteOne(exclude) ==
  /\ \E s \in Doomed(exclude) :
       /\ subvols' = subvols \ {s}
       /\ image' = [image EXCEPT ![s] = FactoryImage]
       /\ pc' = [b \in Agents |-> IF At(b, "u_dnf_run") /\ s = next_rootfs
                                 THEN "u_dnf_gone" ELSE pc[b]]
  /\ UNCHANGED <<kernels, memory, default>>

\* The loop is over: everything is deleted, or some deletions failed (their
\* exit codes are ignored).
CleanupOver(exclude) == Doomed(exclude) = {} \/ "delete" \in Faults

\* `btrfs subvolume snapshot from to'.  When `to' exists the snapshot lands
\* inside it and `to' itself stays as it was.
Snapshot(from, to) ==
  /\ subvols' = subvols \cup {to}
  /\ image' = IF to \in subvols THEN image
              ELSE [image EXCEPT ![to] = image[from]]
  /\ UNCHANGED <<kernels, default>>

\* `btrfs subvolume set-default <id of s>'.
SetDefault(s) ==
  /\ s \in subvols
  /\ default' = s
  /\ previous' = image[rootfs].rel
  /\ UNCHANGED <<kernels, subvols, image>>

SetDefaultFails(s) ==
  /\ s \notin subvols \/ "set_default" \in Faults
  /\ UNCHANGED <<volume, kernels, previous>>

\* A full `dnf upgrade' of img to release r: /boot gets a kernel file only
\* when the kernel package changes.
Upgraded(img, r) ==
  [rel   |-> r,
   kern  |-> IF KernelOf[r] = KernelOf[img.rel] THEN img.kern ELSE KernelOf[r],
   mixed |-> FALSE]

---------------------------------------------------------------------------
(* `overc host upgrade': _host_upgrade, do_upgrade, _do_upgrade            *)

\* A newer release is offered, or the operator forces the upgrade.
StartUpgrade(a) ==
  /\ "upgrade" \in Commands
  /\ BeginCommand(a, "u_cleanup")
  /\ UNCHANGED <<volume, kernels, booted, notes>>

UpgradeCleanup(a) ==
  /\ At(a, "u_cleanup")
  /\ DeleteOne({".factory"})
  /\ UNCHANGED <<booted, notes>>

\* _host_upgrade reboots when asked to, whatever do_upgrade returned.
UpgradeReturn(a, result) == \E p \in {"idle", "reboot"} : Return(a, result, p)

\* The check of line 274: the other slot must be gone.
UpgradeCheckClean(a) ==
  /\ At(a, "u_cleanup")
  /\ CleanupOver({".factory"})
  /\ IF next_rootfs \in subvols
       THEN UpgradeReturn(a, "failed")
       ELSE Goto(a, "u_snap_bakup") /\ UNCHANGED <<memory>>
  /\ UNCHANGED <<volume, kernels, booted, notes>>

\* Snapshot for the backup boot entry; its failure is not noticed.
UpgradeSnapBakup(a) ==
  /\ At(a, "u_snap_bakup")
  /\ \/ Snapshot(rootfs, "rootfs_bakup")
     \/ "snapshot" \in Faults /\ UNCHANGED <<volume, kernels>>
  /\ Goto(a, "u_snap_next")
  /\ UNCHANGED <<booted, memory, notes>>

UpgradeSnapNext(a) ==
  /\ At(a, "u_snap_next")
  /\ Snapshot(rootfs, next_rootfs)
  /\ Goto(a, "u_dnf")
  /\ UNCHANGED <<booted, memory, notes>>

\* A command of the upgrade raises CalledProcessError: mktemp without the
\* snapshot, dnf or realpath when the chroot directory is gone, which another
\* agent's clean up, or the clean up after a factory reset, may have deleted.
UpgradeRaises(a) ==
  /\ \/ At(a, "u_snap_next") /\ "snapshot" \in Faults
     \/ pc[a] \in {"u_dnf", "u_kernel"} /\ next_rootfs \notin subvols
  /\ Return(a, "exception", "idle")
  /\ UNCHANGED <<volume, kernels, booted, notes>>

\* dnf starts replacing packages in the chroot; the kernel's may be among them.
UpgradeDnf(a) ==
  /\ At(a, "u_dnf")
  /\ next_rootfs \in subvols
  /\ \E r \in Releases, new \in BOOLEAN :
       /\ r >= image[rootfs].rel
       /\ image' = [image EXCEPT ![next_rootfs] =
                      [rel   |-> r,
                       kern  |-> IF new THEN Upgraded(image[rootfs], r).kern
                                 ELSE image[rootfs].kern,
                       mixed |-> TRUE]]
  /\ Goto(a, "u_dnf_run")
  /\ UNCHANGED <<kernels, booted, memory, notes, subvols, default>>

UpgradeDnfOk(a) ==
  /\ At(a, "u_dnf_run")
  /\ image' = [image EXCEPT ![next_rootfs] = Upgraded(image[rootfs], @.rel)]
  /\ Goto(a, "u_kernel")
  /\ UNCHANGED <<kernels, booted, memory, notes, subvols, default>>

\* Mutant: the exit code of dnf is not looked at.
UpgradeDnfUnchecked(a) ==
  /\ At(a, "u_dnf_run")
  /\ Goto(a, "u_kernel")
  /\ UNCHANGED <<volume, kernels, booted, memory, notes>>

\* Line 310: "It has no effect on the running system! Please do not run
\* rollback!"  The half-upgraded slot stays, or the untouched one if dnf gave
\* up before its transaction.
UpgradeDnfFails(a) ==
  /\ \/ At(a, "u_dnf_gone") /\ UNCHANGED image
     \/ /\ At(a, "u_dnf_run")
        /\ "dnf" \in Faults
        /\ \/ UNCHANGED image
           \/ image' = [image EXCEPT ![next_rootfs] = image[rootfs]]
  /\ UpgradeReturn(a, "failed")
  /\ warned' = TRUE
  /\ UNCHANGED <<kernels, booted, subvols, default, previous>>

\* Mutant: the running kernel is not saved.
UpgradeKernelNoBakup(a) ==
  /\ At(a, "u_kernel")
  /\ next_rootfs \in subvols
  /\ Goto(a, IF image[next_rootfs].kern \notin {NoFile, kernel_md5[a]}
             THEN "u_cp_open" ELSE "u_set_default")
  /\ UNCHANGED <<volume, kernels, booted, memory, notes>>

\* Lines 318-326: with a kernel that differs from the one __init__ saw, the
\* running one is saved first.  The cp opens and truncates its target here.
UpgradeKernel(a) ==
  /\ At(a, "u_kernel")
  /\ next_rootfs \in subvols
  /\ IF image[next_rootfs].kern \notin {NoFile, kernel_md5[a]}
       THEN /\ Goto(a, "u_bakup_cp")
            /\ source' = [source EXCEPT ![a] = kernel]
            /\ kernel_bakup' = Torn
       ELSE /\ Goto(a, "u_set_default")
            /\ UNCHANGED <<source, kernel_bakup>>
  /\ UNCHANGED <<volume, booted, notes, kernel, kernel_md5, outcome>>

UpgradeBakupCopied(a) ==
  /\ At(a, "u_bakup_cp")
  /\ kernel_bakup' = source[a]
  /\ Goto(a, "u_cp_open")
  /\ UNCHANGED <<volume, booted, memory, notes, kernel>>

\* Line 329 opens the new kernel, if its slot still has one, and truncates
\* the old one; the exit code of cp is not looked at.
UpgradeCopyOpen(a) ==
  /\ At(a, "u_cp_open")
  /\ IF next_rootfs \in subvols /\ image[next_rootfs].kern # NoFile
       THEN /\ source' = [source EXCEPT ![a] = image[next_rootfs].kern]
            /\ kernel' = Torn
            /\ Goto(a, "u_cp")
       ELSE /\ Goto(a, "u_set_default")
            /\ UNCHANGED <<source, kernel>>
  /\ UNCHANGED <<volume, booted, notes, kernel_bakup, kernel_md5, outcome>>

\* Lines 342-350: "do upgrade ok", whether set-default worked or not.
UpgradeSetDefault(a) ==
  /\ At(a, "u_set_default")
  /\ SetDefault(next_rootfs) \/ SetDefaultFails(next_rootfs)
  /\ UpgradeReturn(a, "ok")
  /\ warned' = FALSE
  /\ UNCHANGED booted

---------------------------------------------------------------------------
(* `overc host rollback': host_rollback, do_rollback                       *)

\* What the operator is told: not after a failed upgrade, and not between an
\* upgrade and its reboot.
MayRollback == ObeyNotes => ~warned /\ default = rootfs

StartRollback(a) ==
  /\ "rollback" \in Commands
  /\ MayRollback
  /\ BeginCommand(a, "r_kernel")
  /\ UNCHANGED <<volume, kernels, booted, notes>>

NoPreviousStatus(a) ==
  /\ At(a, "r_kernel")
  /\ next_rootfs \notin subvols
  /\ Return(a, "failed", "idle")
  /\ UNCHANGED <<volume, kernels, booted, notes>>

\* Mutant: the saved kernel is always taken.
rollback_kernel_bakup == kernel_bakup

\* The kernel to return to: the slot's own, else the saved one.
rollback_kernel ==
  IF image[next_rootfs].kern # NoFile THEN image[next_rootfs].kern
  ELSE kernel_bakup

\* rollback_kernel_md5 stays '' (line 378 assigns another variable), so the
\* copy of line 381 is made even when the kernel is the one that runs.
RollbackCopyOpen(a) ==
  /\ At(a, "r_kernel")
  /\ next_rootfs \in subvols
  /\ rollback_kernel # NoFile
  /\ source' = [source EXCEPT ![a] = rollback_kernel]
  /\ kernel' = Torn
  /\ Goto(a, "r_cp")
  /\ UNCHANGED <<volume, booted, notes, kernel_bakup, kernel_md5, outcome>>

\* md5sum of a file that is not there: the assertion of _pipe fails.
RollbackNoKernel(a) ==
  /\ At(a, "r_kernel")
  /\ next_rootfs \in subvols
  /\ rollback_kernel = NoFile
  /\ Return(a, "exception", "idle")
  /\ UNCHANGED <<volume, kernels, booted, notes>>

\* do_rollback returns True whatever set-default did; host_rollback reboots.
RollbackSetDefault(a) ==
  /\ At(a, "r_set_default")
  /\ SetDefault(next_rootfs) \/ SetDefaultFails(next_rootfs)
  /\ Return(a, "ok", "reboot")
  /\ UNCHANGED <<booted, warned>>

\* Mutant: the upgrade returns once its kernel is in place, without set-default.
KernelCopiedReturns(a) ==
  /\ kernel' = source[a]
  /\ \/ At(a, "u_cp") /\ Return(a, "ok", "idle")
     \/ At(a, "r_cp") /\ Goto(a, "r_set_default") /\ UNCHANGED <<memory>>
  /\ UNCHANGED <<volume, booted, notes, kernel_bakup>>

\* The cp of line 329 or 381 has written the boot kernel.
KernelCopied(a) ==
  /\ kernel' = source[a]
  /\ \/ At(a, "u_cp") /\ Goto(a, "u_set_default")
     \/ At(a, "r_cp") /\ Goto(a, "r_set_default")
  /\ UNCHANGED <<volume, booted, memory, notes, kernel_bakup>>

---------------------------------------------------------------------------
(* The machine.  Going down ends every agent where it is.                  *)

GoDown ==
  /\ rootfs # "off"
  /\ rootfs' = "off"
  /\ pc' = [a \in Agents |-> "idle"]
  /\ outcome' = [a \in Agents |-> "none"]
  /\ kernel_md5' = [a \in Agents |-> NoFile]
  /\ source' = [a \in Agents |-> NoFile]
  /\ UNCHANGED <<volume, kernels, notes, uname>>

\* An agent, or with no command running the operator, reboots.
Reboot == /\ \/ \E a \in Agents : At(a, "reboot")
             \/ \A a \in Agents : At(a, "idle")
          /\ GoDown

PowerLoss == "power" \in Faults /\ GoDown

\* The two entries of the boot menu (README 33-41): the normal one mounts the
\* default subvolume, the backup one names its kernel and its subvolume.
BootNormal ==
  /\ rootfs = "off"
  /\ kernel # Torn
  /\ rootfs' = default
  /\ uname' = kernel
  /\ UNCHANGED <<volume, kernels, memory, notes, pc>>

BootBackup ==
  /\ rootfs = "off"
  /\ "rootfs_bakup" \in subvols
  /\ kernel_bakup \notin {Torn, NoFile}
  /\ rootfs' = "rootfs_bakup"
  /\ uname' = kernel_bakup
  /\ UNCHANGED <<volume, kernels, memory, notes, pc>>

---------------------------------------------------------------------------
Upgrade(a) ==
  \/ StartUpgrade(a) \/ UpgradeCleanup(a) \/ UpgradeCheckClean(a)
  \/ UpgradeSnapBakup(a) \/ UpgradeSnapNext(a) \/ UpgradeRaises(a)
  \/ UpgradeDnf(a) \/ UpgradeDnfOk(a) \/ UpgradeDnfFails(a)
  \/ UpgradeKernel(a) \/ UpgradeBakupCopied(a)
  \/ UpgradeCopyOpen(a) \/ UpgradeSetDefault(a)

Rollback(a) ==
  \/ StartRollback(a) \/ NoPreviousStatus(a) \/ RollbackCopyOpen(a)
  \/ RollbackNoKernel(a) \/ RollbackSetDefault(a)

Machine == Reboot \/ PowerLoss \/ BootNormal \/ BootBackup

Next ==
  \/ \E a \in Agents :
       Upgrade(a) \/ Rollback(a) \/ KernelCopied(a) \/ InitFails(a)
  \/ Machine

Spec == Init /\ [][Next]_vars

---------------------------------------------------------------------------
(* Properties.                                                             *)

\* Whatever fails and however many agents run, three systems are never lost:
\* the one the normal entry boots, the factory one and the running one.  The
\* agent's part in this is the exclude list and the `self.rootfs' test of
\* _cleanup_subvol (line 142).
SystemsPresent ==
  /\ default \in subvols
  /\ ".factory" \in subvols
  /\ image[".factory"] = FactoryImage
  /\ rootfs # "off" => rootfs \in subvols

\* "It has no effect on the running system!" (line 311): while the machine is
\* up, no command deletes or rewrites the subvolume mounted at "/".
RunningUntouched ==
  [][rootfs # "off" /\ rootfs' = rootfs =>
       rootfs \in subvols' /\ image'[rootfs] = image[rootfs]]_vars

\* The normal entry never boots a half-done package transaction.
DefaultComplete == ~image[default].mixed

\* A system booted by the normal entry runs the kernel of its own release:
\* what makes the upgrade, kernel and root together, atomic (README 5-8).
RunsOwnKernel ==
  rootfs \in Slots => uname = KernelOf[image[rootfs].rel]

\* A boot kernel cut short leaves the machine bootable: the backup entry has
\* a kernel and a complete root (lines 282 and 326 come before line 329).
TornKernelHasBackup ==
  kernel = Torn =>
    /\ kernel_bakup \in Kernels
    /\ "rootfs_bakup" \in subvols
    /\ ~image["rootfs_bakup"].mixed

(* Every command is atomic, seen from the boots: README 3-8.  The kernel   *)
(* copy, the snapshots, the package transaction and the clean up of one    *)
(* command are all stuttering steps of AtomicUpgrade.                      *)
Up == rootfs \in Slots

Atomic == INSTANCE AtomicUpgrade WITH
  running  <- IF Up THEN [rel   |-> image[rootfs].rel,
                          kern  |-> uname,
                          mixed |-> image[rootfs].mixed]
              ELSE [rel |-> 0],
  target   <- image[default].rel,
  pending  <- Up /\ default # rootfs,
  fallback <- previous

\* As long as neither the power nor set-default fails, and the Notes of README
\* 83-84 are followed, a lone agent implements the atomic upgrade.
ImplementsAtomicUpgrade == Atomic!Spec

---------------------------------------------------------------------------
(* The inductive invariant of a lone agent, on which the proofs of         *)
(* DefaultComplete, RunsOwnKernel and ImplementsAtomicUpgrade rest.        *)

LoneAgent ==
  /\ \E a \in Agents : Agents = {a}
  /\ Faults \cap {"power", "set_default"} = {}
  /\ ObeyNotes

\* The kernel the packages of subvolume s were built with.
OwnKernel(s) == KernelOf[image[s].rel]

Present == Slots \cap subvols

\* Points at which the other slot is being built, and at which it is built.
Building == {"u_snap_bakup", "u_snap_next", "u_dnf", "u_dnf_run"}
Built    == {"u_kernel", "u_bakup_cp", "u_cp_open", "u_cp", "u_set_default"}

\* A half-done transaction is never in the default or the running slot, and
\* the operator knows of it as soon as dnf has given up.
MixedKnown ==
  /\ \A s \in Present : image[s].mixed => s \notin {default, rootfs}
  /\ \A a \in Agents, s \in Present :
       image[s].mixed => warned \/ pc[a] = "u_dnf_run"

\* A complete root holds its own kernel, or none and then it runs with the
\* installed kernel, which is also what was saved.
OwnKernelFile ==
  \A s \in Present :
    ~image[s].mixed =>
      \/ image[s].kern = OwnKernel(s)
      \/ /\ image[s].kern = NoFile
         /\ OwnKernel(s) = KernelOf[1]
         /\ \/ kernel_bakup \in {NoFile, KernelOf[1]}
            \/ \E a \in Agents :
                 pc[a] = "u_bakup_cp" /\ source[a] = KernelOf[1]

\* Which kernel the boot partition holds at each point.
KernelAt(a) ==
  /\ pc[a] \in {"u_cp", "r_cp"} =>
       kernel = Torn /\ source[a] = OwnKernel(next_rootfs)
  /\ pc[a] \in {"u_set_default", "r_set_default"} =>
       kernel = OwnKernel(next_rootfs)
  /\ pc[a] \notin {"u_cp", "r_cp", "u_set_default", "r_set_default"} =>
       kernel = OwnKernel(default)
  /\ pc[a] \in {"u_bakup_cp", "u_cp_open"} =>
       /\ image[next_rootfs].kern # NoFile
       /\ pc[a] = "u_bakup_cp" => source[a] = kernel
  /\ pc[a] \in UpgradePoints \ {"u_cp", "u_set_default"} =>
       kernel_md5[a] = kernel

\* Where a command is, the slots are as it expects.
SlotsAt(a) ==
  /\ pc[a] \in Building \cup Built => default = rootfs
  /\ pc[a] \in {"u_dnf", "u_dnf_run"} \cup Built => next_rootfs \in subvols
  /\ pc[a] \in {"u_snap_bakup", "u_snap_next"} => next_rootfs \notin subvols
  /\ pc[a] = "u_dnf_run" =>
       image[next_rootfs].mixed /\ image[next_rootfs].rel >= image[rootfs].rel
  /\ pc[a] \in Built =>
       ~image[next_rootfs].mixed /\ image[next_rootfs].rel >= image[rootfs].rel
  /\ pc[a] = "u_kernel" /\ image[next_rootfs].kern = NoFile =>
       OwnKernel(next_rootfs) = OwnKernel(rootfs)
  /\ pc[a] \in RollbackPoints => ~warned /\ default = rootfs
  /\ pc[a] \in RollbackPoints \ {"r_kernel"} => next_rootfs \in subvols
  /\ pc[a] # "u_dnf_gone"

\* The slot a rollback would return to holds the previous release.
PreviousSlot ==
  /\ \A a \in Agents :
       /\ pc[a] \notin {"u_dnf", "u_dnf_run"} \cup Built
       /\ ~warned
       /\ rootfs_dic[default] \in subvols
       => previous = image[rootfs_dic[default]].rel
  /\ rootfs \notin Slots => \A a \in Agents : pc[a] = "idle"

LoneInvariant ==
  LoneAgent =>
    /\ MixedKnown
    /\ OwnKernelFile
    /\ \A a \in Agents : KernelAt(a) /\ SlotsAt(a)
    /\ PreviousSlot
    /\ RunsOwnKernel
===========================================================================
