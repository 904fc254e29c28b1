# Verification of meta-overc

TLA+ models of the programs meta-overc puts on an OverC ("cube") machine: a
small host system called *essential*, a control container called *dom0*, and
other containers, all on btrfs volumes. The models follow the source, TLC
checks them on small instances, and TLAPS proves the main results for every
value of the constants. `PROJECT.json` ties each definition to the lines it
stands for.

Paths below are relative to `src/meta-cube/recipes-support/` unless they say
otherwise; `btrfs.py`, `overc.py`, `container.py` and the script `dom0` are
those of `overc-system-agent/files/overc-system-agent-1.2/`.

## 1. The system

### Parts

| part | state it keeps | operations | hard behaviour | what makes it correct | model |
|---|---|---|---|---|---|
| Host upgrade, `Overc/backends/btrfs.py` | subvolumes of the root volume, the default subvolume, kernel files on the boot partition | upgrade, rollback | three durable stores changed in turn without a transaction; power failure; agents without a lock | the next boot runs one complete release with its own kernel; the running, default and factory systems are never lost | `HostUpgrade`, `AtomicUpgrade` |
| Factory reset and clean up, `btrfs.py`, `factory_clean.py`, `factory-reset.service` | the same, the volume of the containers, whether the service is enabled, a lock file | reset of both volumes, clean up at the boots after it | an operator's command and a boot service delete and make subvolumes of the same volumes | what the next boot needs is there and whole; what is left over is removed in the end | `FactoryReset` |
| System agent, `overc`, `overc.py`, `container.py` | `self.retval`, the list `succeeded`, options | system upgrade and rollback, container upgrade, activate, rollback, snapshot, start, stop, delete | one of several steps fails; containers end between query and use | an aborted upgrade undoes what it did; the host comes last | `SystemUpgrade` |
| Web server of the agent, `run_server.py` | none of its own; the directory of images | the routes of README.REST | threads without a lock; downloads and moves cut short | what is answered as ok happened | `RestServer` |
| Running a script, `Overc/utils.py` | pipes, `self.message`, `self.retval` | `Process.run` | the script prints, ends and is polled in any order | an answer tells what the script said; every run ends | `ProcessRun` |
| Container scripts, `container-scripts/dom0`, `lxc` | the snapshot stack of overc-ctl, images | `rpm_upgrade`, `activate`, `rollback_container`, image download | exit statuses not looked at; polling with a limit | a failed activation restores what it replaced | `SystemUpgrade`, `RestServer` |
| Start order, `overc-utils/source/cube-ctl` 1810-1955, `essential-init/files/essential-autostart` | the list `$start_order`, the stack files | resolve dependencies, launch, set stacked rules | text matching of names; containers that end meanwhile; rules about containers that do not run | everything asked for is served once, dependencies first, with its rules | `StartList`, `StartOrder` |
| Container life cycle, `cube-ctl` | `/opt/container/<name>`, runc's state, a status key | add, start, stop, del, rename (pause reaches no statement that changes anything) | several operators, restarts, broken-off adds, an add that removes a rootfs | a live container keeps its rootfs and its name; nothing is lost | `CubeCtl` |
| Reload of dom0, `essential-init/files/reload-dom0-snapshot` | request file, dom0 volume, snapshots | delete and make again at boot | power failure between two commands | dom0 exists after every boot, as it was asked for | `Dom0Life` |
| Boot services, `dom0-init/files/dom0-containers`, `essential-autostart` | a lock file, what runs | start, stop, restart | two systems that start and stop each other | containers are stopped before the machine goes down | `Dom0Life` |
| Shutdown notifier, `container-shutdown-notifier/files/` | none | takes essential down with dom0 | asked first, acted upon later, five seconds; a signal too many hangs essential | the machine follows dom0, in the way that was asked for | `Dom0Life` |
| cube-ctl network rules | namespace files, pid file of the prime | netprime, stack, net | pid file that outlives its container | rules go to the container they are meant for | planned `NetPrime` |
| cube-ctl queries | none | list, info, exec, console | - | - | no: reads only |
| Configuration, `cube-cfg` | `cube.cfg`, attribute files, run-once lists, the data store | set, get, gen, device, attribute and service commands | regeneration flag that some setters do not raise; store and file that differ | what was set is in the next generated configuration | planned `CubeCfg`; its `gen` is in `CubeCtl` |
| Command channel and network control, `cube-cmd`, `nctl` | control and client pipes, ACL tables, sessions | connect, authenticate, run, answer | concurrent sessions over pipes | nothing runs without its permission | no; the notifier's two calls are in `Dom0Life`. `cube-cmd-server` and `cube-cmd-handler` are what nctl replaced |
| Update service, `cube-update/cubeupdated` | pid file, pending file | start, stop, check | pid file tested before it is written, stale pids | one daemon | planned `CubeUpdated` |
| Image construction, `c3-construct` and its commands | files of the image | build | one process | - | no, one straight line |
| Consoles, devices, network tools, lxc overlays, watchdog, init, recipes | little | - | - | - | no: see `PROJECT.json` |

### How they interact

`overc` (in essential) drives class `Btrfs` for the host, and for each
container the script `dom0`, which calls `overc-ctl` (external) and `cube-ctl`.
`cube-ctl` calls `cube-cfg` to write a container's configuration and runs the
`oci.cmd` it makes, hence runc (external). The web server runs the same
methods in threads. essential starts dom0, whose `dom0-containers` calls
`cube-ctl --auto dom0 start`; `essential-autostart` carries a copy of the same
dependency resolution for the containers of essential. Containers ask dom0 and
essential for commands through `cube-cmd` and the command server; machines talk
through `nctl`. What these share is the file system: directories of containers,
kernel files, subvolumes, pipes and pid files, with hardly a lock between them.
That is where the hazards of `PROJECT.json` are.

## 2. The modules

| module | what it models |
|---|---|
| `AtomicUpgrade` | what a host upgrade promises: each command moves, in one step, the release of the next boot, or changes nothing |
| `HostUpgrade` | class `Btrfs`: upgrade and rollback one external command at a time, any number of agents, power failure, both boot entries |
| `HostUpgradeProofs` | theorems about it: any number of agents, then a lone agent, then a kernel cut short |
| `FactoryReset`, `FactoryResetProofs` | extends `HostUpgrade` by the reset of both volumes and the clean-up service; theorems, on top of those about `HostUpgrade` |
| `StartList` | the resolution loop's body as an operator on lists, with the matching of `grep -w` |
| `StartOrder`, `StartOrderProofs` | one run of `cube-ctl start` or of `essential-autostart`; theorems about both |
| `CubeCtl`, `CubeCtlProofs` | add, start, stop, del, rename by several operators, runc, restarts; theorems |
| `SystemUpgrade`, `SystemUpgradeProofs` | the agent's commands over the containers and the host; the host is an instance of `AtomicUpgrade`; theorems |
| `ProcessRun`, `ProcessRunProofs` | one script and the agent that reads its two pipes; theorems |
| `RestServer`, `RestServerProofs` | requests in concurrent threads, the script's steps, the directory of images; theorems |
| `Dom0Life`, `Dom0LifeProofs` | boot to boot: reload, start and shutdown of dom0 and essential, the notifier; theorems |
| `MC...` | instances for TLC |

### HostUpgrade

Variables: `subvols`, `image` (release, kernel file in /boot, half-done
transaction), `default`, `kernel` and `kernel_bakup` (the files on the boot
partition, `Torn` while `cp` writes), `rootfs` and `uname` of what runs, and
for each agent the point it is at (`pc`), what it read and keeps
(`kernel_md5`, `source`). One action is one command of the code (`btrfs`,
`cp`, `dnf`), because the power may fail and another agent may run between any
two. `cp` is two actions: it truncates, then it has written. `dnf` is two:
it has begun, and it has ended one way or the other. `Doomed` is the set that
`_cleanup_subvol` deletes; the code reads the list once and the model asks at
every deletion, which lets other agents' work be deleted as it appears: more
behaviours, not fewer. A slot lost to another agent, or never made, ends the
command with an exception (`UpgradeRaises`). `GoDown` and the two boots are the
machine.

### FactoryReset

To the variables of `HostUpgrade` it adds the volume of the containers (`cvols`,
the subvolumes inside each in `kids`, `cdefault`, `cmounted`), in whose dom0 the
service has been disabled (`disabled`) and has left its lock file (`locked`),
both of which a fresh subvolume is without, and for the operator's reset and the
boot service the point they are at and the listing they work through (`at`,
`listed`): here the list is read once, as what happens between the reading and a
deletion matters. Both tools go through the same cleaning, as both call the same
methods. The service is started at every boot of a normal system, unless it is
disabled or its lock is there; `systemctl disable` (`CleanOver`) and `touch`
(`CleanLock`) are two commands, and the power may fail between them.
`overlapped` is history: when reset and clean up run at the same time, the clean
up can delete what is inside the new default subvolume, which it listed before
(section 5).

### StartOrder

The list is built name by name with `AddToOrder`. `Words[x]` is the set of
names `grep -w` finds `x` in; `ExactWords` says names are told apart. The walk
over the list, the question to the manager (cube-ctl only), the launch, whose exit
status is not looked at, and the walk that sets the network rules are one
action each; a container may end at any point.

A rule of a stack file is told apart by the container whose address it needs,
if it needs one. `Resolved` is what `ip route get` through that container's pid
answers: nothing for one that does not run, whether its `.cube.pid` is missing
(the rule is marked donotrun, cube-ctl 1727-1731) or stale (what is read then is
a word of an error message). A container that runs has the right pid, as every
start writes it. Of the resolved rules `Stack` sets any part: an address may come
later than the question, and no exit status of nsenter is looked at (1750, 1760).
`stacked` is what is in the network namespace, and goes with it; `refused` is
history.

### CubeCtl

A container is in three places: its directory (a stage and the images whose
files lie in it), the manager's table, and a status key. Each command is a
sequence of steps with its registers (`reg`), at the calls where another command
may come between. The models follow the source where it tests a variable that is
never set (cube-ctl 1792, 2252): `stop` always deletes by force, and `del` never
refuses; `StopsFirst` says whether the *operators* stop a container before they
delete it. An add unpacks or copies its rootfs on top of what is there
(`Extract`), or, for move:// and docker://, removes the rootfs (`Clear`, the `rm
-rf` of cube-ctl 1207) and then moves one in (`Place`). It may be broken off at
each of them; `broken` is history and says that one was. Left out: depends files
(`StartOrder`), pause, 'cube' containers, the settings in the directory, an `rm
-rf` cut short.

### SystemUpgrade

A container is the release on its disk and the stack of its snapshots; the
commands push and pop as the comments of the script say overc-ctl does
(dom0 121-136, 204-211). The walk of `_system_upgrade` is a point per
question it asks of the world (`visit`: is_active, `issue`: get_issue,
`check`: check-update, `delall`, `rpm`), because a container may end, and the
feed publish, between them. The host's part is one step of `AtomicUpgrade`:
theorem `UpgradeIsAtomic` is the reason, with its assumptions (one agent, no
power failure within the host's part, set-default works, README 83-84 obeyed:
`system rollback` starts only when no host upgrade failed or waits for its
boot). One operator gives commands, one at a time. `before`, `goal` and
`updated` are history variables for the properties.

### ProcessRun

`plan` is what the script has still to print, a stream per line; a pipe takes
`PipeSize` lines and a full one stops the script. The agent's round is the
code's: `Select`, a read of each stream that is ready in the order of the code,
`Poll`. With liveoutput a read is one line, drawn through a reader that takes
up to `ReaderSize` from the pipe, so that a line may be in neither pipe nor
message. Without, a read goes on to the end of the stream. `Plans` has the
scripts as they are run: without liveoutput only the listing of the containers
is, which leaves the standard error all but empty.

### RestServer

A worker is a thread of the server with one request (`job`: route, container
and the variables of the script) at a step of the script (`pc`). Each call of
wget, mv, overc-ctl and cube-ctl is a step, and any two workers interleave;
`images` is the directory shared by all of them, a file `Torn` while it is
moved in from another file system. `answer` is what the request was answered.
A container that was deleted runs on, but is not listed: an activation then does
not stop it (dom0 171-181). `disturbed` is history: the workers whose container
or image another one changed under way; the code promises nothing to those.

### Dom0Life

Essential goes through the boot (`mounted` to `autostart`, the steps of a
reload), is `up`, has a shutdown job (`down`), waits for dom0 (`waiting`), or
hangs, as the notifier says of an init that gets a signal with a shutdown
pending (`hung`: only the power ends it); dom0 goes through `boot`, `up`, and at
a shutdown `stop` (dom0-containers), `notify` and `tell` (the notifier, which
systemd stops after it, as it was started before it), `end`. The volume of dom0
is a number, a new one each time dom0 writes, so that "as it was asked for" can
be said. The loop of `dom0-containers stop` is over all words of the listing, as
the code has it. `wanted`, `failed`, `asked` (which shutdowns were asked for,
and on which side) and `orderly` are history. `ShutDown` is what dom0's init
does with any signal, whoever sends it.

## 3. What the runs check

Deadlock is checked except where a finished launcher stops (`start_order`) and
in the runs of `FactoryReset`, where a power failure in a kernel copy may leave
a machine that no boot entry starts, and where (`reset_abort`) a machine
without agents has nothing more to do after its resets.

Fairness is assumed in three places, and nowhere else:

- `FactoryReset`: `WF(Clean("clean"))`, the boot service, a program of its own
  that systemd runs and that waits for nobody.
- `ProcessRun`: the script gets on while it can write, and the agent's loop
  gets on; both are processes that the kernel schedules.
- `Dom0Life`: `WF(Essential)` and `WF(Dom0)`: each systemd gets on with its
  services. Nobody has to give a command, no snapshot has to be asked for, and
  the power need not come back.

| run | module, instance | states | question |
|---|---|---|---|
| `host_command` | `HostUpgrade`, one agent, three releases, two kernels, dnf, snapshots and deletions may fail, the installed root has no kernel in /boot | 4,146 | are upgrades and rollbacks atomic as seen from the boots? (`DefaultComplete`, `RunsOwnKernel`, and `AtomicUpgrade` implemented) |
| `host_power` | upgrades with power failures; dnf, deletions and set-default may fail | 11,797 | is there a way to boot when the kernel is cut short (`TornKernelHasBackup`), and are the default, factory and running systems safe (`SystemsPresent`, `RunningUntouched`)? |
| `reset` | `FactoryReset`: the reset, the service, one agent that upgrades, power and snapshots fail, one working directory, one subvolume inside the factory snapshot | 1,686,304 | does every volume keep what the next boot needs, is what runs untouched, is nothing left over when the service is disabled, is the clean up made up for after each reset? |
| `start_order` | `StartOrder`, three containers, every list of names, every choice of depends files without chains and of installed and running containers, no stacked rules or those of one `cube-cfg link`, both launchers | 898,499 | is everything served, once, after its dependency, with the network rules about what is up? |
| `ctl_owners` | `CubeCtl`, three names, two images, two operators with names of their own, adds that unpack and that move, broken off, restarts | 2,324,257 | does a live container keep its rootfs through broken adds; until one breaks off, does it stay reachable, whole, and of one image, and does no container vanish? |
| `sys_agent` | `SystemUpgrade`, dom0 and one more container, two releases, two snapshots, rpm, image, delete, host, start, stop and power fail | 611,152 | does an aborted upgrade undo what it did, does the host come last, does a failed activation restore? |
| `process` | `ProcessRun`, seven lines in any order on two streams, pipes and readers of two | 16,431 | is an answer never silent of a script that was not, is a listing whole, does every run end? |
| `rest` | `RestServer`, two workers, dom0 and one more container, two releases, two snapshots, downloads, moves and starts fail, restarts | 544,352 | is what was answered as ok what happened, and does a failed start put back what it replaced? |
| `dom0_life` | `Dom0Life`, one container besides dom0, three contents, power, deletions and snapshots fail, the notifier times out | 187,184 | is dom0 there after every boot and as asked for, are containers stopped first, does the machine follow dom0, or hang only when a shutdown was asked for on both sides? |

Three more runs each end at a violation, and a finding says what it shows:

| run | property | the code |
|---|---|---|
| `host_power_atomic` | `RunsOwnKernel` | The kernel is copied (btrfs.py 329) before the default subvolume is set (344). A power failure between the two boots the new kernel on the old root; README 5 promises atomic upgrades. |
| `reset_abort` | `AbortedChangesNothing` | The host is reset (btrfs.py 188) before the containers are looked at; when their part fails, "Factory reset aborted!" is said of a machine whose next boot is a factory host. |
| `dom0_restart` | `OnlyWhenAsked` | A missing pipe (dom0-containers 63-64) makes the loop that is to stop all containers "except dom0 itself" stop dom0 too: `dom0-containers restart` powers the machine off. |

Each passing property has a mutant in `PROJECT.json`: a plausible slip in the
code, under which the run finds the property violated.

### Why the bounds are enough

- Three releases: one to come from, one with another kernel, one with the same
  kernel; a rollback and a second upgrade then meet every combination of kept
  and changed kernel. `SystemsPresent` and `RunningUntouched` are proved for
  any number of agents; TLC looks at one, with more faults.
- `FactoryReset`: one working directory at a time is what there can be between
  two resets unless one aborts; one inner subvolume is enough for "some are
  missing". Two tools are all there are. Releases do not matter to it.
- Three containers give a dependency shared by two, and lists in which a
  dependency was asked for before, after, or not at all.
- One link of two containers gives a rule about another container and one about
  none; rules of a third are set or not independently of these.
- Two names per operator: rename needs two. Two images: `OneImage` needs two.
  A third name shows the independence of the second operator.
- Two containers are the least for an abort with something to undo. Two
  snapshots let a rollback go one too far. MaxHistory only stops *new*
  commands; a command under way is never cut by it. Two releases give "newer"
  and "not newer"; with more, a container would only be further behind.
- `ProcessRun`: seven lines fill a pipe and a reader of two each and leave a
  line for the script to wait with, on both streams. The safety properties are
  proved for all sizes.
- `RestServer`: two requests are the least that meet; a third would add
  nothing that a second one after the first cannot do to a worker, which sees
  the others only through container and image.
- `Dom0Life`: three contents are an installed dom0, a snapshot, and work after
  it; the history file then holds a name whose snapshot is there, is gone, or
  is the volume's own. Containers meet nowhere but in the loop that stops them.

## 4. What is proved

Every safety invariant and every action property of the passing runs is a
theorem, for every value of the constants under the assumptions the modules
name (`ConstantsAssumption`, `VolumesAssumption`, `WordsAssumption`,
`DependenciesAssumption`, `CubeCtlAssumption`, `SystemAssumption`,
`ProcessAssumption`, `ServerAssumption`, `LifeAssumption`: that bounds are
numbers, that tables are functions, that names which differ in the code are
different values) and the hypotheses in the third column. Each is proved from
an inductive invariant that TLC checked first on the instance of its run.

| theorem | property | hypotheses |
|---|---|---|
| `TypeCorrect` | `HostUpgrade!TypeOK` | none |
| `SystemsNeverLost`, `RunningNeverTouched` | `SystemsPresent`, `RunningUntouched` | none: any number of agents, any faults |
| `LoneInvariantHolds`, `DefaultStaysComplete`, `KernelMatchesRoot` | the invariant `LoneInvariant`, `DefaultComplete`, `RunsOwnKernel` | `LoneAgent`: one agent, no power or set-default failure, notes obeyed |
| `UpgradeIsAtomic` | `ImplementsAtomicUpgrade` | `LoneAgent` |
| `BackupWhenTorn` | `TornKernelHasBackup` | `LoneUpgrader`: one agent that upgrades and never rolls back, snapshots work; power, dnf, deletions and set-default may fail |
| `ResetTypeCorrect`, `VolumesNeverLost`, `NextContainersAreWhole`, `InUseNeverTouched` | `ResetTypeOK`, `VolumesPresent`, `NextContainersWhole`, `InUseUntouched` | none |
| `DisabledMeansClean` | `DisabledIsClean` | deletions of subvolumes work |
| `StartTypeCorrect`, `RulesAreSet` | `StartOrder!TypeOK`, `RequestedIsStacked` | none |
| `NothingLaunchedTwice`, `EverythingServed`, `DependenciesFirst` | `LaunchedOnce`, `AllServed`, `DependencyServedFirst` | `PlainDependencies`: no name a word of another, no dependency with a dependency |
| `CubeCtlTypeCorrect` | `CubeCtl!TypeOK` | none |
| `RootfsStays`, `NoContainerOrphaned`, `NoContainerLost`, `RootfsOfOneImage` | `LiveKeepsRootfs`, `LiveIsInstalled`, `NothingLost`, `OneImage` | `OwnNames`: each operator its own names, stops before it deletes |
| `SystemTypeCorrect` | `SystemUpgrade!TypeOK` | none |
| `AbortUndoesAll`, `ActivationUndone` | `AbortUndoes`, `ActivateUndoes` | rollbacks of containers succeed |
| `HostAfterContainers` | `HostComesLast` | check-update works |
| `ProcessTypeCorrect` | `ProcessTypeOK` | none |
| `NoSilentAnswer`, `ListingsAreWhole` | `NeverSilent`, `ListingWhole` | none |
| `ServerTypeCorrect`, `FailedStartIsUndone` | `ServerTypeOK`, `FailedStartUndone` | none |
| `OkMeansUpgraded` | `OkIsUpgraded` | installations work |
| `LifeTypeCorrect`, `Dom0AlwaysStartable`, `DownOnlyAsAsked`, `ReloadsAsAsked`, `ContainersStoppedFirst` | `LifeTypeOK`, `Dom0Startable`, `DownAsAsked`, `StartsAsAsked`, `ContainersStopFirst` | none |

**HostUpgrade.** `SystemsPresent` is inductive with type correctness and two
facts about control (`TInv`): a busy agent runs on a slot, and the `cp` of a
kernel has a source. What no command may delete is the running root (the test
in `_cleanup_subvol`), `.factory` (its exclude list) and the default (btrfs
refuses). For the lone agent the property alone is far from inductive: that the
kernel on the boot partition is the default root's needs to know which kernel
lies there at each point (`KernelAt`), that a complete root without a kernel
file was installed with the kernel that is saved or runs (`OwnKernelFile`),
that a half-done slot is neither default nor running and the operator knows
(`MixedKnown`), and where the slots are (`SlotsAt`). `PreviousSlot` is added for
the refinement: the abstract `fallback` is what the other slot really holds.
The two set-default steps map to `Deploy` and `Return`, boots and going down to
themselves, all else to stuttering.

A kernel cut short is another matter: there the power fails, and little of
`LoneInvariant` is left. `BackupInv` keeps what the backup entry needs: the
default, the running and the backup root are complete (`RootsComplete`), the
backup root is there from its snapshot on (`BackupRoot`), and the boot kernel is
torn only by the agent that copies it, or was when the machine went down, after
the running kernel had been saved (`BackupKernel`). Rollbacks are left out
because they save no kernel before they write (section 5).

**FactoryReset.** Tools delete from a list read before, so the invariant is
about lists (`ListInv`): what is listed for deletion is neither `.factory` nor,
of the containers, mounted; that the default is spared follows from `btrfs`,
which refuses it, and from `DefaultInv`: until it goes down for its reboot a
reset leaves the containers' default where the machine runs. `WholeInv`: a reset
that has the machine for itself finds in its working directory, or still on its
list, all that the factory snapshot holds. `CleanInv` does the same for the
service: what is left over is on its list with everything inside it, or a reset
has it in hand (`InHand`): it is the working directory, and the reset builds it,
or has failed and its own clean up is still to come to it. Any other leftover
would have to be gone, a working directory of an earlier reset too. It needs
working deletions: the service passes over what btrfs refuses and is disabled
all the same. The root volume's part is that of `HostUpgrade`, whose lemmas
about single commands (`DeleteRootInv`, `FactorySnapshotInv`) say that a
deletion or a snapshot of the tools disturbs an agent no more than another
agent's does.

**StartOrder.** `OrderInv`: the list has no name twice and each name's
dependency in front of it; names whose turn in the request is over are on it;
what was launched or served is the part of the list that was walked. The lemma
`AddToOrderOrderly` carries the work: one iteration keeps the list orderly. Both
hypotheses are needed: `grep -w` finds "db" in "web-db", and then a container
that was asked for is not started; and with `b` depending on `a` depending on
`c` the request `b` never puts `c` on the list, so that `a` is launched before
`c` (cube-ctl 1850 does not look at the dependency's own file). The network
rules need neither, as the last walk of cube-ctl is over the request and not
over the list: `StackInv` says that of each name it went past that still runs,
every rule about what still runs is in its namespace or was refused in the walk
(`refused`). It cannot say more: a rule about a container that is down is not
set, and nobody sets it when that container comes up.

**CubeCtl.** `LiveKeepsRootfs` is about what a step takes away, so its invariant
`CtlInv` is about control: a live container has a configuration
(`LiveIsStartable`), and a command in progress knows something of its names
(`Holds`): they are its operator's, at the steps that delete or move a directory
the container is not live, and where an add removes a rootfs the lists do not
count the name. That is the whole protection: a live container that the lists do
not count may lose its rootfs (section 5). A step of one operator leaves the
others' names alone (`Untouched`), so only its own are to be looked at. For
`LiveIsInstalled`, `CleanInv` adds that, as long as no add was broken off, an
unpacked directory belongs to an add at work and that what is unpacked next goes
into nothing. `PureInv` adds that a directory is made of one image, or has none
and waits for the add that moves one in (`Waits`), and an absent one of none.
The lemma `CleanUntilBroken` carries all three theorems about the time before an
add is broken off: `CleanInv` holds until then. `NoContainerLost` looks at the
two steps that can take a name away, the `rm -rf` of a deletion and the `mv` of
a rename, whose target is free.

**SystemUpgrade.** `WalkInv`: the walk of a system upgrade sees each container
once; what it upgraded is on the list of the succeeded with its old release on
top of its snapshots (`Saved`), or an abort took it off that list and put it
back. That the list names nobody twice matters: a second rollback would pop a
second snapshot. The hypothesis is the code's: the abort goes on whatever its
rollbacks return (overc.py 82), and after one that failed the container stays
new. `GoalInv`: what the walk counted as succeeded is as new as the feed was
when it began, unless the check for updates failed, which the script answers
like "nothing to do". `ActivateInv` does for the activation what `Saved` does
for the upgrade.

**ProcessRun.** `RunInv` ties what was printed, drawn and handed on to where
the agent is. The end of a stream is only seen when its pipe and its reader are
empty and the script has closed it; the exit is seen by a poll after a round;
and a script that exits has closed its pipes before. So a script that has ended
with something unread still shows it to the select of the round before the
poll, and at least one line of it is read: never silent, though with
liveoutput not always whole. Without liveoutput the read of the standard output
lasts until the script closes it (`Silent`, `Mute` and `Heard` say what is known
of each stream).

**RestServer.** Nothing is locked, so the invariant speaks of each worker that
no other one disturbed. Left alone, an activation finds on top of the history
what it replaced (`CanUndo`); an upgrade by image still has to pull its image
or has one at least as new as its goal, then has a container as new, then knows
what it replaced (`Relies`). The steps of the other workers are one lemma: a
step that changes a container or an image marks all workers about it as
disturbed, and one that does not leaves what is said of them true
(`OthersGood`). `OkMeansUpgraded` asks for installations that
work because dom0 183 does not look at theirs: after one that failed the old
release starts, and the request is answered as ok.

**Dom0Life.** `ReloadInv`: from the first to the last command of a reload the
snapshot that was asked for is on the disk or is what the volume was made of,
and when dom0 starts the snapshot is gone; so a power failure between any two of
them leaves what the next boot needs. `AskedInv`: the job a system goes down
with was asked for by an operator, in dom0 or in essential, or handed on by the
other system. `StoppedInv`: while dom0 goes down, what still runs is on the list
of the loop.

Only model-checked: the liveness properties `CleanedInTheEnd`, `Answered` and
`MachineFollows`. Liveness under fairness, and ENABLED, are out of the prover's
reach. So is the property of the three runs that end at a violation, for the
better reason that it does not hold.

## 5. Where model and code part, and what else was seen

External, from how the code uses them: btrfs, dnf, cp, runc, overc-ctl, wget,
systemd, the boot loader, the package feed, operators.

Divergences met without a run of their own:

*Host, reset and clean up*

- In the backup system `Btrfs.__init__` raises KeyError at btrfs.py 39, before
  the refusals written for the backup mode (action `InitFails`).
- btrfs.py 324: the backup root is renewed by every upgrade, the backup kernel
  only by one that changes the kernel, so the backup entry may pair an older
  kernel with a newer root.
- btrfs.py 378 assigns the rollback kernel's checksum to another variable, so
  the kernel is copied at every rollback. A rollback saves no kernel first, so a
  power failure within that needless copy, with no bzImage_bakup yet, leaves
  neither boot entry a kernel. `TornKernelHasBackup` is therefore checked of
  upgrades (`host_power`), which do save it; with two agents the second may
  save the file the first is writing. A reset saves no kernel either
  (btrfs.py 193), and where the factory root has no kernel in /boot it leaves
  the upgraded one under the factory root.
- factory-reset.service 9-10 disables the service and then touches its lock. A
  power failure in between leaves it disabled without a lock, which does no harm,
  as disabling alone keeps it from starting; the lock never decides.
- The half-made working directory of an aborted reset that ran beside the clean
  up stays when the power cuts off the reset's own clean up after the service was
  disabled, until a later reset brings the next one.
- Two concurrent upgrades delete each other's slot (btrfs.py 142); the agent
  that loses it ends with an exception (`UpgradeRaises`).
- A reset that overlaps the clean-up service can have the inner subvolumes of
  its new default deleted, since the service works through a list it made
  before (btrfs.py 147). `NextContainersWhole` is for tools that do not overlap.
- An aborted reset cannot be repeated before the reboot: the fresh slot is the
  default by then, which btrfs does not delete, so the clean check at
  btrfs.py 169 aborts again, after it has deleted the backup system. The
  working directory of the aborted reset stays until the next clean up.

*Agent, web server and scripts*

- overc.py 82 rolls back every container upgraded so far, also those that had
  nothing to upgrade, to whatever snapshot they have. overc.py 84 overwrites
  `self.retval`: an aborted system upgrade may exit with 0 (`exit`).
- dom0 183 does not look at the image upgrade's status: when it fails and the
  start fails, the rollback goes one version too far. `ActivateUndoes` is for
  activations whose image was installed.
- dom0 347 takes a check-update that fails for one that finds nothing; fault
  "check" has it, and with it `HostComesLast` would not hold.
- dom0 213: when a rollback of an abort fails (fault "rollback") its container
  stays upgraded, and the loop goes on.
- run_server.py 43 and 93 call methods without arguments they require, and the
  method called at 22 reads command line arguments nobody has set: these routes
  always answer 500.
- A request with image=yes and rpm=yes does a package upgrade; README.REST 113
  says otherwise. dom0 can be deleted by a request while its start and stop are
  refused.
- A start that fails in an upgrade ends in a rollback whose script exits with 0:
  the request is answered as ok, with the old release and the container stopped.
  A deleted container that still runs is not listed, so an activation installs
  it anew without stopping it (dom0 171-181). An upgrade by image of a
  container of which no image is pulled installs whatever file lies in the
  directory.
- utils.py 82: with liveoutput, lines that wait in the pipe or in the reader
  when the script has ended are not part of the answer; the listing of the
  snapshots (container.py 125) may lose its last ones. Without liveoutput a
  script that fills the pipe that is not being read waits for ever, and so
  does the agent; only the listing of the containers is run so, and it prints
  little on its standard error.

*Containers*

- cube-ctl 1792: `del` tests a misspelled variable (`open_container_running`),
  so that a running container's directory is purged and the container left,
  where 167-168 and 1806 say it is stopped or refused.
- cube-ctl 1854: names are looked for with `grep -w` (section 4).
- cube-ctl 1952 sets the network rules for the names given, not for those
  started: a container started as a dependency gets none.
- A network rule that cube-ctl could not set is lost: a container whose address
  is not there yet, or comes up later, is not asked again until the next start
  (donotrun, 1727-1731 and 1743-1746); of iptables' failures nobody is told (1750,
  1760); and `.cube.pid` is removed by nobody, so the pid read at 1705 may be that
  of a container that ended. The property is about rules that could be set.
- cube-ctl 1207 removes the rootfs of a name that is not *known*, and a container
  can live under such a name: an add that broke off leaves a directory without a
  manager, a rename onto that name generates a configuration in it, start asks
  for no more than that, and the next add that moves its rootfs in removes the
  one under the running container. TLC finds this when `LiveKeepsRootfs` is
  stated for every live container.
- cube-ctl 1423 restarts a renamed container under its old name, so it stays
  stopped.

*Boot and shutdown*

- reload-dom0-snapshot looks at no exit status. When the snapshot command (20)
  fails after the deletion, dom0 is gone and line 21 deletes what it was to
  come from; when the deletion (19) fails, the old dom0 stays and the snapshot
  is deleted all the same. After a power failure past line 21 the request stays
  and every later boot reports an error, harmlessly.
- The notifier sends its signal only when essential has no shutdown pending,
  "else systemd will hang" (14-15), but it asks first and sends afterwards. A
  reboot given in dom0 and one given in essential can cross: essential takes its
  own up between the answer and the signal, and hangs by the script's own words.
  TLC finds this in seven steps when `essential # "hung"` is added as an
  invariant of `dom0_life`. `MachineFollows` allows the hang in this case only,
  so one shutdown alone is shown never to come back to where it began.
- After its five seconds nothing is sent, and the machine stays up without dom0.
  A `halt` in dom0 sends nothing either.
- A shutdown that comes while dom0 still starts its containers stops none of
  them: the service is not up, so its stop is not run (`orderly`).

Not modelled in the modelled parts: `package.py` (nothing calls it),
`logger.py`, `setup.py`, the overlays of `container.py` 187-257 (disabled at
line 76, and they end in an AttributeError), cube-ctl's devices and settings,
firmware-sync, essential-opt-mount.

## 6. Plan

1. Proofs: that a request `RestServer` serves undisturbed does to its container
   what the command of `SystemUpgrade` does (a refinement for one worker);
   `TornKernelHasBackup` for agents that also roll back once a kernel was
   saved; the state invariants of `AtomicUpgrade` itself, which `SystemUpgrade`
   relies on.
2. `NetPrime`: the two-phase switch of the prime container (cube-ctl
   2074-2227) with pid files that outlive their container.
3. `CubeCfg`: regeneration flag, run-once lists, attributes, data store.
   Property: a configuration generated after a change contains it.
4. `CubeUpdated` (pid file: one daemon, and a stop reaches it), then `nctl`.

Where a new module needs a run, a run whose question a theorem or a broader
run answers gives way.
