------------------------------ MODULE Dom0Life ------------------------------
(***************************************************************************)
(* The life of dom0 between one boot of the machine and the next: its      *)
(* volume made again from a snapshot (reload-dom0-snapshot), its start by  *)
(* essential (essential-autostart), the containers it starts and stops     *)
(* (dom0-containers), and the two shutdowns that have to find each other:  *)
(* one begun in dom0 has to take essential down (container-shutdown-       *)
(* notifier), one begun in essential waits for dom0 (essential-autostart   *)
(* stop).                                                                  *)
(*                                                                         *)
(* Two systems are at work, each with a systemd that runs its services one *)
(* after the other, in the order the units ask for, and in the opposite    *)
(* order at a shutdown.  The power may fail between any two commands, and  *)
(* somebody may run `dom0-containers restart' or stop essential-autostart. *)
(*                                                                         *)
(* Abstractions.  What a volume holds is a number, a new one whenever dom0 *)
(* writes; a snapshot is named by what it holds, so that names are not     *)
(* used twice.  overc-ctl, which takes snapshots and asks for a reload, is *)
(* not part of this repository.  The subvolumes inside the volume of dom0  *)
(* are deleted with it.  That /var/lock is empty after a boot is assumed.  *)
(***************************************************************************)
EXTENDS Naturals, FiniteSets

CONSTANTS
  Containers, \* the containers besides dom0
  MaxWork,    \* bound on what dom0 writes and snapshots
  Faults      \* "power", "timeout", "delete", "snapshot": what may fail

ASSUME LifeAssumption == MaxWork \in Nat \ {0} /\ "dom0" \notin Containers

None     == 0
Contents == 1..MaxWork
Kinds    == {"reboot", "poweroff", "halt"}
Places   == {"dom0", "essential"}

VARIABLES
  volume,    \* what /opt/container/dom0 holds, or None
  made,      \* the last number given
  snaps,     \* the snapshots of dom0
  listed,    \* the names in .container_history
  need,      \* the name in .need_reload, or None for no such file
  essential, \* the step essential is at
  pending,   \* the shutdown essential has a job for, or "none"
  dom0,      \* the step dom0 is at
  target,    \* the shutdown dom0 has a job for, or "none"
  todo,      \* what the stop of the service still has to stop
  hand,      \* and what a restart by hand still has to
  lock,      \* /var/lock/dom0 is there
  running,   \* containers that run, without dom0
  wanted,    \* history: the reload asked for since dom0 was last started
  failed,    \* history: a btrfs command of a reload failed
  asked,     \* history: <<where, kind>> of the shutdowns somebody asked for
             \* since the boot
  orderly    \* history: since the boot nobody stopped a service by hand, no
             \* shutdown came before dom0 was up, and nothing timed out

store   == <<volume, made, snaps, listed, need, wanted, failed>>
machine == <<essential, pending>>
system  == <<dom0, target, todo, lock>>
vars    == <<store, machine, system, hand, running, asked, orderly>>

BootSteps == {"mounted", "delete", "snapshot", "drop", "unlist", "unask",
              "autostart"}
Cubes     == Containers \cup {"dom0"}

\* What runs by hand: nothing, a loop over what is left to stop, or a start.
Hands == {<<"none", {}>>, <<"start", {}>>} \cup ({"stop"} \X SUBSET Cubes)

NoHand == <<"none", {}>>

LifeTypeOK ==
  /\ volume \in {None} \cup Contents /\ made \in Contents
  /\ snaps \subseteq 1..made /\ listed \subseteq 1..made
  /\ need \in 0..made
  /\ essential \in BootSteps \cup {"off", "up", "down", "waiting", "hung"}
  /\ pending \in {"none"} \cup Kinds
  /\ pending # "none" <=> essential \in {"down", "waiting", "hung"}
  /\ dom0 \in {"off", "boot", "up", "stop", "notify", "tell", "end"}
  /\ dom0 # "off" => essential \in {"up", "down", "waiting", "hung"}
  /\ target \in {"none"} \cup Kinds
  /\ target # "none" <=> dom0 \in {"stop", "notify", "tell", "end"}
  /\ todo \subseteq Cubes /\ (dom0 # "stop" => todo = {})
  /\ hand \in Hands /\ (dom0 = "off" => hand = NoHand)
  /\ lock \in BOOLEAN /\ (dom0 = "up" /\ hand = NoHand => lock)
  /\ running \subseteq Containers
  /\ wanted \in {None} \cup Contents /\ failed \in BOOLEAN
  /\ asked \subseteq Places \X Kinds /\ orderly \in BOOLEAN

Init ==
  /\ volume = 1 /\ made = 1 /\ snaps = {} /\ listed = {} /\ need = None
  /\ essential = "mounted" /\ pending = "none"
  /\ dom0 = "off" /\ target = "none" /\ todo = {} /\ hand = NoHand
  /\ lock = FALSE /\ running = {}
  /\ wanted = None /\ failed = FALSE /\ asked = {} /\ orderly = TRUE

---------------------------------------------------------------------------
(* reload-dom0-snapshot, before essential-autostart                        *)

Booting(from, to) ==
  /\ essential = from /\ essential' = to
  /\ UNCHANGED <<pending, system, hand, running, wanted, made, asked,
                 orderly>>

\* Mutant: the request is taken as it is.
ReloadUnchecked ==
  /\ Booting("mounted", IF need = None THEN "autostart" ELSE "delete")
  /\ UNCHANGED <<volume, snaps, listed, need, failed>>

\* Without a request the service is not run; without the snapshot it gives up,
\* and the request stays.
Reload ==
  /\ Booting("mounted", IF need \in snaps THEN "delete" ELSE "autostart")
  /\ UNCHANGED <<volume, snaps, listed, need, failed>>

\* Mutant: the subvolumes inside are not deleted first, and btrfs refuses.
DeleteVolumeNested ==
  /\ Booting("delete", "snapshot")
  /\ UNCHANGED <<volume, snaps, listed, need, failed>>

DeleteVolume ==
  /\ Booting("delete", "snapshot")
  /\ volume' = None
  /\ UNCHANGED <<snaps, listed, need, failed>>

\* Into a directory that is still there, the snapshot goes under its own name.
MakeVolume ==
  /\ Booting("snapshot", "drop")
  /\ volume' = IF volume = None /\ need \in snaps THEN need ELSE volume
  /\ UNCHANGED <<snaps, listed, need, failed>>

\* Whether there is a volume now is not asked.
DropSnapshot ==
  /\ Booting("drop", "unlist")
  /\ snaps' = snaps \ {need}
  /\ UNCHANGED <<volume, listed, need, failed>>

\* No exit status is looked at.
CommandFails(from, to, fault) ==
  /\ fault \in Faults
  /\ Booting(from, to)
  /\ failed' = TRUE
  /\ UNCHANGED <<volume, snaps, listed, need>>

DeleteVolumeFails == CommandFails("delete", "snapshot", "delete")
MakeVolumeFails   == CommandFails("snapshot", "drop", "snapshot")
DropSnapshotFails == CommandFails("drop", "unlist", "delete")

Unlist ==
  /\ Booting("unlist", "unask")
  /\ listed' = listed \ {need}
  /\ UNCHANGED <<volume, snaps, need, failed>>

Unask ==
  /\ Booting("unask", "autostart")
  /\ need' = None
  /\ UNCHANGED <<volume, snaps, listed, failed>>

---------------------------------------------------------------------------
(* essential-autostart                                                     *)

\* Only a directory that is there is started.
Autostart ==
  /\ essential = "autostart" /\ essential' = "up"
  /\ dom0' = IF volume = None THEN "off" ELSE "boot"
  /\ wanted' = None
  /\ UNCHANGED <<volume, made, snaps, listed, need, failed, pending, target,
                 todo, lock, hand, running, asked, orderly>>

\* dom0's systemd takes a shutdown up: the services stop in the opposite order
\* of their start.  A start that is under way is ended, and then nothing is
\* stopped; a shutdown that is under way is not replaced by another.
ShutDown(kind) ==
  \/ /\ dom0 \in {"boot", "up"}
     /\ target' = kind
     /\ IF dom0 = "boot" THEN dom0' = "notify" /\ todo' = {}
                         ELSE dom0' = "stop" /\ todo' = Cubes
  \/ /\ dom0 \notin {"boot", "up"}
     /\ UNCHANGED <<dom0, target, todo>>

\* The stop at a shutdown: SIGINT to the leader of dom0, which is a reboot to
\* it, unless dom0 has none.
TellDom0 ==
  /\ essential = "down" /\ essential' = "waiting"
  /\ ShutDown("reboot")
  /\ orderly' = (orderly /\ dom0 # "boot")
  /\ UNCHANGED <<store, pending, lock, hand, running, asked>>

\* What runs without dom0 ends with essential.
Off ==
  /\ essential' = "off" /\ pending' = "none"
  /\ dom0' = "off" /\ target' = "none" /\ todo' = {} /\ hand' = NoHand
  /\ lock' = FALSE /\ running' = {} /\ asked' = {} /\ orderly' = TRUE
  /\ UNCHANGED store

\* Mutant: essential does not wait.
GoDownAtOnce == essential = "waiting" /\ Off

\* `tail --pid' returns when dom0 is gone.
GoDown ==
  /\ essential = "waiting" /\ dom0 = "off"
  /\ Off

Essential ==
  \/ Reload \/ DeleteVolume \/ MakeVolume \/ DropSnapshot \/ Unlist \/ Unask
  \/ DeleteVolumeFails \/ MakeVolumeFails \/ DropSnapshotFails
  \/ Autostart \/ TellDom0 \/ GoDown

---------------------------------------------------------------------------
(* dom0-containers, started and stopped by dom0-ctl-core.service           *)

\* cube-ctl --auto dom0 start, one container at a time.
StartOne(c) ==
  /\ dom0 = "boot" /\ ~lock
  /\ c \notin running /\ running' = running \cup {c}
  /\ UNCHANGED <<store, machine, system, hand, asked, orderly>>

\* Mutant: the lock is not touched.
StartedUnlocked ==
  /\ dom0 = "boot" /\ dom0' = "up"
  /\ UNCHANGED <<store, machine, target, todo, lock, hand, running, asked,
                 orderly>>

\* All are started, failed to start, or another start holds the lock.
Started ==
  /\ dom0 = "boot" /\ dom0' = "up"
  /\ lock' = TRUE
  /\ UNCHANGED <<store, machine, target, todo, hand, running, asked, orderly>>

\* The loop is over every word of the listing, as the awk program that was to
\* choose among them is an argument of `cube-ctl list' (a pipe is missing): it
\* comes to dom0 too, which is told to power off, and is about to end anyway.
StopOne(c) ==
  /\ dom0 = "stop" /\ c \in todo
  /\ todo' = todo \ {c}
  /\ running' = running \ {c}
  /\ UNCHANGED <<store, machine, dom0, target, lock, hand, asked, orderly>>

Stopped ==
  /\ dom0 = "stop" /\ todo = {}
  /\ dom0' = "notify" /\ lock' = FALSE
  /\ UNCHANGED <<store, machine, target, todo, hand, running, asked, orderly>>

---------------------------------------------------------------------------
(* container-shutdown-notifier, stopped after dom0-ctl-core                *)

\* Mutant: the question is left out.
NotifyUnasked ==
  /\ dom0 = "notify" /\ dom0' = "tell"
  /\ UNCHANGED <<store, machine, target, todo, lock, hand, running, asked,
                 orderly>>

\* Essential is asked whether a shutdown is pending, within five seconds.
Notify ==
  /\ dom0 = "notify"
  /\ dom0' = IF pending = "none" THEN "tell" ELSE "end"
  /\ UNCHANGED <<store, machine, target, todo, lock, hand, running, asked,
                 orderly>>

\* A signal to an init that has a shutdown pending hangs it.
Hang == essential # "up" /\ essential' = "hung" /\ UNCHANGED pending

\* Mutant: the signals are swapped.
TellEssentialSwapped ==
  /\ dom0 = "tell" /\ dom0' = "end"
  /\ \/ target = "halt" /\ UNCHANGED machine
     \/ /\ target # "halt" /\ essential = "up" /\ essential' = "down"
        /\ pending' = IF target = "reboot" THEN "poweroff" ELSE "reboot"
     \/ target # "halt" /\ Hang
  /\ UNCHANGED <<store, target, todo, lock, hand, running, asked, orderly>>

\* The command sent to essential's init: a reboot or a poweroff as in dom0, and
\* none for another target.  The answer may be out of date: a shutdown that
\* essential has begun since it was asked meets the signal.
TellEssential ==
  /\ dom0 = "tell" /\ dom0' = "end"
  /\ \/ target = "halt" /\ UNCHANGED machine
     \/ /\ target # "halt" /\ essential = "up"
        /\ essential' = "down" /\ pending' = target
     \/ target # "halt" /\ Hang
  /\ UNCHANGED <<store, target, todo, lock, hand, running, asked, orderly>>

\* The five seconds are for both.
TimesOut ==
  /\ "timeout" \in Faults
  /\ dom0 \in {"notify", "tell"} /\ dom0' = "end"
  /\ orderly' = FALSE
  /\ UNCHANGED <<store, machine, target, todo, lock, hand, running, asked>>

Ended ==
  /\ dom0 = "end" /\ dom0' = "off" /\ target' = "none"
  /\ hand' = NoHand
  /\ UNCHANGED <<store, machine, todo, lock, running, asked, orderly>>

Dom0 ==
  \/ \E c \in Containers : StartOne(c)
  \/ Started
  \/ \E c \in Cubes : StopOne(c)
  \/ Stopped \/ Notify \/ TellEssential \/ TimesOut \/ Ended

---------------------------------------------------------------------------
(* Operators, overc-ctl and the power                                      *)

\* dom0 writes to its volume, an upgrade for instance.
Work ==
  /\ dom0 = "up" /\ made < MaxWork
  /\ made' = made + 1 /\ volume' = made'
  /\ UNCHANGED <<snaps, listed, need, wanted, failed, machine, system, hand,
                 running, asked, orderly>>

TakeSnapshot ==
  /\ dom0 = "up" /\ made < MaxWork
  /\ made' = made + 1 /\ volume' = made'
  /\ snaps' = snaps \cup {made'} /\ listed' = listed \cup {made'}
  /\ UNCHANGED <<need, wanted, failed, machine, system, hand, running, asked,
                 orderly>>

\* By the history file, whether the snapshot is there or not.
AskReload ==
  /\ dom0 = "up"
  /\ \E s \in listed :
       /\ need' = s
       /\ wanted' = IF s \in snaps THEN s ELSE None
  /\ UNCHANGED <<volume, made, snaps, listed, failed, machine, system, hand,
                 running, asked, orderly>>

StartContainer(c) ==
  /\ dom0 = "up"
  /\ c \notin running /\ running' = running \cup {c}
  /\ UNCHANGED <<store, machine, system, hand, asked, orderly>>

ShutDownDom0(kind) ==
  /\ dom0 \in {"boot", "up"}
  /\ ShutDown(kind)
  /\ asked' = asked \cup {<<"dom0", kind>>}
  /\ orderly' = (orderly /\ dom0 # "boot")
  /\ UNCHANGED <<store, machine, lock, hand, running>>

ShutDownEssential(kind) ==
  /\ essential = "up" /\ kind # "halt"
  /\ essential' = "down" /\ pending' = kind
  /\ asked' = asked \cup {<<"essential", kind>>}
  /\ UNCHANGED <<store, system, hand, running, orderly>>

\* `dom0-containers restart': a stop, then a start.
Restart ==
  /\ dom0 = "up" /\ hand = NoHand
  /\ hand' = <<"stop", Cubes>>
  /\ orderly' = FALSE
  /\ UNCHANGED <<store, machine, system, running, asked>>

\* For dom0 it is `machinectl stop dom0', SIGRTMIN+4 to its init: it powers off.
RestartStops ==
  /\ hand[1] = "stop"
  /\ \E c \in hand[2] :
       /\ hand' = <<"stop", hand[2] \ {c}>>
       /\ running' = running \ {c}
       /\ IF c = "dom0" THEN ShutDown("poweroff")
                        ELSE UNCHANGED <<dom0, target, todo>>
  /\ UNCHANGED <<store, machine, lock, asked, orderly>>

RestartUnlocks ==
  /\ hand = <<"stop", {}>>
  /\ hand' = <<"start", {}>>
  /\ lock' = FALSE
  /\ UNCHANGED <<store, machine, dom0, target, todo, running, asked, orderly>>

RestartStarts ==
  /\ hand[1] = "start"
  /\ IF lock THEN UNCHANGED <<running, lock>>
     ELSE /\ running' \in SUBSET Containers /\ running \subseteq running'
          /\ lock' = TRUE
  /\ hand' = NoHand
  /\ UNCHANGED <<store, machine, dom0, target, todo, asked, orderly>>

\* `systemctl stop essential-autostart' with no shutdown pending: dom0 is
\* killed, and the containers run on.
StopAutostart ==
  /\ essential = "up" /\ dom0 # "off"
  /\ dom0' = "off" /\ target' = "none" /\ todo' = {} /\ hand' = NoHand
  /\ lock' = FALSE
  /\ orderly' = FALSE
  /\ UNCHANGED <<store, machine, running, asked>>

PowerLoss == "power" \in Faults /\ essential # "off" /\ Off

PowerOn ==
  /\ essential = "off" /\ essential' = "mounted"
  /\ UNCHANGED <<store, pending, system, hand, running, asked, orderly>>

Next ==
  \/ Essential \/ Dom0
  \/ Work \/ TakeSnapshot \/ AskReload
  \/ \E c \in Containers : StartContainer(c)
  \/ \E kind \in Kinds : ShutDownDom0(kind) \/ ShutDownEssential(kind)
  \/ Restart \/ RestartStops \/ RestartUnlocks \/ RestartStarts
  \/ StopAutostart \/ PowerLoss \/ PowerOn

\* Each systemd gets on with its services; nobody has to give a command, and
\* the power need not come back.
Spec == Init /\ [][Next]_vars /\ WF_vars(Essential) /\ WF_vars(Dom0)

---------------------------------------------------------------------------
(* Properties                                                              *)

\* However often the power fails during a reload, dom0 is there when essential
\* starts it, unless a btrfs command failed (reload-dom0-snapshot:19-23).
Dom0Startable ==
  essential \in {"autostart", "up"} /\ ~failed => volume # None

\* A reload that was asked for is complete when dom0 starts next, and dom0 is
\* never put back otherwise: a request that was left over takes nothing away
\* (reload-dom0-snapshot:7-11).
StartsAsAsked ==
  [][ /\ volume' # volume /\ dom0 = "off" => wanted # None
      /\ essential = "autostart" /\ essential' = "up" /\ ~failed
           => wanted \in {None, volume} ]_vars

\* The machine goes down, but for the power, after every container was stopped,
\* wherever the shutdown began (essential-autostart:16-18, dom0-containers:63).
ContainersStopFirst == [][ GoDown /\ orderly => running = {} ]_vars

Asked(where, kind) == <<where, kind>> \in asked

\* A reboot or poweroff of dom0, whoever sent it, takes the machine with it,
\* unless dom0 was killed or essential did not answer.  Essential may hang on
\* the way only when somebody asked for a shutdown on either side: one shutdown,
\* wherever it begins, never comes back to where it began
\* (container-shutdown-notifier:3-16).
MachineFollows ==
  target \in {"reboot", "poweroff"} ~>
    \/ essential = "off" \/ ~orderly
    \/ essential = "hung" /\ \A p \in Places : \E k \in Kinds : Asked(p, k)

\* ... and it goes down in a way somebody asked for.
DownAsAsked ==
  orderly /\ pending # "none" => \E p \in Places : Asked(p, pending)

\* "stop all running containers except dom0 itself": a restart of the service
\* takes down neither dom0 nor the machine (dom0-containers:61-62).
OnlyWhenAsked == pending # "none" => \E p \in Places : Asked(p, pending)
=============================================================================
