--------------------------- MODULE SystemUpgrade ---------------------------
(***************************************************************************)
(* The OverC agent over the whole machine: `overc system upgrade', `overc  *)
(* system rollback' and the container commands of Overc/overc.py, through  *)
(* class Container and the script container-scripts/dom0.                  *)
(*                                                                         *)
(* A system upgrade walks over the containers, upgrades each one that runs *)
(* and is of a distribution it knows, rolls the ones it went through back  *)
(* when one fails, and upgrades the host when none did.                    *)
(*                                                                         *)
(* The host is module AtomicUpgrade, which module HostUpgrade is proved to *)
(* implement for a lone agent: here its upgrade and its rollback are one   *)
(* step.  One operator gives the commands.  A container is the release on  *)
(* its disk and the stack of its snapshots, kept by overc-ctl, a program   *)
(* that is not part of this repository (its promises: dom0 121-136 and     *)
(* 204-212).  Feeds publish releases at any time; containers end at any    *)
(* time, except dom0, where the agent runs.                                *)
(***************************************************************************)
EXTENDS Naturals, Sequences, FiniteSets

CONSTANTS
  Containers,  \* the containers of the machine
  Dom0,        \* the one the agent runs in
  MaxRelease,  \* releases of the feed, of host and containers alike
  MaxHistory,  \* bound on the snapshots of a container
  Faults       \* which programs may fail, and whether the power may

Releases == 1..MaxRelease

ASSUME SystemAssumption ==
  /\ IsFiniteSet(Containers) /\ Dom0 \in Containers
  /\ MaxRelease \in Nat \ {0} /\ MaxHistory \in Nat \ {0}

VARIABLES
  running, target, pending, fallback,  \* the host, see AtomicUpgrade
  warned,     \* "Please do not run rollback!" was printed
  foreign,    \* containers whose /etc/issue names another distribution
  feed,       \* the newest release published
  current,    \* the release on the disk of each container
  history,    \* its snapshots, the last one at the top
  up,         \* containers that run
  pc,         \* the step the command is at
  job,        \* the command and its options
  todo,       \* the containers it has still to see, from `cube-ctl list'
  succeeded,  \* the containers it went through
  retval,     \* self.retval
  exit,       \* how the last command ended
  before,     \* history: current, when the command began
  goal,       \* history: feed, when the command began
  updated     \* history: containers whose release the command replaced

host       == <<running, target, pending, fallback>>
containers == <<current, history, up, foreign>>
command    == <<pc, job, todo, succeeded, retval, exit>>
ghosts     == <<before, goal>>
vars == <<host, warned, feed, containers, command, ghosts, updated>>

Host == INSTANCE AtomicUpgrade WITH KernelOf <- [r \in Releases |-> r]

Walks    == {"system_upgrade", "system_rollback"}
Commands == Walks \cup {"upgrade", "activate"}
Options  == {"skip_del", "force", "reboot"}
Jobs     == [cmd : Commands, skip_del : BOOLEAN, force : BOOLEAN, reboot : BOOLEAN]
NoJob    == [cmd |-> "none"]

Points == {"idle", "reboot", "visit", "issue", "check", "delall", "rpm", "abort",
           "host", "roll", "host_roll",
           "a_status", "a_image", "a_dom0", "a_start", "a_back"}

TypeOK ==
  /\ running \in {Host!NoSystem} \cup {Host!Complete(r) : r \in Releases}
  /\ target \in Releases /\ fallback \in Releases \cup {0}
  /\ pending \in BOOLEAN /\ warned \in BOOLEAN
  /\ feed \in Releases /\ goal \in Releases
  /\ current \in [Containers -> Releases] /\ before \in [Containers -> Releases]
  /\ history \in [Containers -> Seq(Releases)]
  /\ up \subseteq Containers /\ foreign \subseteq Containers
  /\ updated \subseteq Containers
  /\ pc \in Points
  /\ IF pc = "idle" THEN job = NoJob ELSE job \in Jobs
  /\ todo \in Seq(Containers) /\ succeeded \in Seq(Containers)
  /\ retval \in {0, 1} /\ exit \in {"none", "ok", "failed", "exception"}
  /\ pc \notin {"idle", "visit", "abort", "host", "host_roll", "reboot"} => todo # <<>>

\* The factory release.
Factory == [c \in Containers |-> 1]

\* A machine as installed, every container at the factory release.
Init ==
  /\ Host!Init
  /\ warned = FALSE
  /\ feed = 1 /\ goal = 1
  /\ current = Factory /\ before = Factory
  /\ history = [c \in Containers |-> <<>>]
  /\ up = Containers /\ updated = {}
  /\ foreign \in SUBSET (Containers \ {Dom0})
  /\ pc = "idle" /\ todo = <<>> /\ succeeded = <<>> /\ retval = 0 /\ exit = "none"
  /\ job = NoJob

---------------------------------------------------------------------------
(* overc-ctl.  External.                                                   *)

Top(s) == s[Len(s)]
Pop(s) == SubSeq(s, 1, Len(s) - 1)

\* Mutant: the snapshot is taken of the new version.
InstallUnsaved(c, r) ==
  /\ current' = [current EXCEPT ![c] = r]
  /\ history' = [history EXCEPT ![c] = Append(@, r)]
  /\ updated' = updated \cup {c}

\* "the old version is placed at the top of the history rollback list".
Install(c, r) ==
  /\ current' = [current EXCEPT ![c] = r]
  /\ history' = [history EXCEPT ![c] = Append(@, current[c])]
  /\ updated' = updated \cup {c}

\* "Switches the current container version to be the one at the top of the
\* history rollback list.  On success, the entry is removed."
ReturnTo(c) ==
  /\ history[c] # <<>>
  /\ current' = [current EXCEPT ![c] = Top(history[c])]
  /\ history' = [history EXCEPT ![c] = Pop(@)]

RollbackFails(c) ==
  /\ history[c] = <<>> \/ "rollback" \in Faults
  /\ UNCHANGED <<current, history>>

---------------------------------------------------------------------------
(* A command begins and ends.                                              *)

\* The names in any order `cube-ctl list' may print them.
Lists == { s \in [1..Cardinality(Containers) -> Containers] :
             \A i, j \in DOMAIN s : s[i] = s[j] => i = j }

\* -f, -r and --skip-del, for the commands that take them.
Takes(cmd) == CASE cmd = "system_upgrade" -> Options
                [] cmd = "upgrade"        -> {"skip_del"}
                [] cmd = "activate"       -> {"force"}
                [] OTHER                  -> {}

Begin(cmd, first, list) ==
  /\ running # Host!NoSystem
  /\ pc = "idle"
  /\ \A c \in Containers : Len(history[c]) < MaxHistory
  /\ job' \in { j \in Jobs : j.cmd = cmd /\ \A o \in Options \ Takes(cmd) : ~j[o] }
  /\ pc' = first
  /\ todo' = list
  /\ before' = current
  /\ goal' = feed
  /\ updated' = {}
  /\ UNCHANGED <<host, warned, feed, containers, succeeded, retval, exit>>

\* The variables of the process go with it.
End(result) ==
  /\ pc' = "idle"
  /\ todo' = <<>>
  /\ succeeded' = <<>>
  /\ retval' = 0
  /\ exit' = result
  /\ job' = NoJob
  /\ before' = Factory
  /\ goal' = 1

Goto(point) == pc' = point /\ UNCHANGED <<todo, succeeded, retval, exit, job, ghosts>>

\* On to the next container of the loop.
Advance == pc' = "visit" /\ todo' = Tail(todo) /\ UNCHANGED <<exit, job, ghosts>>

cn == Head(todo)

\* The container is as new as it gets: on with the loop, or the end of an
\* `overc container upgrade'.
Served ==
  IF job.cmd \in Walks
  THEN Advance /\ succeeded' = Append(succeeded, cn) /\ UNCHANGED retval
  ELSE End("ok")

---------------------------------------------------------------------------
(* `overc system upgrade', `overc system rollback': the loops              *)

StartWalk == \E cmd \in Walks, list \in Lists :
  /\ cmd = "system_rollback" => ~pending /\ ~warned
  /\ Begin(cmd, "visit", list)

\* Mutant: the container is taken off the list before it is served.
VisitAhead ==
  /\ pc = "visit"
  /\ todo # <<>>
  /\ pc' = (IF cn \in up THEN "issue" ELSE "visit")
  /\ todo' = Tail(todo)
  /\ retval' = IF job.cmd = "system_upgrade" THEN 0 ELSE retval
  /\ UNCHANGED <<host, warned, feed, containers, succeeded, exit, job, ghosts, updated>>

\* is_active.
Visit ==
  /\ pc = "visit"
  /\ todo # <<>>
  /\ IF cn \in up THEN pc' = "issue" /\ UNCHANGED <<todo, exit, job, ghosts>> ELSE Advance
  /\ retval' = IF job.cmd = "system_upgrade" THEN 0 ELSE retval
  /\ UNCHANGED <<host, warned, feed, containers, succeeded, updated>>

\* get_issue, which goes into the container.
Issue ==
  /\ pc = "issue"
  /\ cn \in up
  /\ IF cn \in foreign THEN Advance /\ UNCHANGED <<succeeded, retval>>
     ELSE Goto(IF job.cmd = "system_upgrade" THEN "check" ELSE "roll")
  /\ UNCHANGED <<host, warned, feed, containers, updated>>

\* The container has ended since: check_output raises CalledProcessError and
\* the command ends where it is.
IssueFails ==
  /\ pc = "issue"
  /\ cn \notin up
  /\ End("exception")
  /\ UNCHANGED <<host, warned, feed, containers, updated>>

\* A system rollback notes in need_reboot that one container went back.
Roll ==
  /\ pc = "roll"
  /\ \/ ReturnTo(cn) /\ succeeded' = Append(succeeded, cn) /\ retval' = 0
     \/ RollbackFails(cn) /\ retval' = 1 /\ UNCHANGED succeeded
  /\ Advance
  /\ UNCHANGED <<host, warned, feed, up, foreign, updated>>

Walked ==
  /\ pc = "visit"
  /\ todo = <<>>
  /\ Goto(IF job.cmd = "system_upgrade" THEN "host" ELSE "host_roll")
  /\ UNCHANGED <<host, warned, feed, containers, updated>>

---------------------------------------------------------------------------
(* rpm_upgrade of a container                                              *)

StartUpgrade == \E c \in Containers : Begin("upgrade", "check", <<c>>)

\* A check-update that fails counts as one that finds nothing.
NothingNewer ==
  /\ pc = "check"
  /\ current[cn] >= feed \/ "check" \in Faults
  /\ Served
  /\ UNCHANGED <<host, warned, feed, containers, updated>>

Newer ==
  /\ pc = "check"
  /\ current[cn] < feed
  /\ Goto(IF job.skip_del THEN "rpm" ELSE "delall")
  /\ UNCHANGED <<host, warned, feed, containers, updated>>

\* snapshot-delall, whose exit code is not looked at.
DeleteSnapshots ==
  /\ pc = "delall"
  /\ \/ history' = [history EXCEPT ![cn] = <<>>]
     \/ "delete" \in Faults /\ UNCHANGED history
  /\ Goto("rpm")
  /\ UNCHANGED <<host, warned, feed, current, up, foreign, updated>>

\* Mutant: the snapshots are deleted after the upgrade.
RpmUpgradeThenDelete ==
  /\ pc = "rpm"
  /\ current' = [current EXCEPT ![cn] = feed]
  /\ history' = [history EXCEPT ![cn] = IF job.skip_del THEN Append(@, current[cn]) ELSE <<>>]
  /\ updated' = updated \cup {cn}
  /\ Served
  /\ UNCHANGED <<host, warned, feed, up, foreign>>

RpmUpgrade ==
  /\ pc = "rpm"
  /\ Install(cn, feed)
  /\ Served
  /\ UNCHANGED <<host, warned, feed, up, foreign>>

\* Mutant: the return value of the upgrade is not looked at.
RpmUpgradeUnchecked ==
  /\ pc = "rpm"
  /\ Served
  /\ UNCHANGED <<host, warned, feed, containers, updated>>

\* "*** Abort the system upgrade action".
RpmUpgradeFails ==
  /\ pc = "rpm"
  /\ "rpm" \in Faults
  /\ IF job.cmd \in Walks
     THEN pc' = "abort" /\ retval' = 1 /\ UNCHANGED <<todo, succeeded, exit, job, ghosts>>
     ELSE End("failed")
  /\ UNCHANGED <<host, warned, feed, containers, updated>>

\* One round of the loop over `succeeded', which overwrites self.retval.
AbortOne ==
  /\ pc = "abort"
  /\ succeeded # <<>>
  /\ \/ ReturnTo(Head(succeeded)) /\ retval' = 0
     \/ RollbackFails(Head(succeeded)) /\ retval' = 1
  /\ succeeded' = Tail(succeeded)
  /\ UNCHANGED <<host, warned, feed, up, foreign, pc, job, todo, exit, ghosts, updated>>

\* sys.exit(self.retval).
Aborted ==
  /\ pc = "abort"
  /\ succeeded = <<>>
  /\ End(IF retval = 0 THEN "ok" ELSE "failed")
  /\ UNCHANGED <<host, warned, feed, containers, updated>>

---------------------------------------------------------------------------
(* The host, after the containers                                          *)

NewHost == feed > running.rel \/ job.force

\* _system_upgrade reboots when the host upgrade returned True.
HostDone(rc) ==
  IF rc /\ job.reboot THEN Goto("reboot") ELSE End("ok")

HostUpgrade ==
  /\ pc = "host"
  /\ NewHost
  /\ Host!Deploy
  /\ target' = feed
  /\ warned' = FALSE
  /\ HostDone(TRUE)
  /\ UNCHANGED <<feed, containers, updated>>

\* Nothing of the containers' upgrade is taken back.  Between an upgrade and
\* its reboot the other slot cannot be cleaned up, and the upgrade fails.
HostUpgradeFails ==
  /\ pc = "host"
  /\ NewHost
  /\ \/ pending /\ UNCHANGED warned
     \/ "host" \in Faults /\ warned' = TRUE
  /\ HostDone(FALSE)
  /\ UNCHANGED <<host, feed, containers, updated>>

HostUpToDate ==
  /\ pc = "host"
  /\ ~NewHost
  /\ HostDone(TRUE)
  /\ UNCHANGED <<host, warned, feed, containers, updated>>

HostRollback ==
  /\ pc = "host_roll"
  /\ Host!Return
  /\ Goto("reboot")
  /\ UNCHANGED <<warned, feed, containers, updated>>

\* Containers that went back need the reboot all the same.
HostRollbackFails ==
  /\ pc = "host_roll"
  /\ fallback = 0 \/ "host" \in Faults
  /\ IF succeeded # <<>> THEN Goto("reboot") ELSE End("ok")
  /\ UNCHANGED <<host, warned, feed, containers, updated>>

---------------------------------------------------------------------------
(* `overc container activate': a new image of a container                  *)

StartActivate == \E c \in Containers :
  Begin("activate", IF c = Dom0 THEN "a_dom0" ELSE "a_status", <<c>>)

\* The new dom0 runs after the next boot.
ActivateDom0 ==
  /\ pc = "a_dom0"
  /\ \/ \E r \in 1..feed : Install(cn, r) /\ End("ok")
     \/ "image" \in Faults /\ End("failed") /\ UNCHANGED <<current, history, updated>>
  /\ UNCHANGED <<host, warned, feed, up, foreign>>

ActivateRefused ==
  /\ pc = "a_status"
  /\ cn \in up
  /\ ~job.force
  /\ End("failed")
  /\ UNCHANGED <<host, warned, feed, containers, updated>>

\* The exit code of cube-ctl stop is not looked at.
ActivateStop ==
  /\ pc = "a_status"
  /\ cn \in up => job.force
  /\ \/ up' = up \ {cn}
     \/ "stop" \in Faults /\ UNCHANGED up
  /\ Goto("a_image")
  /\ UNCHANGED <<host, warned, feed, current, history, foreign, updated>>

\* The exit code of overc-ctl is not looked at.
ActivateImage ==
  /\ pc = "a_image"
  /\ \/ \E r \in 1..feed : Install(cn, r)
     \/ "image" \in Faults /\ UNCHANGED <<current, history, updated>>
  /\ Goto("a_start")
  /\ UNCHANGED <<host, warned, feed, up, foreign>>

ActivateStart ==
  /\ pc = "a_start"
  /\ up' = up \cup {cn}
  /\ End("ok")
  /\ UNCHANGED <<host, warned, feed, current, history, foreign, updated>>

\* Not seen running in six looks, one second apart.
ActivateStartFails ==
  /\ pc = "a_start"
  /\ "start" \in Faults
  /\ Goto("a_back")
  /\ UNCHANGED <<host, warned, feed, containers, updated>>

\* "Rollback needed".  The script exits with 0 after it, and does not start
\* the container.
ActivateBack ==
  /\ pc = "a_back"
  /\ ReturnTo(cn) \/ RollbackFails(cn)
  /\ End("ok")
  /\ UNCHANGED <<host, warned, feed, up, foreign, updated>>

---------------------------------------------------------------------------
(* Commands of one step, and the world                                     *)

Idle == running # Host!NoSystem /\ pc = "idle"

\* `overc container rollback', `overc container snapshot', `start', `stop'.
RollbackContainer(c) ==
  Idle /\ ReturnTo(c) /\ UNCHANGED <<host, warned, feed, up, foreign, command, ghosts, updated>>

SnapshotContainer(c) ==
  /\ Idle
  /\ Len(history[c]) < MaxHistory
  /\ history' = [history EXCEPT ![c] = Append(@, current[c])]
  /\ UNCHANGED <<host, warned, feed, current, up, foreign, command, ghosts, updated>>

StartContainer(c) ==
  /\ Idle
  /\ up' = up \cup {c}
  /\ UNCHANGED <<host, warned, feed, current, history, foreign, command, ghosts, updated>>

\* A container stops, of itself or told to.
Exit(c) ==
  /\ running # Host!NoSystem
  /\ c # Dom0
  /\ up' = up \ {c}
  /\ UNCHANGED <<host, warned, feed, current, history, foreign, command, ghosts, updated>>

Publish ==
  /\ feed < MaxRelease
  /\ feed' = feed + 1
  /\ UNCHANGED <<host, warned, containers, command, ghosts, updated>>

\* A reboot, or the power fails in the middle of a command.
GoDown ==
  /\ pc \in {"idle", "reboot"} \/ "power" \in Faults
  /\ Host!GoDown
  /\ End("none")
  /\ up' = {}
  /\ UNCHANGED <<warned, feed, current, history, foreign, updated>>

Boot ==
  /\ Host!Boot
  /\ up' = Containers
  /\ UNCHANGED <<warned, feed, current, history, foreign, command, ghosts, updated>>

---------------------------------------------------------------------------
System ==
  \/ StartWalk \/ Visit \/ Issue \/ IssueFails \/ Roll \/ Walked
  \/ HostUpgrade \/ HostUpgradeFails \/ HostUpToDate
  \/ HostRollback \/ HostRollbackFails

Container ==
  \/ StartUpgrade \/ NothingNewer \/ Newer \/ DeleteSnapshots
  \/ RpmUpgrade \/ RpmUpgradeFails \/ AbortOne \/ Aborted
  \/ StartActivate \/ ActivateDom0 \/ ActivateRefused \/ ActivateStop
  \/ ActivateImage \/ ActivateStart \/ ActivateStartFails \/ ActivateBack

World ==
  \/ \E c \in Containers :
       RollbackContainer(c) \/ SnapshotContainer(c) \/ StartContainer(c) \/ Exit(c)
  \/ Publish \/ GoDown \/ Boot

Next == System \/ Container \/ World

Spec == Init /\ [][Next]_vars

---------------------------------------------------------------------------
(* Properties                                                              *)

\* An aborted system upgrade, when it ends, has put every container it had
\* upgraded back to the release it had (overc.py 82-85).
AbortUndoes ==
  pc = "abort" /\ succeeded = <<>> =>
    \A c \in updated : current[c] = before[c]

\* The host is upgraded only when every container the upgrade went through is
\* at least as new as the feed was when the upgrade began (overc.py 79-87).
HostComesLast ==
  [][ pc = "host" /\ target' # target =>
        /\ target' >= goal
        /\ \A i \in DOMAIN succeeded : current[succeeded[i]] >= goal ]_vars

\* When the new image of a container was installed and the container does not
\* start, the rollback that ends the activation restores the release the image
\* replaced (dom0 137: "Start container, if fail, try to rollback").
ActivateUndoes ==
  [][ pc = "a_back" /\ pc' = "idle" /\ exit' = "ok" /\ cn \in updated =>
        current'[cn] = before[cn] ]_vars
===========================================================================
