----------------------------- MODULE RestServer -----------------------------
(***************************************************************************)
(* The web server of the agent, run_server.py, with the methods of         *)
(* Overc/container.py and the script container-scripts/dom0 behind its     *)
(* routes.  Every request makes an Overc object of its own and runs to its *)
(* end in the thread that took it; no lock is held and nothing is known of *)
(* the other threads, of a second server or of an `overc' command line.    *)
(* The threads are Workers here.                                           *)
(*                                                                         *)
(* Shared by all of them are the containers, as in module SystemUpgrade,   *)
(* and the directory of images (/root/images), one file per container,     *)
(* which is downloaded to a temporary directory and moved into place, and  *)
(* from which an activation installs.                                      *)
(*                                                                         *)
(* Abstractions.  A request is its route and its container; the template   *)
(* is always dom0.  overc-ctl and wget are not part of this repository:    *)
(* each call of theirs is one step that works or, where Faults has it,     *)
(* fails.  The routes /host/upgrade and /host/rollback are agents of       *)
(* module HostUpgrade.                                                     *)
(***************************************************************************)
EXTENDS Naturals, Sequences, FiniteSets

CONSTANTS
  Workers,     \* threads of the server
  Containers,  \* the names requests are about
  Dom0,        \* the container the agent runs in
  ImageOrder,  \* the containers `dom0 -U' pulls an image of, in its order
  MaxRelease,  \* bound on the releases of images and packages
  MaxHistory,  \* bound on the snapshots of a container
  Requests,    \* the requests that are made: <<route, container>>
  Faults,      \* the programs that may fail
  Torn         \* an image file that is not whole

Releases == 1..MaxRelease

\* The routes that do something, an upgrade split by what it does.  An update
\* and a list are about all containers, and stand with Dom0.
OneCalls == {"start", "stop", "snapshot", "delete", "delete_snapshots"}
Routes   == OneCalls \cup {"update", "send_image", "activate", "upgrade_image",
                           "upgrade_rpm", "list"}

ASSUME ServerAssumption ==
  /\ Dom0 \in Containers
  /\ ImageOrder \in Seq(Containers) /\ ImageOrder # <<>>
  /\ Requests \subseteq Routes \X Containers
  /\ MaxRelease \in Nat \ {0} /\ MaxHistory \in Nat
  /\ Torn \notin Nat

VARIABLES
  feed,      \* the newest release published, of images and packages
  images,    \* /root/images: the release of each image, 0 for no file, or Torn
  current,   \* the release on the disk of each container, 0 for no container
  history,   \* its snapshots, the last one at the top
  up,        \* containers that run
  pc,        \* the step each worker is at
  job,       \* its request and the variables of the script
  answer,    \* what a request was answered by the last step
  disturbed  \* history: workers whose container or image another one changed

machine == <<feed, images, current, history, up>>
vars    == <<machine, pc, job, answer, disturbed>>

\* got is the release in the temporary directory; replaced is history, what the
\* activation installed over, and so is goal, the feed when an upgrade by image
\* was asked for.
Jobs == [cmd : Routes, name : Containers, todo : Seq(Containers),
         got : {0} \cup Releases, upgrade : BOOLEAN,
         replaced : {0} \cup Releases, goal : Releases]
NoJob == <<>>

Steps == {"idle", "wget", "move", "moving", "image", "dom0", "status", "stop",
          "install", "start", "back", "check", "delall", "rpm", "run"}

ServerTypeOK ==
  /\ feed \in Releases
  /\ images \in [Containers -> {0, Torn} \cup Releases]
  /\ current \in [Containers -> {0} \cup Releases]
  /\ history \in [Containers -> Seq(Releases)]
  /\ up \subseteq Containers
  /\ pc \in [Workers -> Steps]
  /\ job \in [Workers -> Jobs \cup {NoJob}]
  /\ \A w \in Workers : pc[w] # "idle" => job[w] \in Jobs
  /\ \A w \in Workers :
       /\ pc[w] \in {"wget", "move", "moving"} => job[w].todo # <<>>
       /\ pc[w] \in {"move", "moving"} => job[w].got # 0
  /\ answer \in {"none", "usage", "error", "ok", "failed"}
  /\ disturbed \subseteq { w \in Workers : pc[w] # "idle" }

Init ==
  /\ feed = 1
  /\ images = [c \in Containers |-> 0]
  /\ current = [c \in Containers |-> 1]
  /\ history = [c \in Containers |-> <<>>]
  /\ up = Containers
  /\ pc = [w \in Workers |-> "idle"]
  /\ job = [w \in Workers |-> NoJob]
  /\ answer = "none"
  /\ disturbed = {}

---------------------------------------------------------------------------
(* The steps of a request                                                  *)

Keep(w, step, j) ==
  /\ pc' = [pc EXCEPT ![w] = step]
  /\ job' = [job EXCEPT ![w] = j]
  /\ answer' = "none"

Goto(w, step) == Keep(w, step, job[w])

Respond(w, result) ==
  /\ pc' = [pc EXCEPT ![w] = "idle"]
  /\ job' = [job EXCEPT ![w] = NoJob]
  /\ answer' = result

Name(w) == job[w].name

---------------------------------------------------------------------------
(* A request arrives                                                       *)

Busy == { w \in Workers : pc[w] # "idle" }

\* No request adds more than one snapshot to a container.
Room == \A c \in Containers : Len(history[c]) + Cardinality(Busy) < MaxHistory

Accept(w, cmd, c, step, todo) ==
  /\ <<cmd, c>> \in Requests
  /\ pc[w] = "idle"
  /\ Room
  /\ Keep(w, step, [cmd |-> cmd, name |-> c, todo |-> todo, got |-> 0,
                    upgrade |-> FALSE, replaced |-> 0,
                    goal |-> IF cmd = "upgrade_image" THEN feed ELSE 1])
  /\ UNCHANGED machine

Refuse(w, result) ==
  /\ pc[w] = "idle"
  /\ Respond(w, result)
  /\ UNCHANGED machine

\* A route without one of its parameters is answered with its usage, and so is
\* an upgrade with an rpm or image that is neither yes nor no.
Incomplete(w) == Refuse(w, "usage")

\* It reads command line arguments that nobody has set: an exception, answered
\* with the status 500 before anything was done.
SystemRollback(w) == Refuse(w, "error")

\* The only template is dom0, and with it an argument of _system_upgrade is
\* left out.
SystemUpgrade(w) == Refuse(w, "usage") \/ Refuse(w, "error")

\* _container_rollback is called without force.
ContainerRollback(w) == Refuse(w, "error")

ContainerUpdate(w) == Accept(w, "update", Dom0, "wget", ImageOrder)

ContainerList(w) == Accept(w, "list", Dom0, "run", <<>>)

ContainerListSnapshots(w) == Accept(w, "list", Dom0, "run", <<>>)

ContainerSendImage(w, c) == Accept(w, "send_image", c, "wget", <<c>>)

ContainerActivate(w, c) == Accept(w, "activate", c, "image", <<>>)

ContainerStart(w, c) == Accept(w, "start", c, "run", <<>>)

ContainerStop(w, c) == Accept(w, "stop", c, "run", <<>>)

ContainerSnapshot(w, c) == Accept(w, "snapshot", c, "run", <<>>)

ContainerDelete(w, c) == Accept(w, "delete", c, "run", <<>>)

ContainerDeleteSnapshots(w, c) == Accept(w, "delete_snapshots", c, "run", <<>>)

Flags == {"absent", "no", "yes"}

\* By image only when rpm is not asked for; by packages when neither is.
UpgradeKind(rpm, image) ==
  IF image = "yes" /\ rpm # "yes" THEN "image" ELSE "rpm"

ContainerUpgrade(w, c) ==
  \E kind \in { UpgradeKind(rpm, image) : rpm, image \in Flags } :
    \/ kind = "image" /\ Accept(w, "upgrade_image", c, "wget", ImageOrder)
    \/ kind = "rpm" /\ Accept(w, "upgrade_rpm", c, "check", <<>>)

\* One question to dnf, whose status the route does not pass on.
HostUpdate(w) == Refuse(w, "ok")
HostNewer(w) == Refuse(w, "ok")

Request(w) ==
  \/ Incomplete(w) \/ HostUpdate(w) \/ HostNewer(w)
  \/ SystemRollback(w) \/ SystemUpgrade(w) \/ ContainerRollback(w)
  \/ ContainerUpdate(w) \/ ContainerList(w) \/ ContainerListSnapshots(w)
  \/ \E c \in Containers :
       \/ ContainerSendImage(w, c) \/ ContainerActivate(w, c)
       \/ ContainerUpgrade(w, c) \/ ContainerSnapshot(w, c)
       \/ ContainerStart(w, c) \/ ContainerStop(w, c)
       \/ ContainerDelete(w, c) \/ ContainerDeleteSnapshots(w, c)

---------------------------------------------------------------------------
(* pull_image and pull_single_image                                        *)

\* wget into a directory of its own; an update takes the newest release, the
\* url of a sent image may name any.
Wget(w) ==
  /\ pc[w] = "wget"
  /\ \E r \in Releases :
       /\ IF job[w].cmd = "send_image" THEN r <= feed ELSE r = feed
       /\ Keep(w, "move", [job[w] EXCEPT !.got = r])
  /\ UNCHANGED machine

\* Mutant: an upgrade goes on with the image that is there.
WgetFailsUnchecked(w) ==
  /\ pc[w] = "wget"
  /\ "wget" \in Faults
  /\ IF job[w].cmd = "upgrade_image"
       THEN Keep(w, "image", [job[w] EXCEPT !.todo = <<>>])
       ELSE Respond(w, "failed")
  /\ UNCHANGED machine

WgetFails(w) ==
  /\ pc[w] = "wget"
  /\ "wget" \in Faults
  /\ Respond(w, "failed")
  /\ UNCHANGED machine

\* mv from /tmp removes the old file and writes the new one piece by piece.
Move(w) ==
  /\ pc[w] = "move"
  /\ images' = [images EXCEPT ![Head(job[w].todo)] = Torn]
  /\ Goto(w, "moving")
  /\ UNCHANGED <<feed, current, history, up>>

\* Mutant: one image more than there are.
AfterImageAnother(w) ==
  Keep(w, "wget", [job[w] EXCEPT !.todo = Tail(@), !.got = 0])

\* After the last image an update is over, and an upgrade goes on.
AfterImage(w) ==
  LET left == Tail(job[w].todo) IN
  IF left # <<>> THEN Keep(w, "wget", [job[w] EXCEPT !.todo = left, !.got = 0])
  ELSE IF job[w].cmd = "upgrade_image"
       THEN Keep(w, "image", [job[w] EXCEPT !.todo = left, !.got = 0])
       ELSE Respond(w, "ok")

Moved(w) ==
  /\ pc[w] = "moving"
  /\ images' = [images EXCEPT ![Head(job[w].todo)] = job[w].got]
  /\ AfterImage(w)
  /\ UNCHANGED <<feed, current, history, up>>

\* The disk is full: what was written stays, and the script exits.
MoveFails(w) ==
  /\ pc[w] = "moving"
  /\ "move" \in Faults
  /\ Respond(w, "failed")
  /\ UNCHANGED machine

---------------------------------------------------------------------------
(* start_container and stop_container of the script                        *)

\* It starts, and is seen running by one of six looks.
Starts(c) ==
  /\ c # Dom0 /\ current[c] # 0
  /\ up' = up \cup {c}

StartFails(c) ==
  /\ c = Dom0 \/ current[c] = 0 \/ "start" \in Faults
  /\ UNCHANGED up

Stops(c) == c # Dom0 /\ up' = up \ {c}

StopRefused(c) == c = Dom0 /\ UNCHANGED up

---------------------------------------------------------------------------
(* activate, always by force                                               *)

\* A file has to be there, whatever is in it.
ImageFound(w) ==
  /\ pc[w] = "image"
  /\ IF images[Name(w)] = 0 THEN Respond(w, "failed")
     ELSE Goto(w, IF Name(w) = Dom0 THEN "dom0" ELSE "status")
  /\ UNCHANGED machine

\* A container that was deleted while it runs is not listed: it is not stopped,
\* and the activation is no upgrade.
Status(w) ==
  /\ pc[w] = "status"
  /\ LET exists == current[Name(w)] # 0 IN
     Keep(w, IF exists /\ Name(w) \in up THEN "stop" ELSE "install",
          [job[w] EXCEPT !.upgrade = exists])
  /\ UNCHANGED machine

\* Never dom0, which does not come here.
StopForUpgrade(w) ==
  /\ pc[w] = "stop"
  /\ Stops(Name(w))
  /\ Goto(w, "install")
  /\ UNCHANGED <<feed, images, current, history>>

Save(c) ==
  IF current[c] = 0 THEN history
  ELSE [history EXCEPT ![c] = Append(@, current[c])]

\* overc-ctl upgrade, from an image it can read: the old version goes on top of
\* the history.
Install(w) ==
  /\ images[Name(w)] \in Releases
  /\ current' = [current EXCEPT ![Name(w)] = images[Name(w)]]
  /\ history' = Save(Name(w))
  /\ UNCHANGED <<feed, images, up>>

InstallFails(w) ==
  /\ images[Name(w)] \notin Releases \/ "install" \in Faults
  /\ UNCHANGED machine

\* dom0 is neither stopped nor started: the new one runs after the next boot.
ActivateDom0(w) ==
  /\ pc[w] = "dom0"
  /\ \/ Install(w) /\ Respond(w, "ok")
     \/ InstallFails(w) /\ Respond(w, "failed")

\* Mutant: the version replaced is not kept.
ActivateOver(w) ==
  /\ pc[w] = "install"
  /\ \/ /\ images[Name(w)] \in Releases
        /\ current' = [current EXCEPT ![Name(w)] = images[Name(w)]]
        /\ UNCHANGED <<feed, images, history, up>>
        /\ Keep(w, "start", [job[w] EXCEPT !.replaced = current[Name(w)]])
     \/ InstallFails(w) /\ Goto(w, "start")

\* The exit status is not looked at.
Activate(w) ==
  /\ pc[w] = "install"
  /\ \/ /\ Install(w)
        /\ Keep(w, "start", [job[w] EXCEPT !.replaced = current[Name(w)]])
     \/ InstallFails(w) /\ Goto(w, "start")

StartNew(w) ==
  /\ pc[w] = "start"
  /\ \/ Starts(Name(w)) /\ Respond(w, "ok")
     \/ /\ StartFails(Name(w))
        /\ IF job[w].upgrade THEN Goto(w, "back") ELSE Respond(w, "failed")
  /\ UNCHANGED <<feed, images, current, history>>

\* rollback_container; the script exits with 0, and starts nothing.
Back(w) ==
  LET c == Name(w) IN
  /\ pc[w] = "back"
  /\ IF history[c] = <<>> THEN UNCHANGED <<current, history>>
     ELSE /\ current' = [current EXCEPT ![c] = history[c][Len(history[c])]]
          /\ history' = [history EXCEPT ![c] = SubSeq(@, 1, Len(@) - 1)]
  /\ Respond(w, "ok")
  /\ UNCHANGED <<feed, images, up>>

---------------------------------------------------------------------------
(* rpm_upgrade, without skip_del                                           *)

CheckUpdate(w) ==
  /\ pc[w] = "check"
  /\ IF current[Name(w)] \in 1..(feed - 1)
       THEN Goto(w, "delall") ELSE Respond(w, "ok")
  /\ UNCHANGED machine

DeleteAll(w) ==
  /\ pc[w] = "delall"
  /\ history' = [history EXCEPT ![Name(w)] = <<>>]
  /\ Goto(w, "rpm")
  /\ UNCHANGED <<feed, images, current, up>>

RpmUpgrade(w) ==
  LET c == Name(w) IN
  /\ pc[w] = "rpm"
  /\ \/ /\ current[c] # 0
        /\ current' = [current EXCEPT ![c] = feed]
        /\ history' = Save(c)
        /\ Respond(w, "ok")
     \/ /\ current[c] = 0 \/ "rpm" \in Faults
        /\ Respond(w, "failed")
        /\ UNCHANGED <<current, history>>
  /\ UNCHANGED <<feed, images, up>>

---------------------------------------------------------------------------
(* The requests that are one call                                          *)

Start(w) ==
  /\ job[w].cmd = "start"
  /\ \/ Starts(Name(w)) /\ Respond(w, "ok")
     \/ StartFails(Name(w)) /\ Respond(w, "failed")
  /\ UNCHANGED <<feed, images, current, history>>

Stop(w) ==
  /\ job[w].cmd = "stop"
  /\ \/ Stops(Name(w)) /\ Respond(w, "ok")
     \/ StopRefused(Name(w)) /\ Respond(w, "failed")
  /\ UNCHANGED <<feed, images, current, history>>

\* The script does not pass the status of snapshot-create on.
Snapshot(w) ==
  /\ job[w].cmd = "snapshot"
  /\ history' = Save(Name(w))
  /\ Respond(w, "ok")
  /\ UNCHANGED <<feed, images, current, up>>

\* cube-ctl del: the container goes, the process that runs it stays.
Delete(w) ==
  /\ job[w].cmd = "delete"
  /\ IF current[Name(w)] = 0
     THEN Respond(w, "failed") /\ UNCHANGED <<current, history>>
     ELSE /\ current' = [current EXCEPT ![Name(w)] = 0]
          /\ history' = [history EXCEPT ![Name(w)] = <<>>]
          /\ Respond(w, "ok")
  /\ UNCHANGED <<feed, images, up>>

DeleteSnapshots(w) ==
  /\ job[w].cmd = "delete_snapshots"
  /\ history' = [history EXCEPT ![Name(w)] = <<>>]
  /\ Respond(w, "ok")
  /\ UNCHANGED <<feed, images, current, up>>

\* list and list_snapshots.
List(w) ==
  /\ job[w].cmd = "list"
  /\ Respond(w, "ok")
  /\ UNCHANGED machine

OneCall(w) ==
  /\ pc[w] = "run"
  /\ \/ Start(w) \/ Stop(w) \/ Snapshot(w)
     \/ Delete(w) \/ DeleteSnapshots(w) \/ List(w)

---------------------------------------------------------------------------
(* The machine                                                             *)

Publish ==
  /\ feed < MaxRelease
  /\ feed' = feed + 1
  /\ answer' = "none"
  /\ UNCHANGED <<images, current, history, up, pc, job>>

\* The power fails, or a host request reboots: what was under way is dropped,
\* and the containers start again as they are.
Restart ==
  /\ pc' = [w \in Workers |-> "idle"]
  /\ job' = [w \in Workers |-> NoJob]
  /\ answer' = "none"
  /\ up' = { c \in Containers : current[c] # 0 }
  /\ UNCHANGED <<feed, images, current, history>>

Serve(w) ==
  \/ Wget(w) \/ WgetFails(w) \/ Move(w) \/ Moved(w) \/ MoveFails(w)
  \/ ImageFound(w) \/ Status(w) \/ StopForUpgrade(w) \/ ActivateDom0(w)
  \/ Activate(w) \/ StartNew(w) \/ Back(w)
  \/ CheckUpdate(w) \/ DeleteAll(w) \/ RpmUpgrade(w) \/ OneCall(w)

\* What a worker relies on.
About(v) == LET c == Name(v) IN <<images[c], current[c], history[c]>>

\* A step of w disturbs the other requests about what it changes.
Step(w) ==
  /\ Request(w) \/ Serve(w)
  /\ disturbed' = { v \in Workers :
                      /\ pc'[v] # "idle"
                      /\ v \in disturbed \/ (v # w /\ About(v)' # About(v)) }

Next ==
  \/ \E w \in Workers : Step(w)
  \/ Publish /\ UNCHANGED disturbed
  \/ Restart /\ disturbed' = {}

Spec == Init /\ [][Next]_vars

---------------------------------------------------------------------------
(* Properties                                                              *)

\* An activation whose container does not start puts back the very release it
\* replaced, whatever the requests about other containers do meanwhile, unless
\* another request is about the same one (dom0:192-200).
FailedStartUndone ==
  [][ \A w \in Workers :
        /\ pc[w] = "back" /\ pc'[w] = "idle" /\ answer' = "ok"
        /\ w \notin disturbed /\ job[w].replaced # 0
        => current'[Name(w)] = job[w].replaced ]_vars

\* Of the other containers no image is pulled, and what lies there is installed.
Pulled(c) == \E i \in DOMAIN ImageOrder : ImageOrder[i] = c

\* An upgrade by image that is answered as ok has brought its container to what
\* was published when it was asked for, or, when that did not start, back to
\* what it had, whatever failed before and is left in the directory of images,
\* unless another request changed the container or the image meanwhile, or no
\* image of it is pulled (container.py:95-111, dom0:183-201 and 235-272).
OkIsUpgraded ==
  [][ \A w \in Workers :
        LET c == Name(w) IN
        /\ pc[w] # "idle" /\ pc'[w] = "idle" /\ answer' = "ok"
        /\ job[w].cmd = "upgrade_image" /\ w \notin disturbed /\ Pulled(c)
        => \/ current'[c] >= job[w].goal
           \/ job[w].replaced # 0 /\ current'[c] = job[w].replaced ]_vars
=============================================================================
