------------------------------ MODULE CubeCtl ------------------------------
(***************************************************************************)
(* The life of 'oci' containers under the commands of cube-ctl: add,       *)
(* start, stop, delete and rename, given in dom0 by several operators (a   *)
(* shell, the systemd unit dom0-containers, the system agent).  Nothing    *)
(* serializes the commands, so each is a sequence of steps between the     *)
(* calls it makes.                                                         *)
(*                                                                         *)
(* A container is in three places: its directory /opt/container/<name>,    *)
(* the container manager (runc, which keeps its own state in memory and    *)
(* loses it at a reboot), and a status key in the data store.              *)
(*                                                                         *)
(* Left out: containers with a depends file (module StartOrder), the pause *)
(* command, which as written reaches no statement that changes anything,   *)
(* 'cube' containers, and the settings inside the directory.               *)
(***************************************************************************)
EXTENDS FiniteSets

CONSTANTS Names,       \* names of containers
          Images,      \* what a container is made from
          Operators,   \* the agents that give commands
          Owner,       \* Owner[o]: the names operator o gives commands about
          StopsFirst   \* operators delete only what does not run

ASSUME CubeCtlAssumption ==
    /\ Owner \in [Operators -> SUBSET Names]
    /\ StopsFirst \in BOOLEAN

VARIABLES dir,     \* /opt/container: the directory of each name
          rt,      \* the container manager's container of each name
          status,  \* overc/<machine>/oci/<name>/status
          pc,      \* the step each operator's command is at
          reg,     \* and its arguments and variables
          broken   \* history: an add failed, or a restart cut it off

vars == <<dir, rt, status, pc, reg, broken>>

-----------------------------------------------------------------------------

\* A directory has been made and files have been put in it ("unpacked"), and
\* later its manager and config.json are set ("installed").  A configuration
\* generated where there is no manager yet names the manager "runc", which the
\* lists of containers do not count, for want of a path ("generated").  files
\* are the images whose files are in the rootfs.
Dirs == [stage : {"absent", "unpacked", "generated", "installed"},
         files : SUBSET Images]
NoDir == [stage |-> "absent", files |-> {}]

\* The manager's view; files is the rootfs a live container was created
\* from.
Containers == [state : {"none", "created", "running", "stopped"},
               files : SUBSET Images]
NoContainer == [state |-> "none", files |-> {}]

\* image is empty in all commands but add, new is the name in all but rename.
Registers == [name : Names, new : Names,
              image : {{}} \cup { {i} : i \in Images }, was_running : BOOLEAN]
NoRegisters == <<>>

Steps == {"idle", "extract", "clear", "place", "configure",
          "turn", "create", "go", "active",
          "stop",
          "del_runtime", "del_dir", "del_key",
          "mv_stop", "mv_move", "mv_turn", "mv_done"}

Live(n) == rt[n].state \in {"created", "running"}

\* check_is_known_container: the name has a manager the lists count.
Known(n) == dir[n].stage = "installed"

\* There is a config.json, and an oci.cmd.
Startable(n) == dir[n].stage \in {"generated", "installed"}

\* Mutant: the list is read from a variable that is never set.
NeverListed(n) == FALSE

\* build_container_lists: stopped and unknown to the manager are available.
ListedRunning(n) == Known(n) /\ rt[n].state \notin {"none", "stopped"}

Init ==
    /\ dir = [n \in Names |-> NoDir]
    /\ rt = [n \in Names |-> NoContainer]
    /\ status = [n \in Names |-> "none"]
    /\ pc = [o \in Operators |-> "idle"]
    /\ reg = [o \in Operators |-> NoRegisters]
    /\ broken = FALSE

\* The variables of a command end with it.
Goto(o, step) ==
    /\ pc' = [pc EXCEPT ![o] = step]
    /\ reg' = [reg EXCEPT ![o] = IF step = "idle" THEN NoRegisters ELSE @]

\* A command begins: its first step comes next, with these arguments.
Command(o, step, r) ==
    /\ pc[o] = "idle"
    /\ {r.name, r.new} \subseteq Owner[o]
    /\ pc' = [pc EXCEPT ![o] = step]
    /\ reg' = [reg EXCEPT ![o] = r]

Args(n, image) ==
    [name |-> n, new |-> n, image |-> image, was_running |-> FALSE]

-----------------------------------------------------------------------------
(* cube-ctl add                                                            *)

\* The source is unpacked (an archive) or copied (a directory), or it is moved
\* into place: move://, and docker:// by way of a second cube-ctl add.
AddCommand(o, n) ==
    \E i \in Images, step \in {"extract", "clear"} : Command(o, step, Args(n, {i}))

\* Mutant: the name is not looked up.
AddUnchecked(o, n) ==
    /\ AddCommand(o, n)
    /\ UNCHANGED <<dir, rt, status>>

\* Refused when the name is known.
Add(o, n) ==
    /\ ~Known(n)
    /\ AddCommand(o, n)
    /\ UNCHANGED <<dir, rt, status>>

\* The directory with these files in its rootfs, after mkdir -p.
Made(d, files) ==
    [stage |-> IF d.stage = "absent" THEN "unpacked" ELSE d.stage, files |-> files]

\* What is unpacked or copied goes on top of whatever is in the rootfs.
Extract(o) ==
    LET n == reg[o].name IN
    /\ pc[o] = "extract"
    /\ dir' = [dir EXCEPT ![n] = Made(@, @.files \cup reg[o].image)]
    /\ Goto(o, "configure")
    /\ UNCHANGED <<rt, status>>

\* exit 1, with what was unpacked in place; the status of cp is not looked at.
ExtractFails(o) ==
    LET n == reg[o].name IN
    /\ pc[o] = "extract"
    /\ \E files \in {dir[n].files, dir[n].files \cup reg[o].image} :
          dir' = [dir EXCEPT ![n] = Made(@, files)]
    /\ \E step \in {"idle", "configure"} : Goto(o, step)
    /\ broken' = TRUE
    /\ UNCHANGED <<rt, status>>

\* Before a rootfs is moved into place the old one is removed.  The second add
\* of docker:// asks first, once more, whether the name is known.
Clear(o) ==
    LET n == reg[o].name IN
    /\ pc[o] = "clear"
    /\ \/ /\ dir' = [dir EXCEPT ![n] = Made(@, {})]
          /\ Goto(o, "place")
       \/ /\ Known(n)
          /\ Goto(o, "idle")
          /\ UNCHANGED dir
    /\ UNCHANGED <<rt, status>>

\* There is no such source, or no image can be made from it: exit 1.
ClearFails(o) ==
    /\ pc[o] = "clear"
    /\ dir' = [dir EXCEPT ![reg[o].name] = Made(@, @.files)]
    /\ Goto(o, "idle")
    /\ broken' = TRUE
    /\ UNCHANGED <<rt, status>>

\* mv of the rootfs into the directory.  It goes where none is; where somebody
\* has made a new one mv gives up, and where the directory has gone the rootfs
\* takes its place, without one inside.
Place(o) ==
    LET n == reg[o].name IN
    /\ pc[o] = "place"
    /\ dir' = [dir EXCEPT ![n] =
                 Made(@, IF @.stage # "absent" /\ @.files = {}
                         THEN reg[o].image ELSE @.files)]
    /\ Goto(o, "configure")
    /\ UNCHANGED <<rt, status>>

\* The status of mv is not looked at either; it may have moved a part.
PlaceFails(o) ==
    LET n == reg[o].name IN
    /\ pc[o] = "place"
    /\ \E files \in {dir[n].files, dir[n].files \cup reg[o].image} :
          dir' = [dir EXCEPT ![n] = Made(@, files)]
    /\ Goto(o, "configure")
    /\ broken' = TRUE
    /\ UNCHANGED <<rt, status>>

\* cube-cfg writes the settings, the manager and the configuration; where the
\* directory has gone there is nothing to write them in.
Configure(o) ==
    LET n == reg[o].name IN
    /\ pc[o] = "configure"
    /\ dir' = [dir EXCEPT ![n].stage = IF @ = "absent" THEN @ ELSE "installed"]
    /\ Goto(o, "idle")
    /\ UNCHANGED <<rt, status>>

-----------------------------------------------------------------------------
(* cube-ctl start                                                          *)

\* start does not ask whether the name is known.
Start(o, n) ==
    /\ Command(o, "turn", Args(n, {}))
    /\ UNCHANGED <<dir, rt, status>>

\* Where the command goes when it has started its container.
Started(o) == Goto(o, IF reg[o].was_running THEN "mv_done" ELSE "idle")

\* No config.json, or already running: nothing is done for the name.
Turn(o) ==
    LET n == reg[o].name IN
    /\ pc[o] = "turn"
    /\ IF Startable(n) /\ ~ListedRunning(n) THEN Goto(o, "create") ELSE Started(o)
    /\ UNCHANGED <<dir, rt, status>>

\* oci.cmd, first half: runc create, which refuses a name it has a container
\* for, be it one that has ended.
Create(o) ==
    LET n == reg[o].name IN
    /\ pc[o] = "create"
    /\ rt' = IF Startable(n) /\ rt[n].state = "none"
             THEN [rt EXCEPT ![n] = [state |-> "created", files |-> dir[n].files]]
             ELSE rt
    /\ Goto(o, IF Startable(n) THEN "go" ELSE "active")
    /\ UNCHANGED <<dir, status>>

\* oci.cmd, second half: runc start of a container that has been created.
Go(o) ==
    LET n == reg[o].name IN
    /\ pc[o] = "go"
    /\ rt' = [rt EXCEPT ![n].state = IF @ = "created" THEN "running" ELSE @]
    /\ Goto(o, "active")
    /\ UNCHANGED <<dir, status>>

\* The key is set whether or not oci.cmd succeeded.
Active(o) ==
    LET n == reg[o].name IN
    /\ pc[o] = "active"
    /\ status' = [status EXCEPT ![n] = "active"]
    /\ Started(o)
    /\ UNCHANGED <<dir, rt>>

-----------------------------------------------------------------------------
(* cube-ctl stop                                                           *)

Stop(o, n) ==
    /\ Known(n)
    /\ Command(o, "stop", Args(n, {}))
    /\ UNCHANGED <<dir, rt, status>>

\* Mutant: the status is set to what the manager says.
StopKeyLost(o) ==
    /\ pc[o] = "stop"
    /\ rt' = [rt EXCEPT ![reg[o].name] = NoContainer]
    /\ status' = [status EXCEPT ![reg[o].name] = rt[reg[o].name].state]
    /\ Goto(o, "idle")
    /\ UNCHANGED dir

\* The list of running containers is read from a variable that is never set
\* (open_container_running), so the branch that sets the status key is not
\* taken: the container is deleted by force, and that is all.
StopDelete(o) ==
    /\ pc[o] = "stop"
    /\ rt' = [rt EXCEPT ![reg[o].name] = NoContainer]
    /\ Goto(o, "idle")
    /\ UNCHANGED <<dir, status>>

-----------------------------------------------------------------------------
(* cube-ctl del                                                            *)

\* The same variable is asked whether the container runs: it never does.
Delete(o, n) ==
    /\ Known(n)
    /\ StopsFirst => ~Live(n)
    /\ Command(o, "del_runtime", Args(n, {}))
    /\ UNCHANGED <<dir, rt, status>>

\* runc delete without -f refuses a running container, and is not looked at.
DeleteRuntime(o) ==
    LET n == reg[o].name IN
    /\ pc[o] = "del_runtime"
    /\ rt' = IF rt[n].state = "running" THEN rt ELSE [rt EXCEPT ![n] = NoContainer]
    /\ Goto(o, "del_dir")
    /\ UNCHANGED <<dir, status>>

DeleteDir(o) ==
    /\ pc[o] = "del_dir"
    /\ dir' = [dir EXCEPT ![reg[o].name] = NoDir]
    /\ Goto(o, "del_key")
    /\ UNCHANGED <<rt, status>>

DeleteKey(o) ==
    /\ pc[o] = "del_key"
    /\ status' = [status EXCEPT ![reg[o].name] = "none"]
    /\ Goto(o, "idle")
    /\ UNCHANGED <<dir, rt>>

-----------------------------------------------------------------------------
(* cube-ctl rename                                                         *)

\* Mutant: the new name is not looked up.
RenameOnto(o, n, m) ==
    /\ Known(n)
    /\ Command(o, IF ListedRunning(n) THEN "mv_stop" ELSE "mv_move",
               [Args(n, {}) EXCEPT !.new = m, !.was_running = ListedRunning(n)])
    /\ UNCHANGED <<dir, rt, status>>

\* The first name must be known and not be the netprime, the second must not
\* be known; a running container is stopped by a cube-ctl of its own.
Rename(o, n, m) ==
    /\ Known(n)
    /\ ~Known(m)
    /\ Command(o, IF ListedRunning(n) THEN "mv_stop" ELSE "mv_move",
               [Args(n, {}) EXCEPT !.new = m, !.was_running = ListedRunning(n)])
    /\ UNCHANGED <<dir, rt, status>>

RenameStop(o) ==
    LET n == reg[o].name IN
    /\ pc[o] = "mv_stop"
    /\ rt' = IF Known(n) THEN [rt EXCEPT ![n] = NoContainer] ELSE rt
    /\ Goto(o, "mv_move")
    /\ UNCHANGED <<dir, status>>

\* cube-cfg gen.
Generated(d) ==
    IF d.stage = "unpacked" THEN [d EXCEPT !.stage = "generated"] ELSE d

\* mv, into the directory of the new name where there is one, which buries the
\* container in it; then the configuration is generated under the new name.
\* The status key stays with the old one.
RenameMove(o) ==
    LET n == reg[o].name
        m == reg[o].new
        moved == dir[n].stage # "absent" /\ dir[m].stage = "absent" IN
    /\ pc[o] = "mv_move"
    /\ dir' = [dir EXCEPT ![m] = Generated(IF moved THEN dir[n] ELSE @),
                          ![n] = NoDir]
    /\ Goto(o, "mv_turn")
    /\ UNCHANGED <<rt, status>>

\* "restarting ${orig_name} as ${new_name}": cube-ctl start of the old name.
RenameRestart(o) ==
    /\ pc[o] = "mv_turn"
    /\ Goto(o, IF reg[o].was_running THEN "turn" ELSE "mv_done")
    /\ UNCHANGED <<dir, rt, status>>

RenameDone(o) ==
    /\ pc[o] = "mv_done"
    /\ Goto(o, "idle")
    /\ UNCHANGED <<dir, rt, status>>

-----------------------------------------------------------------------------
(* The machine                                                             *)

\* The init process of a container ends; the manager remembers it as stopped.
Exit(n) ==
    /\ rt[n].state = "running"
    /\ rt' = [rt EXCEPT ![n] = [state |-> "stopped", files |-> {}]]
    /\ UNCHANGED <<dir, status, pc, reg>>

\* The machine restarts in the middle of whatever was going on.
Reboot ==
    /\ rt' = [n \in Names |-> NoContainer]
    /\ pc' = [o \in Operators |-> "idle"]
    /\ reg' = [o \in Operators |-> NoRegisters]
    /\ broken' = (broken \/ \E o \in Operators : pc[o] \in {"place", "configure"})
    /\ UNCHANGED <<dir, status>>

Begin(o) ==
    \E n \in Names :
        \/ Add(o, n) \/ Start(o, n) \/ Stop(o, n) \/ Delete(o, n)
        \/ \E m \in Names : Rename(o, n, m)

Continue(o) ==
    \/ Extract(o) \/ Clear(o) \/ Place(o) \/ Configure(o)
    \/ Turn(o) \/ Create(o) \/ Go(o) \/ Active(o)
    \/ StopDelete(o)
    \/ DeleteRuntime(o) \/ DeleteDir(o) \/ DeleteKey(o)
    \/ RenameStop(o) \/ RenameMove(o) \/ RenameRestart(o) \/ RenameDone(o)

AddFails(o) == ExtractFails(o) \/ ClearFails(o) \/ PlaceFails(o)

Next ==
    \/ \E o \in Operators : (Begin(o) \/ Continue(o)) /\ UNCHANGED broken
    \/ \E o \in Operators : AddFails(o)
    \/ \E n \in Names : Exit(n) /\ UNCHANGED broken
    \/ Reboot

Spec == Init /\ [][Next]_vars

-----------------------------------------------------------------------------
(* Properties                                                              *)

TypeOK ==
    /\ dir \in [Names -> Dirs]
    /\ rt \in [Names -> Containers]
    /\ status \in [Names -> {"none", "active", "inactive"}]
    /\ pc \in [Operators -> Steps]
    /\ reg \in [Operators -> Registers \cup {NoRegisters}]
    /\ \A o \in Operators : pc[o] # "idle" => reg[o] \in Registers
    /\ broken \in BOOLEAN

\* A live container that the lists count keeps the files of its rootfs: no
\* delete, rename or add gets at its directory, in whatever state earlier adds
\* broke off.  (A live container on a directory the lists do not count is
\* fair game for the rm -rf of an add.)
LiveKeepsRootfs ==
    [][ \A n \in Names : Known(n) /\ Live(n) /\ Live(n)' =>
          Known(n)' /\ dir[n].files \subseteq dir'[n].files ]_vars

\* As long as no add has been broken off, a live container can be reached by
\* the commands, so that it can be stopped, and its directory holds the files it
\* was created from and no others.
LiveIsInstalled ==
    ~broken => \A n \in Names : Live(n) => Known(n) /\ rt[n].files = dir[n].files

\* As long, the rootfs of an installed container comes from one image.
OneImage ==
    ~broken => \A n \in Names : Known(n) => Cardinality(dir[n].files) = 1

\* As long, an installed container leaves its name only by a delete of that
\* name, or for another name, whole.
NothingLost ==
    [][ \A n \in Names :
          ~broken /\ Known(n) /\ ~Known(n)' =>
              \/ \E o \in Operators : pc[o] = "del_dir" /\ reg[o].name = n
              \/ \E m \in Names \ {n} : ~Known(m) /\ dir'[m] = dir[n] ]_vars
=============================================================================
