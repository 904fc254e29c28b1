----------------------------- MODULE StartOrder -----------------------------
(***************************************************************************)
(* One run of the two launchers of containers, from the list of names to   *)
(* the last launch: `cube-ctl [--auto <tag>] start [<name>]` in dom0, and  *)
(* essential-autostart in essential.                                       *)
(*                                                                         *)
(* Both build a start list from the names they are given and the depends   *)
(* files, then walk it.  cube-ctl asks the container manager about each    *)
(* container before it launches it, and ends with a walk over the names it *)
(* was given to put the stacked network rules in place; essential does     *)
(* neither.  A launch may fail, and neither script looks; a container may  *)
(* end at any time.  Other agents that start, stop and delete containers   *)
(* meanwhile are the subject of module CubeCtl.                            *)
(*                                                                         *)
(* A rule is a line of cube.network.stack, told apart by the container     *)
(* whose address it names: `cube-cfg link` writes one at most.  .cube.pid  *)
(* is written at every start and removed by nobody, so it is right for the *)
(* containers that run, and stale or missing for the others.               *)
(***************************************************************************)
EXTENDS StartList, FiniteSets

CONSTANTS Dependencies,  \* the contents of the depends files considered
          StackFiles     \* the contents of the cube.network.stack files

\* The container whose address a rule names, if it names one.
Rules == Containers \cup {NoContainer}

ASSUME DependenciesAssumption == Dependencies \subseteq DependsFiles
ASSUME StackFilesAssumption == StackFiles \subseteq [Containers -> SUBSET Rules]

VARIABLES launcher,   \* which of the two scripts runs
          depends,    \* the depends file of each container
          installed,  \* containers with a config.json or a pflask.cmd
          rules,      \* the rules of each container's cube.network.stack
          request,    \* $container_names
          pc,         \* the loop the script is in
          at,         \* the next element of that loop
          order,      \* $start_order
          running,    \* containers the manager runs
          launched,   \* the launches, in order (history)
          served,     \* launched, or found running (history)
          stacked,    \* <<container, rule>> this run put into its namespace
          refused     \* those it could not put there (history)

config == <<launcher, depends, installed, rules, request>>
network == <<stacked, refused>>
vars == <<config, pc, at, order, running, launched, served, network>>

-----------------------------------------------------------------------------

\* The names of the autostart containers, as `ls` lists them: no name twice,
\* and any order, the names being whatever the operator gave.
AutoLists ==
    { s \in UNION { [1..n -> Containers] : n \in 0..Cardinality(Containers) } :
        \A i, j \in DOMAIN s : s[i] = s[j] => i = j }

\* cube-ctl takes a name on the command line too, and puts it in front.
Requests(l) ==
    IF l = "essential"
    THEN AutoLists
    ELSE { pre \o auto :
             pre \in {<<>>} \cup { <<c>> : c \in Containers }, auto \in AutoLists }

Init ==
    /\ launcher \in {"cube_ctl", "essential"}
    /\ depends \in Dependencies
    /\ installed \in SUBSET Containers
    /\ rules \in StackFiles
    /\ request \in Requests(launcher)
    /\ running \in IF launcher = "essential" THEN {{}} ELSE SUBSET installed
    /\ pc = "order"
    /\ at = 1
    /\ order = <<>>
    /\ launched = <<>>
    /\ served = {}
    /\ stacked = {} /\ refused = {}

\* The loop that builds the list.
Order ==
    /\ pc = "order"
    /\ at <= Len(request)
    /\ order' = AddToOrder(order, depends, request[at])
    /\ at' = at + 1
    /\ UNCHANGED <<config, pc, running, launched, served, network>>

Ordered ==
    /\ pc = "order"
    /\ at > Len(request)
    /\ pc' = "launch"
    /\ at' = 1
    /\ UNCHANGED <<config, order, running, launched, served, network>>

\* A name on the list that nothing is installed under is passed over.
SkipMissing ==
    /\ pc = "launch"
    /\ at <= Len(order)
    /\ order[at] \notin installed
    /\ at' = at + 1
    /\ UNCHANGED <<config, pc, order, running, launched, served, network>>

\* "container ${container} is already running ...": cube-ctl only.
AlreadyRunning ==
    /\ pc = "launch"
    /\ at <= Len(order)
    /\ launcher = "cube_ctl"
    /\ order[at] \in running
    /\ served' = served \cup {order[at]}
    /\ at' = at + 1
    /\ UNCHANGED <<config, pc, order, running, launched, network>>

\* pflask.cmd or oci.cmd; its exit status is not looked at.
Launch ==
    /\ pc = "launch"
    /\ at <= Len(order)
    /\ order[at] \in installed
    /\ launcher = "cube_ctl" => order[at] \notin running
    /\ running' \in {running, running \cup {order[at]}}
    /\ launched' = Append(launched, order[at])
    /\ served' = served \cup {order[at]}
    /\ at' = at + 1
    /\ UNCHANGED <<config, pc, order, network>>

\* cube-ctl goes on with the network rules, essential-autostart ends.
Launched ==
    /\ pc = "launch"
    /\ at > Len(order)
    /\ pc' = IF launcher = "cube_ctl" THEN "stack" ELSE "done"
    /\ at' = 1
    /\ UNCHANGED <<config, order, running, launched, served, network>>

\* Mutant: rules are set for what this run launched.
StackedLaunched == launched

\* `cube-ctl stack` of each name, through the network namespace of the running
\* container (dom0, the first name of the loop, is not one of Containers).
StackedNames == request

\* The rules of c that get an address: `ip route get` through the pid of the
\* container named.  From a missing pid comes no address, and the rule is
\* marked donotrun; from a stale one a word of an error message, at which
\* iptables balks.  The pid of c itself is what the commands are run with.
Resolved(c) ==
    IF c \in running THEN rules[c] \cap (running \cup {NoContainer}) ELSE {}

\* Mutant: rules are set for a container that is not running.
StackUnlooked ==
    /\ pc = "stack"
    /\ at <= Len(StackedNames)
    /\ stacked' = stacked \cup ({StackedNames[at]} \X rules[StackedNames[at]])
    /\ at' = at + 1
    /\ UNCHANGED <<config, pc, order, running, launched, served, refused>>

\* Any rule may be refused: the container named has no route yet, which is
\* donotrun again, there is no network device, or iptables fails; the exit
\* status of nsenter is not looked at.
Stack ==
    /\ pc = "stack"
    /\ at <= Len(StackedNames)
    /\ LET name == StackedNames[at] IN
         \E lost \in SUBSET Resolved(name) :
           /\ stacked' = stacked \cup ({name} \X (Resolved(name) \ lost))
           /\ refused' = refused \cup ({name} \X lost)
    /\ at' = at + 1
    /\ UNCHANGED <<config, pc, order, running, launched, served>>

Finish ==
    /\ pc = "stack"
    /\ at > Len(StackedNames)
    /\ pc' = "done"
    /\ UNCHANGED <<config, at, order, running, launched, served, network>>

\* A container ends, and its network namespace with it.
Exit(c) ==
    /\ c \in running
    /\ running' = running \ {c}
    /\ stacked' = { p \in stacked : p[1] # c }
    /\ UNCHANGED <<config, pc, at, order, launched, served, refused>>

Next ==
    \/ Order \/ Ordered
    \/ SkipMissing \/ AlreadyRunning \/ Launch \/ Launched
    \/ Stack \/ Finish
    \/ \E c \in Containers : Exit(c)

Spec == Init /\ [][Next]_vars

-----------------------------------------------------------------------------
(* Properties                                                              *)

TypeOK ==
    /\ launcher \in {"cube_ctl", "essential"}
    /\ depends \in Dependencies
    /\ installed \subseteq Containers
    /\ rules \in StackFiles
    /\ request \in Seq(Containers)
    /\ pc \in {"order", "launch", "stack", "done"}
    /\ at \in Nat \ {0}
    /\ order \in Seq(Containers)
    /\ running \subseteq installed
    /\ launched \in Seq(installed)
    /\ served \subseteq installed
    /\ stacked \subseteq running \X Rules
    /\ refused \subseteq Containers \X Rules

\* A container is launched only after the container its depends file names
\* had its turn: it was running or its launch was tried before.  This is what
\* the comment above the resolution loop promises (cube-ctl 1838-1840).
DependencyServedFirst ==
    [][ \A c \in installed :
          launched' = Append(launched, c) /\ depends[c] \in installed
              => depends[c] \in served ]_vars

\* One run launches no container twice.  essential-autostart depends on it: it
\* launches whatever is on its list without looking whether it runs.
LaunchedOnce ==
    \A i, j \in DOMAIN launched : launched[i] = launched[j] => i = j

\* By the end of the launches every installed container that was asked for has
\* had its turn, and so has the dependency it names.
AllServed ==
    pc \in {"stack", "done"} =>
        \A i \in DOMAIN request :
            ({request[i], depends[request[i]]} \cap installed) \subseteq served

\* "once everything has started, look for stacked network commands": when
\* cube-ctl ends, a container it was asked for has, if it is up, whether this
\* run launched it or found it running, every rule about the containers that
\* are up, whichever of them came up last; but for those the walk itself could
\* not put in place.
RequestedIsStacked ==
    pc = "done" /\ launcher = "cube_ctl" =>
        \A i \in DOMAIN request : \A r \in rules[request[i]] :
            request[i] \in running /\ r \in running \cup {NoContainer} =>
                <<request[i], r>> \in stacked \cup refused

=============================================================================
