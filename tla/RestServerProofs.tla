-------------------------- MODULE RestServerProofs --------------------------
(***************************************************************************)
(* Requests that run in threads without a lock: what one of them is        *)
(* answered is true as long as no other request changes its container or   *)
(* its image meanwhile, for any number of threads, containers, releases,   *)
(* and whatever downloads, moves, packages and starts fail.                *)
(***************************************************************************)
EXTENDS RestServer, TLAPS

\* The parts of ServerTypeOK.
MachineOK ==
  /\ feed \in Releases
  /\ images \in [Containers -> {0, Torn} \cup Releases]
  /\ current \in [Containers -> {0} \cup Releases]
  /\ history \in [Containers -> Seq(Releases)]
  /\ up \subseteq Containers

\* What a worker at a step has in its variables.
Fits(step, j) ==
  /\ step \in {"wget", "move", "moving"} => j.todo # <<>>
  /\ step \in {"move", "moving"} => j.got # 0

WorkersOK ==
  /\ pc \in [Workers -> Steps]
  /\ job \in [Workers -> Jobs \cup {NoJob}]
  /\ \A w \in Workers : pc[w] # "idle" => job[w] \in Jobs /\ Fits(pc[w], job[w])

TypeInv == MachineOK /\ WorkersOK /\ disturbed \subseteq Busy

\* The steps a request to upgrade by image goes through.
ImageSteps == {"wget", "move", "moving", "image", "dom0", "status", "stop",
               "install", "start", "back"}

\* What was replaced is known from the installation on, and nothing is asked for
\* that was not published.
JobKnown(w) ==
  pc[w] # "idle" =>
    /\ pc[w] \notin {"start", "back"} => job[w].replaced = 0
    /\ job[w].goal <= feed
    /\ job[w].cmd = "upgrade_image" => pc[w] \in ImageSteps

\* The release on top of the history of a container.
OnTop(h, r) == h # <<>> /\ h[Len(h)] = r

\* Left alone, an activation finds on top of the history what it replaced.
CanUndo(w) ==
  pc[w] \in {"start", "back"} /\ w \notin disturbed /\ job[w].replaced # 0 =>
    OnTop(history[Name(w)], job[w].replaced)

\* An image, or a container, is of a release or a later one.
AtLeast(r, goal) == r \in Releases /\ r >= goal

\* An image that is still to be pulled.
Ahead(todo, c) == \E i \in DOMAIN todo : todo[i] = c

\* What an upgrade by image relies on while it is left alone: its image is as
\* new as the goal from its pull on, and then its container, or what it
\* replaced is known.
Relies(w) ==
  LET c == Name(w)
      goal == job[w].goal IN
  /\ pc[w] \in {"wget", "move", "moving"} =>
       Ahead(job[w].todo, c) \/ AtLeast(images[c], goal)
  /\ pc[w] \in {"move", "moving"} => AtLeast(job[w].got, goal)
  /\ pc[w] \in {"image", "dom0", "status", "stop", "install"} =>
       AtLeast(images[c], goal)
  /\ pc[w] \in {"stop", "install"} /\ job[w].upgrade => current[c] # 0
  /\ pc[w] = "start" =>
       /\ AtLeast(current[c], goal)
       /\ job[w].upgrade => job[w].replaced # 0
  /\ pc[w] = "back" => job[w].replaced # 0

UpgradeGood(w) ==
  /\ pc[w] # "idle" /\ job[w].cmd = "upgrade_image" /\ w \notin disturbed
  /\ Pulled(Name(w))
  => Relies(w)

Good(w) == JobKnown(w) /\ CanUndo(w) /\ ("install" \notin Faults => UpgradeGood(w))

ServerInv == TypeInv /\ \A w \in Workers : Good(w)

---------------------------------------------------------------------------
(* The steps of a request                                                  *)

\* A worker goes on with its request, or ends it; the others stay where they
\* are.
LEMMA KeepWorkers ==
  ASSUME WorkersOK, NEW w \in Workers, NEW step \in Steps, NEW j \in Jobs,
         Fits(step, j), Keep(w, step, j)
  PROVE  /\ WorkersOK' /\ pc'[w] = step /\ job'[w] = j
         /\ \A v \in Workers \ {w} : pc'[v] = pc[v] /\ job'[v] = job[v]
  BY DEF WorkersOK, Keep

LEMMA RespondWorkers ==
  ASSUME WorkersOK, NEW w \in Workers, NEW result, Respond(w, result)
  PROVE  /\ WorkersOK' /\ pc'[w] = "idle"
         /\ \A v \in Workers \ {w} : pc'[v] = pc[v] /\ job'[v] = job[v]
  BY DEF WorkersOK, Respond, Steps

\* A worker that is at a step has a request.
LEMMA JobFields ==
  ASSUME WorkersOK, NEW w \in Workers, pc[w] # "idle"
  PROVE  /\ job[w] \in Jobs
         /\ job[w].cmd \in Routes
         /\ Name(w) \in Containers
         /\ job[w].todo \in Seq(Containers)
         /\ job[w].got \in {0} \cup Releases
         /\ job[w].upgrade \in BOOLEAN
         /\ job[w].replaced \in {0} \cup Releases
         /\ job[w].goal \in Releases
<1>1. job[w] \in Jobs
  BY DEF WorkersOK
<1> QED BY <1>1 DEF Jobs, Name

\* A snapshot of a container that there is goes on top of its history, and those
\* of the others stay as they are.
LEMMA SaveHistory ==
  ASSUME MachineOK, NEW c \in Containers
  PROVE  /\ Save(c) \in [Containers -> Seq(Releases)]
         /\ \A d \in Containers \ {c} : Save(c)[d] = history[d]
         /\ current[c] # 0 => OnTop(Save(c)[c], current[c])
<1>1. history[c] \in Seq(Releases) /\ current[c] \in {0} \cup Releases
  BY DEF MachineOK
<1>2. CASE current[c] = 0
  BY <1>2 DEF Save, MachineOK
<1>3. CASE current[c] # 0
  <2> DEFINE h == Append(history[c], current[c])
  <2>1. current[c] \in Releases
    BY <1>1, <1>3
  <2>2. h \in Seq(Releases) /\ Len(h) = Len(history[c]) + 1 /\ Len(history[c]) \in Nat
        /\ h[Len(history[c]) + 1] = current[c]
    BY <1>1, <2>1
  <2>3. OnTop(h, current[c])
    <3>1. h # <<>>
      BY <2>2
    <3> QED BY <2>2, <3>1 DEF OnTop
  <2>4. Save(c) = [history EXCEPT ![c] = h]
    BY <1>3 DEF Save
  <2> HIDE DEF h
  <2> QED BY <2>2, <2>3, <2>4 DEF MachineOK
<1> QED BY <1>2, <1>3

\* What a container had before its last snapshot.
LEMMA Popped ==
  ASSUME NEW h \in Seq(Releases), h # <<>>
  PROVE  h[Len(h)] \in Releases /\ SubSeq(h, 1, Len(h) - 1) \in Seq(Releases)
<1>1. Len(h) \in Nat /\ Len(h) # 0
  OBVIOUS
<1> QED BY <1>1

\* The images left to pull.
LEMMA TodoLeft ==
  ASSUME NEW s \in Seq(Containers), s # <<>>
  PROVE  /\ Head(s) \in Containers
         /\ Tail(s) \in Seq(Containers)
         /\ \A c : Ahead(s, c) => Head(s) = c \/ Ahead(Tail(s), c)
<1>1. /\ Len(s) \in Nat /\ Len(s) # 0 /\ Head(s) = s[1] /\ s[1] \in Containers
      /\ Tail(s) \in Seq(Containers) /\ Len(Tail(s)) = Len(s) - 1
      /\ \A i \in 1..(Len(s) - 1) : Tail(s)[i] = s[i + 1]
  OBVIOUS
<1>2. ASSUME NEW i \in DOMAIN s, i # 1 PROVE Ahead(Tail(s), s[i])
  <2>1. i - 1 \in DOMAIN Tail(s) /\ Tail(s)[i - 1] = s[i]
    BY <1>1, <1>2
  <2> QED BY <2>1 DEF Ahead
<1> QED BY <1>1, <1>2 DEF Ahead

LEMMA NoneAhead == \A c : ~Ahead(<<>>, c)
<1>1. DOMAIN <<>> = {}
  OBVIOUS
<1> QED BY <1>1 DEF Ahead

---------------------------------------------------------------------------
(* The others                                                              *)

\* Worker w made a step that changed no other worker's.
Alone(w) == \A v \in Workers \ {w} : pc'[v] = pc[v] /\ job'[v] = job[v]

\* History: who was disturbed by the step.
Marks(w) ==
  disturbed' = { v \in Workers :
                   /\ pc'[v] # "idle"
                   /\ v \in disturbed \/ (v # w /\ About(v)' # About(v)) }

\* A worker that a step of another one does not disturb is as good as before.
LEMMA OthersGood ==
  ASSUME ServerInv, NEW w \in Workers, NEW v \in Workers \ {w},
         Alone(w), Marks(w), UNCHANGED feed
  PROVE  Good(v)'
<1>1. pc'[v] = pc[v] /\ job'[v] = job[v] /\ Name(v)' = Name(v)
  BY DEF Alone, Name
<1>2. Good(v)
  BY DEF ServerInv
<1>3. JobKnown(v)'
  BY <1>1, <1>2 DEF Good, JobKnown
<1>4. CASE v \in disturbed' \/ pc[v] = "idle"
  BY <1>1, <1>3, <1>4 DEF Good, CanUndo, UpgradeGood
<1>5. CASE v \notin disturbed' /\ pc[v] # "idle"
  <2>1. v \notin disturbed /\ About(v)' = About(v)
    BY <1>1, <1>5 DEF Marks
  <2>2. /\ (images[Name(v)])' = images[Name(v)]
        /\ (current[Name(v)])' = current[Name(v)]
        /\ (history[Name(v)])' = history[Name(v)]
    BY <2>1 DEF About
  <2>3. CanUndo(v)'
    BY <1>1, <1>2, <2>1, <2>2 DEF Good, CanUndo
  <2>4. Relies(v)' <=> Relies(v)
    BY <1>1, <2>2 DEF Relies
  <2>5. UpgradeGood(v) => UpgradeGood(v)'
    BY <1>1, <2>1, <2>4 DEF UpgradeGood
  <2> QED BY <1>2, <1>3, <2>3, <2>5 DEF Good
<1> QED BY <1>4, <1>5

---------------------------------------------------------------------------
(* The worker itself                                                       *)

Answers == {"none", "usage", "error", "ok", "failed"}

\* What a step of w leaves behind, of the machine and of w.
Outcome(w) ==
  TypeInv' /\ Alone(w) /\ Good(w)' /\ answer' \in Answers /\ UNCHANGED feed

\* Left alone, and with an image of its own, an upgrade may rely on this.
Counts(w) ==
  /\ "install" \notin Faults
  /\ job[w].cmd = "upgrade_image" /\ w \notin disturbed /\ Pulled(Name(w))

LEMMA EndGood ==
  ASSUME ServerInv, NEW w \in Workers, Marks(w), NEW r \in Answers, Respond(w, r),
         MachineOK', UNCHANGED feed
  PROVE  Outcome(w)
<1>1. /\ WorkersOK' /\ pc'[w] = "idle" /\ Alone(w)
  BY RespondWorkers DEF ServerInv, TypeInv, Alone
<1>2. TypeInv'
  BY <1>1 DEF TypeInv, Marks, Busy
<1>3. Good(w)'
  BY <1>1 DEF Good, JobKnown, CanUndo, UpgradeGood
<1> QED BY <1>1, <1>2, <1>3 DEF Outcome, Respond

LEMMA KeepGood ==
  ASSUME ServerInv, NEW w \in Workers, Marks(w),
         NEW step \in Steps \ {"idle"}, NEW j \in Jobs, Fits(step, j), Keep(w, step, j),
         MachineOK', UNCHANGED feed,
         step \notin {"start", "back"} => j.replaced = 0,
         j.goal <= feed,
         j.cmd = "upgrade_image" => step \in ImageSteps,
         step \in {"start", "back"} /\ w \notin disturbed /\ j.replaced # 0 =>
           OnTop(history'[j.name], j.replaced),
         /\ "install" \notin Faults /\ j.cmd = "upgrade_image" /\ w \notin disturbed
         /\ Pulled(j.name)
         => Relies(w)'
  PROVE  Outcome(w)
<1>1. WorkersOK' /\ pc'[w] = step /\ job'[w] = j /\ Alone(w)
  BY KeepWorkers DEF ServerInv, TypeInv, Alone
<1>2. TypeInv'
  BY <1>1 DEF TypeInv, Marks, Busy
<1>3. w \notin disturbed' => w \notin disturbed
  BY <1>1 DEF Marks
<1>4. Name(w)' = j.name
  BY <1>1 DEF Name
<1>5. JobKnown(w)' /\ CanUndo(w)'
  BY <1>1, <1>3, <1>4 DEF JobKnown, CanUndo
<1>6. "install" \notin Faults => UpgradeGood(w)'
  BY <1>1, <1>3, <1>4 DEF UpgradeGood, Pulled
<1>7. answer' \in Answers
  BY DEF Keep, Answers
<1> QED BY <1>1, <1>2, <1>5, <1>6, <1>7 DEF Good, Outcome

\* A request that is accepted begins with nothing pulled and nothing replaced.
LEMMA AcceptGood ==
  ASSUME ServerInv, NEW w \in Workers, Marks(w), NEW cmd \in Routes, NEW c \in Containers,
         NEW step \in {"wget", "image", "check", "run"}, NEW todo \in Seq(Containers),
         step = "wget" => todo # <<>>,
         cmd = "upgrade_image" => step = "wget" /\ todo = ImageOrder,
         Accept(w, cmd, c, step, todo)
  PROVE  Outcome(w)
<1> DEFINE j == [cmd |-> cmd, name |-> c, todo |-> todo, got |-> 0,
                 upgrade |-> FALSE, replaced |-> 0,
                 goal |-> IF cmd = "upgrade_image" THEN feed ELSE 1]
<1>1. MachineOK /\ MachineOK' /\ UNCHANGED feed /\ Keep(w, step, j)
  BY DEF ServerInv, TypeInv, Accept, machine, MachineOK
<1>2. feed \in Releases /\ 1 \in Releases /\ 1 <= feed
  BY <1>1, ServerAssumption DEF MachineOK, Releases
<1>3. j \in Jobs
  BY <1>2 DEF Jobs
<1>4. /\ j.name = c /\ j.cmd = cmd /\ j.todo = todo /\ j.replaced = 0 /\ j.goal <= feed
  BY <1>2 DEF Releases
<1> HIDE DEF j
<1>5. Fits(step, j)
  BY <1>4 DEF Fits
<1>6. step \in Steps \ {"idle"}
  BY DEF Steps
<1>7. pc'[w] = step /\ job'[w] = j
  BY <1>1, <1>3, <1>5, <1>6, KeepWorkers DEF ServerInv, TypeInv
<1>8. cmd = "upgrade_image" /\ Pulled(c) => Relies(w)'
  BY <1>4, <1>7 DEF Relies, Pulled, Ahead, Name
<1> QED BY <1>1, <1>3, <1>4, <1>5, <1>6, <1>8, KeepGood DEF ImageSteps

LEMMA RequestGood ==
  ASSUME ServerInv, NEW w \in Workers, Marks(w), Request(w)
  PROVE  Outcome(w)
<1>1. ASSUME NEW r \in {"usage", "error", "ok"}, Refuse(w, r) PROVE Outcome(w)
  <2>1. Respond(w, r) /\ UNCHANGED feed /\ MachineOK' /\ r \in Answers
    BY <1>1 DEF Refuse, machine, ServerInv, TypeInv, MachineOK, Answers
  <2> QED BY <2>1, EndGood
<1>2. CASE \/ Incomplete(w) \/ HostUpdate(w) \/ HostNewer(w)
           \/ SystemRollback(w) \/ SystemUpgrade(w) \/ ContainerRollback(w)
  BY <1>1, <1>2 DEF Incomplete, HostUpdate, HostNewer, SystemRollback, SystemUpgrade,
     ContainerRollback
<1>3. ImageOrder \in Seq(Containers) /\ ImageOrder # <<>> /\ Dom0 \in Containers
      /\ <<>> \in Seq(Containers)
  BY ServerAssumption
<1>4. CASE ContainerUpdate(w)
  BY <1>3, <1>4, AcceptGood DEF ContainerUpdate, Routes
<1>5. CASE ContainerList(w) \/ ContainerListSnapshots(w)
  BY <1>3, <1>5, AcceptGood DEF ContainerList, ContainerListSnapshots, Routes
<1>6. ASSUME NEW c \in Containers, ContainerSendImage(w, c) PROVE Outcome(w)
  <2>1. <<c>> \in Seq(Containers) /\ <<c>> # <<>>
    OBVIOUS
  <2> QED BY <1>6, <2>1, AcceptGood DEF ContainerSendImage, Routes
<1>7. ASSUME NEW c \in Containers, ContainerActivate(w, c) PROVE Outcome(w)
  BY <1>3, <1>7, AcceptGood DEF ContainerActivate, Routes
<1>8. ASSUME NEW c \in Containers, ContainerUpgrade(w, c) PROVE Outcome(w)
  <2>1. \/ Accept(w, "upgrade_image", c, "wget", ImageOrder)
        \/ Accept(w, "upgrade_rpm", c, "check", <<>>)
    BY <1>8 DEF ContainerUpgrade
  <2> QED BY <1>3, <2>1, AcceptGood DEF Routes
<1>9. ASSUME NEW c \in Containers,
             \/ ContainerStart(w, c) \/ ContainerStop(w, c) \/ ContainerSnapshot(w, c)
             \/ ContainerDelete(w, c) \/ ContainerDeleteSnapshots(w, c)
      PROVE  Outcome(w)
  <2>1. PICK cmd \in OneCalls : Accept(w, cmd, c, "run", <<>>)
    BY <1>9 DEF ContainerStart, ContainerStop, ContainerSnapshot, ContainerDelete,
       ContainerDeleteSnapshots, OneCalls
  <2>2. cmd \in Routes /\ cmd # "upgrade_image"
    BY DEF Routes, OneCalls
  <2> QED BY <1>3, <2>1, <2>2, AcceptGood
<1> QED BY <1>2, <1>4, <1>5, <1>6, <1>7, <1>8, <1>9 DEF Request

\* What is known of a worker at a step.
LEMMA AtStep ==
  ASSUME ServerInv, NEW w \in Workers, pc[w] # "idle"
  PROVE  /\ MachineOK /\ WorkersOK /\ Fits(pc[w], job[w])
         /\ job[w] \in Jobs /\ Name(w) \in Containers
         /\ job[w].goal <= feed /\ feed \in Nat /\ job[w].goal \in Releases
         /\ pc[w] \notin {"start", "back"} => job[w].replaced = 0
         /\ job[w].cmd = "upgrade_image" => pc[w] \in ImageSteps
         /\ pc[w] \in {"start", "back"} /\ w \notin disturbed /\ job[w].replaced # 0 =>
              OnTop(history[Name(w)], job[w].replaced)
         /\ Counts(w) => Relies(w)
<1>1. MachineOK /\ WorkersOK /\ Good(w)
  BY DEF ServerInv, TypeInv
<1>2. feed \in Nat
  BY <1>1, ServerAssumption DEF MachineOK, Releases
<1> QED BY <1>1, <1>2, JobFields DEF WorkersOK, Good, JobKnown, CanUndo, UpgradeGood, Counts

LEMMA PullGood ==
  ASSUME ServerInv, NEW w \in Workers, Marks(w),
         \/ Wget(w) \/ WgetFails(w) \/ Move(w) \/ Moved(w) \/ MoveFails(w)
  PROVE  Outcome(w)
<1> DEFINE c == Name(w)
<1>1. pc[w] \in {"wget", "move", "moving"}
  BY DEF Wget, WgetFails, Move, Moved, MoveFails
<1>2. /\ MachineOK /\ WorkersOK /\ Fits(pc[w], job[w])
      /\ job[w] \in Jobs /\ c \in Containers
      /\ job[w].goal <= feed /\ feed \in Nat
      /\ job[w].replaced = 0
      /\ Counts(w) => Relies(w)
  BY <1>1, AtStep
<1>3. job[w].todo \in Seq(Containers) /\ job[w].todo # <<>> /\ job[w].name = c
      /\ job[w].got \in {0} \cup Releases /\ job[w].cmd \in Routes /\ job[w].goal \in Releases
  BY <1>1, <1>2 DEF Fits, Jobs, Name
<1>4. /\ Head(job[w].todo) \in Containers
      /\ Tail(job[w].todo) \in Seq(Containers)
      /\ Ahead(job[w].todo, c) => Head(job[w].todo) = c \/ Ahead(Tail(job[w].todo), c)
  BY <1>3, TodoLeft
<1>5. CASE WgetFails(w) \/ MoveFails(w)
  <2>1. Respond(w, "failed") /\ UNCHANGED machine
    BY <1>5 DEF WgetFails, MoveFails
  <2> QED BY <1>2, <2>1, EndGood DEF Answers, machine, MachineOK
<1>6. CASE Wget(w)
  <2>1. PICK r \in Releases :
          /\ IF job[w].cmd = "send_image" THEN r <= feed ELSE r = feed
          /\ Keep(w, "move", [job[w] EXCEPT !.got = r])
    BY <1>6 DEF Wget
  <2> DEFINE j == [job[w] EXCEPT !.got = r]
  <2>2. MachineOK' /\ UNCHANGED <<feed, images>> /\ pc[w] = "wget"
    BY <1>2, <1>6 DEF Wget, machine, MachineOK
  <2>3. j \in Jobs
    BY <1>2 DEF Jobs
  <2>4. /\ j.got = r /\ j.name = c /\ j.cmd = job[w].cmd /\ j.todo = job[w].todo
        /\ j.goal = job[w].goal /\ j.replaced = 0
    BY <1>2, <1>3 DEF Jobs
  <2>5. Keep(w, "move", j)
    BY <2>1
  <2> HIDE DEF j
  <2>6. Fits("move", j)
    BY <1>3, <2>4 DEF Fits, Releases
  <2>7. pc'[w] = "move" /\ job'[w] = j
    BY <1>2, <2>3, <2>5, <2>6, KeepWorkers DEF Steps
  <2>8. Counts(w) => Relies(w)'
    <3> SUFFICES ASSUME Counts(w) PROVE Relies(w)'
      OBVIOUS
    <3>1. Ahead(job[w].todo, c) \/ AtLeast(images[c], job[w].goal)
      BY <1>1, <1>2 DEF Relies
    <3>2. r = feed
      BY <2>1 DEF Counts
    <3>3. AtLeast(r, job[w].goal)
      BY <1>2, <3>2 DEF AtLeast
    <3> QED BY <2>2, <2>4, <2>7, <3>1, <3>3 DEF Relies, Name
  <2> QED BY <1>2, <2>2, <2>3, <2>4, <2>5, <2>6, <2>8, KeepGood
          DEF Steps, ImageSteps, Counts
<1>7. CASE Move(w)
  <2>1. Keep(w, "moving", job[w]) /\ pc[w] = "move"
        /\ images' = [images EXCEPT ![Head(job[w].todo)] = Torn]
        /\ UNCHANGED <<feed, current, history, up>>
    BY <1>7 DEF Move, Goto
  <2>2. MachineOK'
    BY <1>2, <1>4, <2>1 DEF MachineOK
  <2>3. Fits("moving", job[w])
    BY <1>2, <2>1 DEF Fits
  <2>4. pc'[w] = "moving" /\ job'[w] = job[w]
    BY <1>2, <2>1, <2>3, KeepWorkers DEF Steps
  <2>5. Counts(w) => Relies(w)'
    <3> SUFFICES ASSUME Counts(w) PROVE Relies(w)'
      OBVIOUS
    <3>1. /\ Ahead(job[w].todo, c) \/ AtLeast(images[c], job[w].goal)
          /\ AtLeast(job[w].got, job[w].goal)
      BY <1>2, <2>1 DEF Relies
    <3>2. Ahead(job[w].todo, c) \/ AtLeast(images'[c], job[w].goal)
      <4>1. CASE Head(job[w].todo) = c
        <5>1. job[w].todo[1] = c /\ 1 \in DOMAIN job[w].todo
          BY <1>3, <4>1
        <5> QED BY <5>1 DEF Ahead
      <4>2. CASE Head(job[w].todo) # c
        BY <1>2, <2>1, <3>1, <4>2 DEF MachineOK
      <4> QED BY <4>1, <4>2
    <3> QED BY <2>4, <3>1, <3>2 DEF Relies, Name
  <2> QED BY <1>2, <1>3, <2>1, <2>2, <2>3, <2>5, KeepGood DEF Steps, ImageSteps, Counts
<1>8. CASE Moved(w)
  <2> DEFINE left == Tail(job[w].todo)
             j == [job[w] EXCEPT !.todo = left, !.got = 0]
  <2>1. pc[w] = "moving" /\ AfterImage(w)
        /\ images' = [images EXCEPT ![Head(job[w].todo)] = job[w].got]
        /\ UNCHANGED <<feed, current, history, up>>
    BY <1>8 DEF Moved
  <2>2. MachineOK'
    BY <1>2, <1>3, <1>4, <2>1 DEF MachineOK
  <2>3. j \in Jobs
    BY <1>2, <1>4 DEF Jobs
  <2>4. /\ j.todo = left /\ j.name = c /\ j.cmd = job[w].cmd
        /\ j.goal = job[w].goal /\ j.replaced = 0
    BY <1>2, <1>3 DEF Jobs
  <2>5. Counts(w) => Ahead(left, c) \/ AtLeast(images'[c], job[w].goal)
    <3> SUFFICES ASSUME Counts(w) PROVE Ahead(left, c) \/ AtLeast(images'[c], job[w].goal)
      OBVIOUS
    <3>1. /\ Ahead(job[w].todo, c) \/ AtLeast(images[c], job[w].goal)
          /\ AtLeast(job[w].got, job[w].goal)
      BY <1>2, <2>1 DEF Relies
    <3>2. CASE Head(job[w].todo) = c
      BY <1>2, <2>1, <3>1, <3>2 DEF MachineOK
    <3>3. CASE Head(job[w].todo) # c
      BY <1>2, <1>4, <2>1, <3>1, <3>3 DEF MachineOK
    <3> QED BY <3>2, <3>3
  <2>6. \/ Respond(w, "ok")
        \/ left # <<>> /\ Keep(w, "wget", j)
        \/ left = <<>> /\ Keep(w, "image", j)
    BY <2>1 DEF AfterImage
  <2> HIDE DEF j, left
  <2>7. CASE Respond(w, "ok")
    BY <2>1, <2>2, <2>7, EndGood DEF Answers
  <2>8. CASE left # <<>> /\ Keep(w, "wget", j)
    <3>1. Fits("wget", j)
      BY <2>4, <2>8 DEF Fits
    <3>2. pc'[w] = "wget" /\ job'[w] = j
      BY <1>2, <2>3, <2>8, <3>1, KeepWorkers DEF Steps
    <3>3. Counts(w) => Relies(w)'
      BY <2>4, <2>5, <3>2 DEF Relies, Name
    <3> QED BY <1>2, <2>1, <2>2, <2>3, <2>4, <2>8, <3>1, <3>3, KeepGood
            DEF Steps, ImageSteps, Counts
  <2>9. CASE left = <<>> /\ Keep(w, "image", j)
    <3>1. Fits("image", j)
      BY DEF Fits
    <3>2. pc'[w] = "image" /\ job'[w] = j
      BY <1>2, <2>3, <2>9, <3>1, KeepWorkers DEF Steps
    <3>3. Counts(w) => Relies(w)'
      BY <2>4, <2>5, <2>9, <3>2, NoneAhead DEF Relies, Name
    <3> QED BY <1>2, <2>1, <2>2, <2>3, <2>4, <2>9, <3>1, <3>3, KeepGood
            DEF Steps, ImageSteps, Counts
  <2> QED BY <2>6, <2>7, <2>8, <2>9
<1> QED BY <1>5, <1>6, <1>7, <1>8

LEMMA ActivateGood ==
  ASSUME ServerInv, NEW w \in Workers, Marks(w),
         \/ ImageFound(w) \/ Status(w) \/ StopForUpgrade(w) \/ ActivateDom0(w)
         \/ Activate(w) \/ StartNew(w) \/ Back(w)
  PROVE  Outcome(w)
<1> DEFINE c == Name(w)
<1>1. pc[w] \in {"image", "status", "stop", "dom0", "install", "start", "back"}
  BY DEF ImageFound, Status, StopForUpgrade, ActivateDom0, Activate, StartNew, Back
<1>2. /\ MachineOK /\ WorkersOK
      /\ job[w] \in Jobs /\ c \in Containers
      /\ job[w].goal <= feed
      /\ pc[w] \notin {"start", "back"} => job[w].replaced = 0
      /\ pc[w] \in {"start", "back"} /\ w \notin disturbed /\ job[w].replaced # 0 =>
           OnTop(history[c], job[w].replaced)
      /\ Counts(w) => Relies(w)
  BY <1>1, AtStep
<1>3. job[w].name = c /\ job[w].upgrade \in BOOLEAN
  BY <1>2 DEF Jobs, Name
<1>4. /\ Save(c) \in [Containers -> Seq(Releases)]
      /\ current[c] # 0 => OnTop(Save(c)[c], current[c])
  BY <1>2, SaveHistory
<1>5. \A step : step \notin {"wget", "move", "moving"} => Fits(step, job[w])
  BY DEF Fits
<1>6. ASSUME NEW step \in Steps \ {"idle"}, step \notin {"wget", "move", "moving"},
             Keep(w, step, job[w])
      PROVE  pc'[w] = step /\ job'[w] = job[w]
  BY <1>2, <1>5, <1>6, KeepWorkers
<1>7. CASE ImageFound(w)
  <2>1. /\ pc[w] = "image" /\ UNCHANGED machine /\ MachineOK'
        /\ \/ Respond(w, "failed")
           \/ \E step \in {"dom0", "status"} : Keep(w, step, job[w])
    BY <1>2, <1>7 DEF ImageFound, Goto, machine, MachineOK
  <2>2. CASE Respond(w, "failed")
    BY <2>1, <2>2, EndGood DEF Answers, machine
  <2>3. ASSUME NEW step \in {"dom0", "status"}, Keep(w, step, job[w]) PROVE Outcome(w)
    <3>1. pc'[w] = step /\ job'[w] = job[w]
      BY <1>6, <2>3 DEF Steps
    <3>2. Counts(w) => Relies(w)'
      BY <1>2, <2>1, <3>1 DEF Relies, Name, machine
    <3> QED BY <1>2, <1>3, <1>5, <2>1, <2>3, <3>2, KeepGood
            DEF Steps, ImageSteps, Counts, machine
  <2> QED BY <2>1, <2>2, <2>3
<1>8. CASE Status(w)
  <2> DEFINE j == [job[w] EXCEPT !.upgrade = current[c] # 0]
  <2>1. /\ pc[w] = "status" /\ UNCHANGED machine /\ MachineOK'
    BY <1>2, <1>8 DEF Status, machine, MachineOK
  <2>2. j \in Jobs
    <3>1. (current[c] # 0) \in BOOLEAN
      OBVIOUS
    <3> QED BY <1>2, <3>1 DEF Jobs
  <2>3. /\ j.name = c /\ j.cmd = job[w].cmd /\ j.goal = job[w].goal
        /\ j.replaced = job[w].replaced /\ j.upgrade = (current[c] # 0)
    BY <1>2, <1>3 DEF Jobs
  <2>4. PICK step \in {"stop", "install"} : Keep(w, step, j)
    BY <1>8 DEF Status
  <2> HIDE DEF j
  <2>5. Fits(step, j)
    BY DEF Fits
  <2>6. pc'[w] = step /\ job'[w] = j
    BY <1>2, <2>2, <2>4, <2>5, KeepWorkers DEF Steps
  <2>7. Counts(w) => Relies(w)'
    BY <1>2, <2>1, <2>3, <2>6 DEF Relies, Name, machine
  <2> QED BY <1>2, <2>1, <2>2, <2>3, <2>4, <2>5, <2>7, KeepGood
          DEF Steps, ImageSteps, Counts, machine
<1>9. CASE StopForUpgrade(w)
  <2>1. /\ pc[w] = "stop" /\ Keep(w, "install", job[w])
        /\ UNCHANGED <<feed, images, current, history>> /\ up' = up \ {c}
    BY <1>9 DEF StopForUpgrade, Stops, Goto
  <2>2. MachineOK'
    BY <1>2, <2>1 DEF MachineOK
  <2>3. pc'[w] = "install" /\ job'[w] = job[w]
    BY <1>6, <2>1 DEF Steps
  <2>4. Counts(w) => Relies(w)'
    BY <1>2, <2>1, <2>3 DEF Relies, Name
  <2> QED BY <1>2, <1>3, <1>5, <2>1, <2>2, <2>4, KeepGood DEF Steps, ImageSteps, Counts
<1>10. ASSUME Install(w)
       PROVE  /\ MachineOK' /\ UNCHANGED <<feed, images, up>>
              /\ images[c] \in Releases
              /\ current'[c] = images[c]
              /\ current[c] # 0 => OnTop(history'[c], current[c])
  BY <1>2, <1>4, <1>10 DEF Install, MachineOK
<1>11. CASE ActivateDom0(w)
  <2>1. CASE Install(w) /\ Respond(w, "ok")
    BY <1>10, <2>1, EndGood DEF Answers
  <2>2. CASE InstallFails(w) /\ Respond(w, "failed")
    <3>1. UNCHANGED feed /\ MachineOK'
      BY <1>2, <2>2 DEF InstallFails, machine, MachineOK
    <3> QED BY <2>2, <3>1, EndGood DEF Answers
  <2> QED BY <1>11, <2>1, <2>2 DEF ActivateDom0
<1>12. CASE Activate(w)
  <2>1. pc[w] = "install"
    BY <1>12 DEF Activate
  <2>2. CASE Install(w) /\ Keep(w, "start", [job[w] EXCEPT !.replaced = current[c]])
    <3> DEFINE j == [job[w] EXCEPT !.replaced = current[c]]
    <3>1. current[c] \in {0} \cup Releases
      BY <1>2 DEF MachineOK
    <3>2. j \in Jobs
      BY <1>2, <3>1 DEF Jobs
    <3>3. /\ j.name = c /\ j.cmd = job[w].cmd /\ j.goal = job[w].goal
          /\ j.replaced = current[c] /\ j.upgrade = job[w].upgrade
      BY <1>2, <1>3 DEF Jobs
    <3>4. Keep(w, "start", j)
      BY <2>2
    <3> HIDE DEF j
    <3>5. Fits("start", j)
      BY DEF Fits
    <3>6. pc'[w] = "start" /\ job'[w] = j
      BY <1>2, <3>2, <3>4, <3>5, KeepWorkers DEF Steps
    <3>7. Counts(w) => Relies(w)'
      BY <1>2, <1>10, <2>1, <2>2, <3>3, <3>6 DEF Relies, Name
    <3> QED BY <1>2, <1>10, <2>2, <3>2, <3>3, <3>4, <3>5, <3>7, KeepGood
            DEF Steps, ImageSteps, Counts
  <2>3. CASE InstallFails(w) /\ Keep(w, "start", job[w])
    <3>1. /\ UNCHANGED feed /\ MachineOK'
          /\ images[c] \notin Releases \/ "install" \in Faults
      BY <1>2, <2>3 DEF InstallFails, machine, MachineOK
    <3>2. ~Counts(w)
      BY <1>2, <2>1, <3>1 DEF Counts, Relies, AtLeast
    <3> QED BY <1>2, <1>3, <1>5, <2>1, <2>3, <3>1, <3>2, KeepGood
            DEF Steps, ImageSteps, Counts
  <2> QED BY <1>12, <2>2, <2>3 DEF Activate, Goto
<1>13. CASE StartNew(w)
  <2>1. /\ pc[w] = "start" /\ UNCHANGED <<feed, images, current, history>>
        /\ MachineOK'
    BY <1>2, <1>13 DEF StartNew, Starts, StartFails, MachineOK
  <2>2. CASE \E r \in {"ok", "failed"} : Respond(w, r)
    BY <2>1, <2>2, EndGood DEF Answers
  <2>3. CASE job[w].upgrade /\ Keep(w, "back", job[w])
    <3>1. pc'[w] = "back" /\ job'[w] = job[w]
      BY <1>6, <2>3 DEF Steps
    <3>2. Counts(w) => Relies(w)'
      BY <1>2, <2>1, <2>3, <3>1 DEF Relies, Name
    <3> QED BY <1>2, <1>3, <1>5, <2>1, <2>3, <3>2, KeepGood DEF Steps, ImageSteps, Counts
  <2> QED BY <1>13, <2>2, <2>3 DEF StartNew, Goto
<1>14. CASE Back(w)
  <2>1. Respond(w, "ok") /\ UNCHANGED feed
    BY <1>14 DEF Back
  <2>2. MachineOK'
    <3>1. CASE history[c] = <<>>
      BY <1>2, <1>14, <3>1 DEF Back, MachineOK
    <3>2. CASE history[c] # <<>>
      <4>1. /\ history[c][Len(history[c])] \in Releases
            /\ SubSeq(history[c], 1, Len(history[c]) - 1) \in Seq(Releases)
        BY <1>2, <3>2, Popped DEF MachineOK
      <4> QED BY <1>2, <1>14, <3>2, <4>1 DEF Back, MachineOK
    <3> QED BY <3>1, <3>2
  <2> QED BY <2>1, <2>2, EndGood DEF Answers
<1> QED BY <1>7, <1>8, <1>9, <1>11, <1>12, <1>13, <1>14

LEMMA PackageGood ==
  ASSUME ServerInv, NEW w \in Workers, Marks(w),
         CheckUpdate(w) \/ DeleteAll(w) \/ RpmUpgrade(w)
  PROVE  Outcome(w)
<1> DEFINE c == Name(w)
<1>1. pc[w] \in {"check", "delall", "rpm"}
  BY DEF CheckUpdate, DeleteAll, RpmUpgrade
<1>2. /\ MachineOK /\ WorkersOK
      /\ job[w] \in Jobs /\ c \in Containers
      /\ job[w].goal <= feed /\ job[w].replaced = 0
      /\ job[w].cmd # "upgrade_image"
  BY <1>1, AtStep DEF ImageSteps
<1>3. MachineOK' /\ UNCHANGED feed
  <2>1. CASE CheckUpdate(w)
    BY <1>2, <2>1 DEF CheckUpdate, machine, MachineOK
  <2>2. CASE DeleteAll(w)
    BY <1>2, <2>2 DEF DeleteAll, MachineOK
  <2>3. CASE RpmUpgrade(w)
    BY <1>2, <2>3, SaveHistory DEF RpmUpgrade, MachineOK
  <2> QED BY <2>1, <2>2, <2>3
<1>4. ASSUME NEW step \in {"delall", "rpm"}, Keep(w, step, job[w]) PROVE Outcome(w)
  <2>1. Fits(step, job[w])
    BY DEF Fits
  <2> QED BY <1>2, <1>3, <1>4, <2>1, KeepGood DEF Steps
<1>5. ASSUME NEW r \in {"ok", "failed"}, Respond(w, r) PROVE Outcome(w)
  BY <1>3, <1>5, EndGood DEF Answers
<1>6. \/ \E step \in {"delall", "rpm"} : Keep(w, step, job[w])
      \/ \E r \in {"ok", "failed"} : Respond(w, r)
  BY DEF CheckUpdate, DeleteAll, RpmUpgrade, Goto
<1> QED BY <1>4, <1>5, <1>6

LEMMA OneCallGood ==
  ASSUME ServerInv, NEW w \in Workers, Marks(w), OneCall(w)
  PROVE  Outcome(w)
<1> DEFINE c == Name(w)
<1>1. pc[w] = "run"
  BY DEF OneCall
<1>2. MachineOK /\ c \in Containers
  BY <1>1, AtStep
<1>3. MachineOK' /\ UNCHANGED feed
  <2>1. CASE Start(w) \/ Stop(w)
    BY <1>2, <2>1 DEF Start, Stop, Starts, StartFails, Stops, StopRefused, MachineOK
  <2>2. CASE Snapshot(w)
    BY <1>2, <2>2, SaveHistory DEF Snapshot, MachineOK
  <2>3. CASE Delete(w) \/ DeleteSnapshots(w)
    <3>1. <<>> \in Seq(Releases)
      OBVIOUS
    <3>2. CASE Delete(w)
      BY <1>2, <3>1, <3>2 DEF Delete, MachineOK
    <3>3. CASE DeleteSnapshots(w)
      BY <1>2, <3>1, <3>3 DEF DeleteSnapshots, MachineOK
    <3> QED BY <2>3, <3>2, <3>3
  <2>4. CASE List(w)
    BY <1>2, <2>4 DEF List, machine, MachineOK
  <2> QED BY <2>1, <2>2, <2>3, <2>4 DEF OneCall
<1>4. PICK r \in {"ok", "failed"} : Respond(w, r)
  BY DEF OneCall, Start, Stop, Snapshot, Delete, DeleteSnapshots, List
<1> QED BY <1>3, <1>4, EndGood DEF Answers

LEMMA RequestIdle ==
  ASSUME NEW w \in Workers, Request(w)
  PROVE  pc[w] = "idle"
<1>1. ASSUME NEW cmd, NEW c, NEW step, NEW todo, Accept(w, cmd, c, step, todo)
      PROVE  pc[w] = "idle"
  BY <1>1 DEF Accept
<1>2. CASE \/ Incomplete(w) \/ HostUpdate(w) \/ HostNewer(w)
           \/ SystemRollback(w) \/ SystemUpgrade(w) \/ ContainerRollback(w)
  BY <1>2 DEF Incomplete, HostUpdate, HostNewer, SystemRollback, SystemUpgrade,
     ContainerRollback, Refuse
<1>3. CASE ContainerUpdate(w) \/ ContainerList(w) \/ ContainerListSnapshots(w)
  BY <1>1, <1>3 DEF ContainerUpdate, ContainerList, ContainerListSnapshots
<1>4. ASSUME NEW c \in Containers,
             \/ ContainerSendImage(w, c) \/ ContainerActivate(w, c) \/ ContainerSnapshot(w, c)
             \/ ContainerStart(w, c) \/ ContainerStop(w, c)
             \/ ContainerDelete(w, c) \/ ContainerDeleteSnapshots(w, c)
      PROVE  pc[w] = "idle"
  BY <1>1, <1>4 DEF ContainerSendImage, ContainerActivate, ContainerSnapshot,
     ContainerStart, ContainerStop, ContainerDelete, ContainerDeleteSnapshots
<1>5. ASSUME NEW c \in Containers, ContainerUpgrade(w, c) PROVE pc[w] = "idle"
  <2>1. \/ Accept(w, "upgrade_image", c, "wget", ImageOrder)
        \/ Accept(w, "upgrade_rpm", c, "check", <<>>)
    BY <1>5 DEF ContainerUpgrade
  <2> QED BY <1>1, <2>1
<1> QED BY <1>2, <1>3, <1>4, <1>5 DEF Request

---------------------------------------------------------------------------
(* The server                                                              *)

LEMMA InitServer == Init => ServerInv /\ answer \in Answers
<1> SUFFICES ASSUME Init PROVE ServerInv /\ answer \in Answers
  OBVIOUS
<1>1. MachineOK
  BY ServerAssumption DEF Init, MachineOK, Releases
<1>2. WorkersOK /\ disturbed \subseteq Busy
  BY DEF Init, WorkersOK, Steps
<1>3. \A w \in Workers : Good(w)
  BY DEF Init, Good, JobKnown, CanUndo, UpgradeGood
<1> QED BY <1>1, <1>2, <1>3 DEF ServerInv, TypeInv, Answers, Init

LEMMA NextServer ==
  ServerInv /\ answer \in Answers /\ [Next]_vars => (ServerInv /\ answer \in Answers)'
<1> SUFFICES ASSUME ServerInv, answer \in Answers, [Next]_vars
             PROVE  ServerInv' /\ answer' \in Answers
  OBVIOUS
<1>1. ASSUME NEW w \in Workers, Step(w) PROVE ServerInv' /\ answer' \in Answers
  <2>1. Marks(w) /\ (Request(w) \/ Serve(w))
    BY <1>1 DEF Step, Marks
  <2>2. Outcome(w)
    BY <2>1, RequestGood, PullGood, ActivateGood, PackageGood, OneCallGood DEF Serve
  <2>3. \A v \in Workers \ {w} : Good(v)'
    BY <2>1, <2>2, OthersGood DEF Outcome
  <2> QED BY <2>2, <2>3 DEF Outcome, ServerInv
<1>2. CASE Publish /\ UNCHANGED disturbed
  <2>1. /\ feed' = feed + 1 /\ feed < MaxRelease /\ answer' = "none"
        /\ UNCHANGED <<images, current, history, up, pc, job, disturbed>>
    BY <1>2 DEF Publish
  <2>2. feed \in 1..MaxRelease /\ feed' \in 1..MaxRelease
    BY <2>1, ServerAssumption DEF ServerInv, TypeInv, MachineOK, Releases
  <2>3. TypeInv'
    BY <2>1, <2>2 DEF ServerInv, TypeInv, MachineOK, WorkersOK, Busy, Releases
  <2>4. ASSUME NEW w \in Workers PROVE Good(w)'
    <3>1. pc[w] # "idle" => job[w].goal \in Releases /\ job[w].goal <= feed
      BY AtStep
    <3>2. JobKnown(w)'
      BY <2>1, <2>2, <3>1 DEF ServerInv, Good, JobKnown, Releases
    <3>3. CanUndo(w)'
      BY <2>1 DEF ServerInv, Good, CanUndo, Name
    <3>4. UpgradeGood(w) => UpgradeGood(w)'
      BY <2>1 DEF UpgradeGood, Relies, Name
    <3> QED BY <3>2, <3>3, <3>4 DEF ServerInv, Good
  <2> QED BY <2>1, <2>3, <2>4 DEF ServerInv, Answers
<1>3. CASE Restart /\ disturbed' = {}
  <2>1. /\ \A w \in Workers : pc'[w] = "idle"
        /\ UNCHANGED <<feed, images, current, history>> /\ answer' = "none"
        /\ up' \subseteq Containers
    BY <1>3 DEF Restart
  <2>2. MachineOK'
    BY <2>1 DEF ServerInv, TypeInv, MachineOK
  <2>3. WorkersOK' /\ disturbed' \subseteq Busy'
    BY <1>3 DEF Restart, WorkersOK, Steps
  <2>4. \A w \in Workers : Good(w)'
    BY <2>1 DEF Good, JobKnown, CanUndo, UpgradeGood
  <2> QED BY <2>1, <2>2, <2>3, <2>4 DEF ServerInv, TypeInv, Answers
<1>4. CASE UNCHANGED vars
  <2>1. UNCHANGED <<feed, images, current, history, up, pc, job, answer, disturbed>>
    BY <1>4 DEF vars, machine
  <2>2. ServerInv'
    BY <2>1 DEF ServerInv, TypeInv, MachineOK, WorkersOK, Busy, Good, JobKnown, CanUndo,
       UpgradeGood, Relies, Name
  <2> QED BY <2>1, <2>2
<1> QED BY <1>1, <1>2, <1>3, <1>4 DEF Next

\* The types of the server's state, its requests' included.
THEOREM ServerTypeCorrect == Spec => []ServerTypeOK
<1>1. ServerInv /\ answer \in Answers => ServerTypeOK
  BY DEF ServerInv, TypeInv, MachineOK, WorkersOK, Fits, Busy, Answers, ServerTypeOK
<1> QED BY <1>1, InitServer, NextServer, PTL DEF Spec

\* An activation whose container does not start puts back the release it
\* replaced, whatever programs fail, unless another request is about the same
\* container.
THEOREM FailedStartIsUndone == Spec => FailedStartUndone
<1> DEFINE Undone ==
      \A w \in Workers :
        /\ pc[w] = "back" /\ pc'[w] = "idle" /\ answer' = "ok"
        /\ w \notin disturbed /\ job[w].replaced # 0
        => current'[Name(w)] = job[w].replaced
<1>1. ASSUME ServerInv, Next PROVE Undone
  <2> SUFFICES ASSUME NEW w \in Workers, pc[w] = "back", pc'[w] = "idle", answer' = "ok",
                      w \notin disturbed, job[w].replaced # 0
               PROVE  current'[Name(w)] = job[w].replaced
    OBVIOUS
  <2>1. OnTop(history[Name(w)], job[w].replaced) /\ MachineOK /\ Name(w) \in Containers
    BY <1>1, AtStep
  <2>2. PICK v \in Workers : Step(v)
    BY <1>1 DEF Next, Publish, Restart
  <2>3. v = w
    BY <1>1, <2>2, RequestGood, PullGood, ActivateGood, PackageGood, OneCallGood
       DEF Step, Marks, Serve, Outcome, Alone
  <2>4. Back(w)
    <3>1. Serve(w)
      BY <2>2, <2>3, RequestIdle DEF Step
    <3> QED BY <3>1 DEF Serve, Wget, WgetFails, Move, Moved, MoveFails, ImageFound, Status,
       StopForUpgrade, ActivateDom0, Activate, StartNew, CheckUpdate, DeleteAll, RpmUpgrade,
       OneCall
  <2> QED BY <2>1, <2>4 DEF Back, OnTop, MachineOK
<1>2. ServerInv /\ [Next]_vars => [Undone]_vars
  BY <1>1
<1> QED BY <1>2, InitServer, NextServer, PTL DEF Spec, FailedStartUndone

\* An upgrade by image that is answered as ok has brought its container to what
\* was published when it was asked for, or back to what it had, as long as
\* overc-ctl installs the images it can read: dom0:183 does not look.
THEOREM OkMeansUpgraded ==
  ASSUME "install" \notin Faults PROVE Spec => OkIsUpgraded
<1> DEFINE Upgraded ==
      \A w \in Workers :
        LET c == Name(w) IN
        /\ pc[w] # "idle" /\ pc'[w] = "idle" /\ answer' = "ok"
        /\ job[w].cmd = "upgrade_image" /\ w \notin disturbed /\ Pulled(c)
        => \/ current'[c] >= job[w].goal
           \/ job[w].replaced # 0 /\ current'[c] = job[w].replaced
<1>1. ASSUME ServerInv, Next PROVE Upgraded
  <2> SUFFICES ASSUME NEW w \in Workers, pc[w] # "idle", pc'[w] = "idle", answer' = "ok",
                      job[w].cmd = "upgrade_image", w \notin disturbed, Pulled(Name(w))
               PROVE  \/ current'[Name(w)] >= job[w].goal
                      \/ /\ job[w].replaced # 0
                         /\ current'[Name(w)] = job[w].replaced
    OBVIOUS
  <2> DEFINE c == Name(w)
  <2>1. /\ MachineOK /\ WorkersOK /\ c \in Containers /\ job[w].goal \in Releases
        /\ pc[w] \in ImageSteps /\ Relies(w)
        /\ pc[w] \in {"start", "back"} /\ job[w].replaced # 0 =>
             OnTop(history[c], job[w].replaced)
    BY <1>1, AtStep DEF Counts
  <2>2. PICK v \in Workers : Step(v)
    BY <1>1 DEF Next, Publish, Restart
  <2>3. v = w
    BY <1>1, <2>2, RequestGood, PullGood, ActivateGood, PackageGood, OneCallGood
       DEF Step, Marks, Serve, Outcome, Alone
  <2>4. Moved(w) \/ ActivateDom0(w) \/ StartNew(w) \/ Back(w)
    <3>1. \A step \in Steps \ {"idle"} : \A j : ~Keep(w, step, j)
      BY <2>1 DEF Keep, WorkersOK
    <3>2. ~Request(w)
      BY RequestIdle
    <3>3. ~(CheckUpdate(w) \/ DeleteAll(w) \/ RpmUpgrade(w) \/ OneCall(w))
      BY <2>1 DEF CheckUpdate, DeleteAll, RpmUpgrade, OneCall, ImageSteps
    <3>4. ~(Wget(w) \/ WgetFails(w) \/ Move(w) \/ MoveFails(w))
      BY <3>1 DEF Wget, WgetFails, Move, MoveFails, Goto, Respond, Steps
    <3>5. ~(ImageFound(w) \/ Status(w) \/ StopForUpgrade(w) \/ Activate(w))
      BY <3>1 DEF ImageFound, Status, StopForUpgrade, Activate, Goto, Respond, Steps
    <3> QED BY <2>2, <2>3, <3>2, <3>3, <3>4, <3>5 DEF Step, Serve
  <2>5. CASE Moved(w)
    <3>1. pc'[w] \in {"wget", "image"}
      BY <2>1, <2>5 DEF Moved, AfterImage, Keep, WorkersOK
    <3> QED BY <3>1
  <2>6. CASE ActivateDom0(w)
    <3>1. AtLeast(images[c], job[w].goal) /\ Install(w)
      BY <2>1, <2>6 DEF ActivateDom0, Relies, Respond
    <3> QED BY <2>1, <3>1 DEF Install, AtLeast, MachineOK
  <2>7. CASE StartNew(w)
    <3>1. AtLeast(current[c], job[w].goal) /\ UNCHANGED current
      BY <2>1, <2>7 DEF StartNew, Relies
    <3> QED BY <3>1 DEF AtLeast
  <2>8. CASE Back(w)
    <3>1. job[w].replaced # 0 /\ OnTop(history[c], job[w].replaced)
      BY <2>1, <2>8 DEF Back, Relies
    <3> QED BY <2>1, <2>8, <3>1 DEF Back, OnTop, MachineOK
  <2> QED BY <2>4, <2>5, <2>6, <2>7, <2>8
<1>2. ServerInv /\ [Next]_vars => [Upgraded]_vars
  BY <1>1
<1> QED BY <1>2, InitServer, NextServer, PTL DEF Spec, OkIsUpgraded

============================================================================
