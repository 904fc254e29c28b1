----------------------------- MODULE ProcessRun -----------------------------
(***************************************************************************)
(* How the agent runs a program and collects what it prints: Process.run   *)
(* of Overc/utils.py, behind run_script of Overc/container.py.  Every      *)
(* command on a container, and the answer the web server gives for it, is  *)
(* the result of one such run.                                             *)
(*                                                                         *)
(* Two processes: the script, which prints lines on its standard output    *)
(* and error, each a pipe that takes PipeSize lines, and the agent, which  *)
(* selects on the two pipes, reads from those that are ready, and asks     *)
(* after each round whether the script has ended.  With liveoutput a read  *)
(* is one line, taken through a buffered reader that draws more from the   *)
(* pipe than it hands on; without, a read is everything up to the end of   *)
(* the stream.                                                             *)
(*                                                                         *)
(* Abstractions.  A line is written whole.  What a line says is left out:  *)
(* lines are counted, and a stream keeps their order.  No other process    *)
(* inherits the pipes.                                                     *)
(***************************************************************************)
EXTENDS Naturals, Sequences, FiniteSets

CONSTANTS
  MaxLines,    \* bound on the lines a script prints
  PipeSize,    \* lines a pipe holds
  ReaderSize   \* lines a buffered reader draws at once

ASSUME ProcessAssumption ==
  /\ MaxLines \in Nat
  /\ PipeSize \in Nat \ {0} /\ ReaderSize \in Nat \ {0}

Streams == {"out", "err"}

VARIABLES
  live,     \* liveoutput
  script,   \* "none", "running", "closed" (its pipes are) or "exited"
  plan,     \* the streams the script has still to print a line on, in order
  printed,  \* lines the script printed on each stream
  drawn,    \* lines drawn from each pipe by its reader
  message,  \* lines of each stream that are part of self.message
  pc,       \* the step the agent is at
  ready,    \* streams of this round that are still to be read
  retval    \* self.retval

scriptVars == <<script, plan, printed>>
agentVars  == <<live, drawn, message, pc, ready, retval>>
vars       == <<scriptVars, agentVars>>

InPipe(s)   == printed[s] - drawn[s]
Buffered(s) == drawn[s] - message[s]

Count(p, s) == Cardinality({ i \in DOMAIN p : p[i] = s })

\* Only the listing of the containers is run without liveoutput.  A script that
\* prints on both streams then must not fill the pipe that is not being read;
\* a listing is short and does not.
Plans(l) == { p \in UNION { [1..n -> Streams] : n \in 0..MaxLines } :
                \/ l
                \/ \E s \in Streams : Count(p, s) = 0
                \/ \A s \in Streams : Count(p, s) <= PipeSize }

ProcessTypeOK ==
  /\ live \in BOOLEAN
  /\ script \in {"none", "running", "closed", "exited"}
  /\ plan \in Seq(Streams)
  /\ printed \in [Streams -> Nat] /\ drawn \in [Streams -> Nat]
  /\ message \in [Streams -> Nat]
  /\ \A s \in Streams :
       /\ message[s] <= drawn[s] /\ drawn[s] <= printed[s]
       /\ InPipe(s) <= PipeSize /\ Buffered(s) < ReaderSize
  /\ pc \in {"idle", "select", "read", "drain", "poll", "done"}
  /\ ready \subseteq Streams
  /\ pc \in {"read", "drain"} <=> ready # {}
  /\ retval \in {0, 1}

None == [s \in Streams |-> 0]

Init ==
  /\ live = TRUE /\ script = "none" /\ plan = <<>>
  /\ printed = None /\ drawn = None /\ message = None
  /\ pc = "idle" /\ ready = {} /\ retval = 0

---------------------------------------------------------------------------
(* The script                                                              *)

\* A write into a full pipe waits.
Write ==
  /\ script = "running"
  /\ plan # <<>>
  /\ InPipe(Head(plan)) < PipeSize
  /\ printed' = [printed EXCEPT ![Head(plan)] = @ + 1]
  /\ plan' = Tail(plan)
  /\ UNCHANGED <<script, agentVars>>

\* The kernel closes the files of a process before its parent can wait for it.
Close ==
  /\ script = "running"
  /\ plan = <<>>
  /\ script' = "closed"
  /\ UNCHANGED <<plan, printed, agentVars>>

Exit ==
  /\ script = "closed"
  /\ script' = "exited"
  /\ UNCHANGED <<plan, printed, agentVars>>

Script == Write \/ Close \/ Exit

---------------------------------------------------------------------------
(* The agent                                                               *)

AtEnd(s) == script \in {"closed", "exited"} /\ InPipe(s) = 0

Begin(l) ==
  /\ pc = "idle"
  /\ live' = l
  /\ script' = "running"
  /\ plan' \in Plans(l)
  /\ pc' = "select"
  /\ retval' = 0
  /\ UNCHANGED <<printed, drawn, message, ready>>

\* run_script: no template of that name.
MissingScript ==
  /\ pc = "idle"
  /\ retval' = 1
  /\ pc' = "done"
  /\ UNCHANGED <<scriptVars, live, drawn, message, ready>>

\* Mutant: `while child.poll() is None', a round only while the script runs.
SelectWhileRunning ==
  /\ pc = "select"
  /\ ready' = IF script = "exited" THEN {}
              ELSE { s \in Streams : InPipe(s) > 0 \/ AtEnd(s) }
  /\ script = "exited" \/ ready' # {}
  /\ pc' = IF script = "exited" THEN "done" ELSE "read"
  /\ UNCHANGED <<scriptVars, live, drawn, message, retval>>

\* A stream is ready when its pipe holds something or has been closed; what a
\* reader has buffered does not count.
Select ==
  /\ pc = "select"
  /\ ready' = { s \in Streams : InPipe(s) > 0 \/ AtEnd(s) }
  /\ ready' # {}
  /\ pc' = "read"
  /\ UNCHANGED <<scriptVars, live, drawn, message, retval>>

First == IF "out" \in ready THEN "out" ELSE "err"

AfterRead(s) ==
  /\ ready' = ready \ {s}
  /\ pc' = IF ready' = {} THEN "poll" ELSE "read"

Least(m, n) == IF m < n THEN m ELSE n

\* Mutant: the reader passes on only what it draws.
ReadLineForgets ==
  /\ pc = "read"
  /\ live
  /\ LET s == First
         n == Least(InPipe(s), ReaderSize)
     IN /\ drawn' = [drawn EXCEPT ![s] = @ + n]
        /\ message' = [message EXCEPT ![s] = @ + Least(n, 1)]
        /\ AfterRead(s)
  /\ UNCHANGED <<scriptVars, live, retval>>

\* readline: from the buffer when it holds a line, from the pipe otherwise, and
\* an empty string at the end of the stream.
ReadLine ==
  /\ pc = "read"
  /\ live
  /\ LET s == First
         n == IF Buffered(s) > 0 THEN 0 ELSE Least(InPipe(s), ReaderSize)
     IN /\ drawn' = [drawn EXCEPT ![s] = @ + n]
        /\ message' = [message EXCEPT ![s] = Least(@ + 1, drawn'[s])]
        /\ AfterRead(s)
  /\ UNCHANGED <<scriptVars, live, retval>>

\* read, of one stream until its end: the other one is not looked at.
Drain ==
  /\ pc \in {"read", "drain"}
  /\ ~live
  /\ InPipe(First) > 0
  /\ drawn' = [drawn EXCEPT ![First] = printed[First]]
  /\ message' = [message EXCEPT ![First] = printed[First]]
  /\ pc' = "drain"
  /\ UNCHANGED <<scriptVars, live, ready, retval>>

\* Mutant: a read returns when the pipe is empty.
DrainedEarly ==
  /\ pc \in {"read", "drain"}
  /\ ~live
  /\ InPipe(First) = 0
  /\ AfterRead(First)
  /\ UNCHANGED <<scriptVars, live, drawn, message, retval>>

Drained ==
  /\ pc \in {"read", "drain"}
  /\ ~live
  /\ AtEnd(First)
  /\ AfterRead(First)
  /\ UNCHANGED <<scriptVars, live, drawn, message, retval>>

\* Mutant: `if child.poll(): break', which takes status 0 for still running.
PollTruth ==
  /\ pc = "poll"
  /\ \/ script = "exited" /\ pc' = "done" /\ retval' = 1
     \/ pc' = "select" /\ UNCHANGED retval
  /\ UNCHANGED <<scriptVars, live, drawn, message, ready>>

\* poll: on with the next round, or done with the exit status of the script.
Poll ==
  /\ pc = "poll"
  /\ IF script = "exited" THEN pc' = "done" /\ retval' \in {0, 1}
                          ELSE pc' = "select" /\ UNCHANGED retval
  /\ UNCHANGED <<scriptVars, live, drawn, message, ready>>

\* The message and the status go to the caller, and the Process with them.
Answer ==
  /\ pc = "done"
  /\ script' = "none"
  /\ printed' = None /\ drawn' = None /\ message' = None
  /\ pc' = "idle"
  /\ retval' = 0
  /\ live' = TRUE
  /\ UNCHANGED <<plan, ready>>

Agent == Select \/ ReadLine \/ Drain \/ Drained \/ Poll

Next ==
  \/ Script \/ Agent \/ Answer
  \/ MissingScript
  \/ \E l \in BOOLEAN : Begin(l)

\* The operating system runs both processes, and the script does not wait for
\* anything but its pipes.
Spec == Init /\ [][Next]_vars /\ WF_vars(Script) /\ WF_vars(Agent)

---------------------------------------------------------------------------
(* Properties                                                              *)

Lost(s) == printed[s] - message[s]

Ended == pc = "done" /\ script = "exited"

\* An answer is silent only when the script was: one that prints a single line,
\* as those that refuse an order do, has it in the answer, however soon it ends
\* (utils.py:59-82).
NeverSilent ==
  Ended /\ (\A s \in Streams : message[s] = 0)
    => \A s \in Streams : printed[s] = 0

\* A listing whose script has nothing to complain about is whole: the read of
\* the standard output lasts until the script closes it, and the round is not
\* over before (utils.py:66-67).
ListingWhole == Ended /\ ~live /\ printed["err"] = 0 => Lost("out") = 0

\* Every run comes to an end: the agent never waits for a script that waits for
\* the agent to empty a pipe.
Answered == pc = "select" ~> pc = "done"
=============================================================================
