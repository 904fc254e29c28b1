-------------------------- MODULE ProcessRunProofs --------------------------
(***************************************************************************)
(* Theorems about ProcessRun, for pipes, readers and outputs of any size:  *)
(* type correctness, that no answer is silent when the script was not, and *)
(* that a listing is whole.                                                *)
(***************************************************************************)
EXTENDS ProcessRun, TLAPS

Closed == script \in {"closed", "exited"}

Silent == \A s \in Streams : message[s] = 0

Mute == \A s \in Streams : printed[s] = 0

\* Between two runs there is no script and nothing has been printed; during one
\* there is a script, and after one it has ended or was not found.
Phases ==
  /\ pc = "idle" => /\ script = "none"
                    /\ \A s \in Streams : /\ printed[s] = 0
                                          /\ drawn[s] = 0 /\ message[s] = 0
  /\ pc = "done" => script \in {"none", "exited"}
  /\ pc \in {"select", "read", "drain", "poll"} => script # "none"

\* Why an answer is not silent.  While the message is empty nothing has been
\* drawn; so a round that began either has a stream to read a line from still
\* before it, or has found a script that ended without a word.
Heard ==
  /\ \A s \in Streams : drawn[s] > 0 => message[s] > 0
  /\ pc \in {"read", "drain"} /\ Silent =>
       (\E s \in ready : InPipe(s) > 0) \/ (Closed /\ Mute)
  /\ pc = "poll" /\ Silent => Closed /\ Mute
  /\ Ended /\ Silent => Mute

\* Why a listing is whole.  As long as nothing comes on the standard error, that
\* stream is ready only at its end, and the round is over only when the
\* standard output was read to its end.
Listing ==
  ~live =>
    /\ \A s \in Streams : drawn[s] = message[s]
    /\ printed["err"] = 0 =>
         /\ "err" \in ready => Closed
         /\ pc \in {"read", "drain"} /\ "out" \notin ready =>
              Closed /\ InPipe("out") = 0
         /\ pc = "poll" \/ Ended => Closed /\ InPipe("out") = 0

RunInv == ProcessTypeOK /\ Phases /\ Heard /\ Listing

---------------------------------------------------------------------------
(* Type correctness                                                        *)

LEMMA TypeInit == Init => ProcessTypeOK
BY ProcessAssumption DEF Init, ProcessTypeOK, None, InPipe, Buffered, Streams

LEMMA PlansAreSequences == ASSUME NEW l \in BOOLEAN PROVE Plans(l) \subseteq Seq(Streams)
BY DEF Plans

\* The stream that is read next is one of those that are ready.
LEMMA FirstReady ==
  ASSUME ready \subseteq Streams, ready # {}
  PROVE  First \in ready /\ First \in Streams
BY DEF First, Streams

LEMMA TypeNext == ProcessTypeOK /\ [Next]_vars => ProcessTypeOK'
<1> SUFFICES ASSUME ProcessTypeOK, [Next]_vars PROVE ProcessTypeOK'
  OBVIOUS
<1> USE ProcessAssumption
<1>1. CASE Write
  <2>1. Head(plan) \in Streams /\ Tail(plan) \in Seq(Streams)
    BY <1>1 DEF ProcessTypeOK, Write
  <2> DEFINE s == Head(plan)
  <2>2. /\ printed' = [printed EXCEPT ![s] = @ + 1]
        /\ plan' = Tail(plan) /\ printed[s] - drawn[s] < PipeSize
        /\ UNCHANGED <<script, live, drawn, message, pc, ready, retval>>
    BY <1>1 DEF Write, agentVars, InPipe
  <2>3. printed' \in [Streams -> Nat] /\ printed'[s] = printed[s] + 1
    BY <2>1, <2>2 DEF ProcessTypeOK
  <2>4. \A t \in Streams :
          /\ message'[t] <= drawn'[t] /\ drawn'[t] <= printed'[t]
          /\ InPipe(t)' <= PipeSize /\ Buffered(t)' < ReaderSize
    <3> TAKE t \in Streams
    <3>1. CASE t = s
      <4>1. /\ message[s] \in Nat /\ drawn[s] \in Nat /\ printed[s] \in Nat
            /\ message[s] <= drawn[s] /\ drawn[s] <= printed[s]
            /\ drawn[s] - message[s] < ReaderSize
        BY <2>1 DEF ProcessTypeOK, Buffered
      <4> HIDE DEF s
      <4> QED
        BY <2>2, <2>3, <3>1, <4>1 DEF InPipe, Buffered
    <3>2. CASE t # s
      BY <2>2, <3>2 DEF ProcessTypeOK, InPipe, Buffered
    <3> QED BY <3>1, <3>2
  <2> HIDE DEF s
  <2> QED
    BY <2>1, <2>2, <2>3, <2>4 DEF ProcessTypeOK
<1>2. CASE Close \/ Exit
  BY <1>2 DEF ProcessTypeOK, Close, Exit, agentVars, InPipe, Buffered
<1>3. CASE Select
  BY <1>3 DEF ProcessTypeOK, Select, scriptVars, InPipe, Buffered
<1>4. CASE ReadLine
  <2>1. First \in Streams /\ ready # {}
    BY <1>4, FirstReady DEF ProcessTypeOK, ReadLine
  <2>2. ready' = ready \ {First} /\ pc' = IF ready' = {} THEN "poll" ELSE "read"
    BY <1>4 DEF ReadLine, AfterRead
  <2> DEFINE s == First
             n == IF Buffered(s) > 0 THEN 0 ELSE Least(InPipe(s), ReaderSize)
  <2>3. /\ drawn' = [drawn EXCEPT ![s] = @ + n]
        /\ message' = [message EXCEPT ![s] = Least(@ + 1, drawn'[s])]
        /\ UNCHANGED <<script, plan, printed, live, retval>>
    BY <1>4 DEF ReadLine, scriptVars
  <2>30. InPipe(s) \in Nat /\ ReaderSize \in Nat
    BY <2>1, ProcessAssumption DEF ProcessTypeOK, InPipe
  <2>4. n \in Nat /\ n <= InPipe(s) /\ n <= ReaderSize
    BY <2>30 DEF Least
  <2>5. drawn'[s] = drawn[s] + n /\ message'[s] = Least(message[s] + 1, drawn[s] + n)
    BY <2>1, <2>3 DEF ProcessTypeOK
  <2>50. /\ message[s] \in Nat /\ drawn[s] \in Nat /\ printed[s] \in Nat
         /\ message[s] <= drawn[s] /\ drawn[s] <= printed[s]
         /\ printed[s] - drawn[s] <= PipeSize
         /\ drawn[s] - message[s] < ReaderSize
    BY <2>1 DEF ProcessTypeOK, InPipe, Buffered
  <2>51. n > 0 => drawn[s] = message[s]
    BY <2>50 DEF Buffered
  <2> HIDE DEF n
  <2>6. /\ message'[s] \in Nat /\ drawn'[s] \in Nat
        /\ message'[s] <= drawn'[s] /\ drawn'[s] <= printed[s]
        /\ printed[s] - drawn'[s] <= PipeSize
        /\ drawn'[s] - message'[s] < ReaderSize
    BY <2>4, <2>5, <2>50, <2>51 DEF Least, InPipe
  <2>7. drawn' \in [Streams -> Nat] /\ message' \in [Streams -> Nat]
    BY <2>1, <2>3, <2>5, <2>6 DEF ProcessTypeOK
  <2>8. \A t \in Streams :
          /\ message'[t] <= drawn'[t] /\ drawn'[t] <= printed'[t]
          /\ InPipe(t)' <= PipeSize /\ Buffered(t)' < ReaderSize
    <3> TAKE t \in Streams
    <3>1. CASE t = s
      BY <2>3, <2>6, <3>1 DEF InPipe, Buffered
    <3>2. CASE t # s
      BY <2>3, <3>2 DEF ProcessTypeOK, InPipe, Buffered
    <3> QED BY <3>1, <3>2
  <2> QED
    BY <2>1, <2>2, <2>3, <2>7, <2>8 DEF ProcessTypeOK
<1>5. CASE Drain
  <2>1. First \in Streams
    BY <1>5, FirstReady DEF ProcessTypeOK, Drain
  <2> QED
    BY <1>5, <2>1 DEF ProcessTypeOK, Drain, scriptVars, InPipe, Buffered
<1>6. CASE Drained
  BY <1>6 DEF ProcessTypeOK, Drained, AfterRead, scriptVars, InPipe, Buffered
<1>7. CASE Poll
  BY <1>7 DEF ProcessTypeOK, Poll, scriptVars, InPipe, Buffered
<1>8. CASE Answer
  BY <1>8 DEF ProcessTypeOK, Answer, None, Streams, InPipe, Buffered
<1>9. CASE MissingScript
  BY <1>9 DEF ProcessTypeOK, MissingScript, scriptVars, InPipe, Buffered
<1>10. ASSUME NEW l \in BOOLEAN, Begin(l) PROVE ProcessTypeOK'
  <2>1. plan' \in Seq(Streams)
    BY <1>10, PlansAreSequences DEF Begin
  <2> QED
    BY <1>10, <2>1 DEF ProcessTypeOK, Begin, InPipe, Buffered
<1>11. CASE UNCHANGED vars
  BY <1>11 DEF ProcessTypeOK, vars, scriptVars, agentVars, InPipe, Buffered
<1> QED
  BY <1>1, <1>2, <1>3, <1>4, <1>5, <1>6, <1>7, <1>8, <1>9, <1>10, <1>11
  DEF Next, Script, Agent

\* Type correctness: nothing is passed on that was not drawn, nor drawn that was
\* not printed, and pipes and readers keep to their sizes (utils.py:56-85).
THEOREM ProcessTypeCorrect == Spec => []ProcessTypeOK
<1>1. Init => ProcessTypeOK BY TypeInit
<1>2. ProcessTypeOK /\ [Next]_vars => ProcessTypeOK' BY TypeNext
<1> QED BY <1>1, <1>2, PTL DEF Spec

---------------------------------------------------------------------------
(* What the steps of a round do                                            *)

\* What ReadLine does to the stream it reads and leaves of the other one: it
\* has a line afterwards unless there was none to be had.
LEMMA ReadLineEffect ==
  ASSUME ProcessTypeOK, ReadLine
  PROVE  /\ First \in ready /\ First \in Streams
         /\ \A t \in Streams \ {First} : drawn'[t] = drawn[t] /\ message'[t] = message[t]
         /\ message'[First] = 0 => InPipe(First) = 0 /\ drawn'[First] = 0
         /\ message'[First] >= message[First]
         /\ ready' = ready \ {First} /\ pc' = IF ready' = {} THEN "poll" ELSE "read"
         /\ UNCHANGED <<script, plan, printed, live, retval>>
<1>1. First \in ready /\ First \in Streams
  BY FirstReady DEF ProcessTypeOK, ReadLine
<1> DEFINE s == First
           n == IF Buffered(s) > 0 THEN 0 ELSE Least(InPipe(s), ReaderSize)
<1>2. /\ drawn' = [drawn EXCEPT ![s] = @ + n]
      /\ message' = [message EXCEPT ![s] = Least(@ + 1, drawn'[s])]
      /\ UNCHANGED <<script, plan, printed, live, retval>>
      /\ ready' = ready \ {First} /\ pc' = IF ready' = {} THEN "poll" ELSE "read"
  BY DEF ReadLine, AfterRead, scriptVars
<1>3. /\ message[s] \in Nat /\ drawn[s] \in Nat /\ printed[s] \in Nat
      /\ message[s] <= drawn[s] /\ drawn[s] <= printed[s]
  BY <1>1 DEF ProcessTypeOK
<1>4. drawn'[s] = drawn[s] + n /\ message'[s] = Least(message[s] + 1, drawn[s] + n)
  BY <1>1, <1>2 DEF ProcessTypeOK
<1>5. \A t \in Streams \ {s} : drawn'[t] = drawn[t] /\ message'[t] = message[t]
  BY <1>2 DEF ProcessTypeOK
<1>6. /\ n \in Nat /\ (n = 0 => Buffered(s) > 0 \/ InPipe(s) = 0)
  BY <1>3, ProcessAssumption DEF Least, InPipe, Buffered
<1> HIDE DEF n, s
<1>7. message'[s] = 0 => InPipe(s) = 0 /\ drawn'[s] = 0
  BY <1>3, <1>4, <1>6 DEF Least, InPipe, Buffered
<1>8. message'[s] >= message[s]
  BY <1>3, <1>4, <1>6 DEF Least
<1> QED BY <1>1, <1>2, <1>5, <1>7, <1>8 DEF s

\* What Drain does: the stream it reads is passed on as far as it was printed.
LEMMA DrainEffect ==
  ASSUME ProcessTypeOK, Drain
  PROVE  /\ First \in ready /\ First \in Streams /\ ~live
         /\ \A t \in Streams \ {First} : drawn'[t] = drawn[t] /\ message'[t] = message[t]
         /\ drawn'[First] = printed[First] /\ message'[First] = printed[First]
         /\ printed[First] > 0 /\ pc \in {"read", "drain"} /\ pc' = "drain"
         /\ UNCHANGED <<script, plan, printed, live, ready, retval>>
<1>1. First \in ready /\ First \in Streams
  BY FirstReady DEF ProcessTypeOK, Drain
<1>2. printed[First] > 0
  BY <1>1 DEF ProcessTypeOK, Drain, InPipe
<1> QED BY <1>1, <1>2 DEF ProcessTypeOK, Drain, scriptVars

\* What a line of the script changes: one stream has one line more.
LEMMA WriteEffect ==
  ASSUME ProcessTypeOK, Write
  PROVE  /\ script = "running"
         /\ \A t \in Streams : printed'[t] \in Nat /\ printed'[t] >= printed[t]
         /\ UNCHANGED <<script, live, drawn, message, pc, ready, retval>>
<1>1. Head(plan) \in Streams
  BY DEF ProcessTypeOK, Write
<1> QED BY <1>1 DEF ProcessTypeOK, Write, agentVars

---------------------------------------------------------------------------
(* The invariant                                                           *)

LEMMA PhasesNext == ProcessTypeOK /\ Phases /\ [Next]_vars => Phases'
<1> SUFFICES ASSUME ProcessTypeOK, Phases, [Next]_vars PROVE Phases'
  OBVIOUS
<1>1. CASE Write
  BY <1>1, WriteEffect DEF Phases
<1>2. CASE Close \/ Exit
  BY <1>2 DEF Phases, Close, Exit, agentVars
<1>3. CASE Select
  BY <1>3 DEF Phases, Select, scriptVars
<1>4. CASE ReadLine
  BY <1>4, ReadLineEffect DEF Phases, ReadLine
<1>5. CASE Drain
  BY <1>5, DrainEffect DEF Phases
<1>6. CASE Drained
  BY <1>6 DEF Phases, Drained, AfterRead, scriptVars
<1>7. CASE Poll
  BY <1>7 DEF Phases, Poll, scriptVars
<1>8. CASE Answer
  BY <1>8 DEF Phases, Answer, None
<1>9. CASE MissingScript
  BY <1>9 DEF Phases, MissingScript, scriptVars
<1>10. ASSUME NEW l \in BOOLEAN, Begin(l) PROVE Phases'
  BY <1>10 DEF Phases, Begin
<1>11. CASE UNCHANGED vars
  BY <1>11 DEF Phases, vars, scriptVars, agentVars
<1> QED
  BY <1>1, <1>2, <1>3, <1>4, <1>5, <1>6, <1>7, <1>8, <1>9, <1>10, <1>11
  DEF Next, Script, Agent

LEMMA HeardNext == ProcessTypeOK /\ Phases /\ Heard /\ [Next]_vars => Heard'
<1> SUFFICES ASSUME ProcessTypeOK, Phases, Heard, [Next]_vars PROVE Heard'
  OBVIOUS
<1> USE DEF Closed, Silent, Mute
<1>0. \A s \in Streams : /\ message[s] \in Nat /\ drawn[s] \in Nat /\ printed[s] \in Nat
                         /\ message[s] <= drawn[s] /\ drawn[s] <= printed[s]
  BY DEF ProcessTypeOK
<1>00. ready \subseteq Streams
  BY DEF ProcessTypeOK
<1>1. CASE Write
  <2>1. Heard!1'
    BY <1>1, WriteEffect DEF Heard
  <2>2. Heard!2'
    BY <1>0, <1>00, <1>1, WriteEffect DEF Heard, InPipe
  <2> QED
    BY <1>1, <2>1, <2>2, WriteEffect DEF Heard, Ended
<1>2. CASE Close \/ Exit
  BY <1>2 DEF Phases, Heard, Ended, Close, Exit, agentVars, InPipe
<1>3. CASE Select
  <2>1. Silent => \A s \in Streams : drawn[s] = 0
    BY <1>0 DEF Heard
  <2>2. ready' = { s \in Streams : InPipe(s) > 0 \/ AtEnd(s) } /\ ready' # {}
    BY <1>3 DEF Select
  <2>3. Silent => (\E s \in ready' : InPipe(s) > 0) \/ (Closed /\ Mute)
    BY <1>0, <2>1, <2>2 DEF AtEnd, InPipe
  <2> QED
    BY <1>3, <2>3 DEF Heard, Ended, Select, scriptVars, InPipe
<1>4. CASE ReadLine
  <2>1. Heard!1'
    <3>1. message'[First] \in Nat
      BY <1>4, TypeNext, ReadLineEffect DEF ProcessTypeOK
    <3> SUFFICES ASSUME NEW t \in Streams, drawn'[t] > 0 PROVE message'[t] > 0
      OBVIOUS
    <3>2. CASE t = First
      BY <1>4, <3>1, <3>2, ReadLineEffect
    <3>3. CASE t # First
      BY <1>4, <3>3, ReadLineEffect DEF Heard
    <3> QED BY <3>2, <3>3
  <2>2. ASSUME Silent' PROVE (\E s \in ready' : InPipe(s)' > 0) \/ (Closed /\ Mute)'
    <3>1. Silent
      BY <1>0, <1>4, <2>2, ReadLineEffect
    <3>2. (\E s \in ready : InPipe(s) > 0) \/ (Closed /\ Mute)
      BY <1>4, <3>1 DEF Heard, ReadLine
    <3>3. InPipe(First) = 0
      BY <1>4, <2>2, ReadLineEffect
    <3>4. CASE Closed /\ Mute
      BY <1>4, <3>4, ReadLineEffect
    <3>5. ASSUME NEW s \in ready, InPipe(s) > 0 PROVE s \in ready' /\ InPipe(s)' > 0
      <4>1. s # First /\ s \in Streams
        BY <1>00, <3>3, <3>5
      <4> QED BY <1>4, <3>5, <4>1, ReadLineEffect DEF InPipe
    <3> QED BY <3>2, <3>4, <3>5
  <2>3. pc' # "done" /\ (pc' = "poll" => ready' = {})
    BY <1>4, ReadLineEffect
  <2> QED BY <2>1, <2>2, <2>3 DEF Heard, Ended
<1>5. CASE Drain
  BY <1>0, <1>5, DrainEffect DEF Heard, Ended
<1>6. CASE Drained
  <2>1. First \in Streams /\ InPipe(First) = 0 /\ ready' = ready \ {First}
    BY <1>6, FirstReady DEF Drained, AfterRead, AtEnd, ProcessTypeOK
  <2>2. UNCHANGED <<script, printed, drawn, message>> /\ pc \in {"read", "drain"}
    BY <1>6 DEF Drained, scriptVars
  <2>3. Silent => (\E s \in ready' : InPipe(s) > 0) \/ (Closed /\ Mute)
    BY <2>1, <2>2 DEF Heard
  <2>4. pc' \in {"read", "poll"} /\ (pc' = "poll" => ready' = {})
    BY <1>6 DEF Drained, AfterRead
  <2> QED BY <2>2, <2>3, <2>4 DEF Heard, Ended, InPipe
<1>7. CASE Poll
  BY <1>7 DEF Heard, Ended, Poll, scriptVars
<1>8. CASE Answer
  BY <1>8 DEF Heard, Ended, Answer, None
<1>9. CASE MissingScript
  BY <1>9 DEF Heard, Phases, Ended, MissingScript, scriptVars
<1>10. ASSUME NEW l \in BOOLEAN, Begin(l) PROVE Heard'
  BY <1>10 DEF Heard, Begin, Ended
<1>11. CASE UNCHANGED vars
  BY <1>11 DEF Heard, Ended, vars, scriptVars, agentVars, InPipe
<1> QED
  BY <1>1, <1>2, <1>3, <1>4, <1>5, <1>6, <1>7, <1>8, <1>9, <1>10, <1>11
  DEF Next, Script, Agent

LEMMA ListingNext == ProcessTypeOK /\ Phases /\ Listing /\ [Next]_vars => Listing'
<1> SUFFICES ASSUME ProcessTypeOK, Phases, Listing, [Next]_vars PROVE Listing'
  OBVIOUS
<1> USE DEF Closed
<1>0. \A s \in Streams : /\ message[s] \in Nat /\ drawn[s] \in Nat /\ printed[s] \in Nat
                         /\ message[s] <= drawn[s] /\ drawn[s] <= printed[s]
  BY DEF ProcessTypeOK
<1>00. Streams = {"out", "err"} /\ ready \subseteq Streams
  BY DEF ProcessTypeOK, Streams
<1>1. CASE Write
  <2>1. printed'["err"] = 0 => printed["err"] = 0
    BY <1>0, <1>00, <1>1, WriteEffect
  <2> QED
    BY <1>1, <2>1, WriteEffect DEF Listing, Ended
<1>2. CASE Close \/ Exit
  BY <1>2 DEF Phases, Listing, Ended, Close, Exit, agentVars, InPipe
<1>3. CASE Select
  <2>1. ready' = { s \in Streams : InPipe(s) > 0 \/ AtEnd(s) } /\ ready' # {}
    BY <1>3 DEF Select
  <2>2. printed["err"] = 0 /\ "err" \in ready' => Closed
    BY <1>0, <1>00, <2>1 DEF AtEnd, InPipe
  <2>3. printed["err"] = 0 /\ "out" \notin ready' => Closed /\ InPipe("out") = 0
    <3>1. "out" \notin ready' => "err" \in ready' /\ ~(InPipe("out") > 0)
      BY <1>00, <2>1
    <3> QED BY <1>0, <1>00, <2>2, <3>1 DEF InPipe
  <2> QED
    BY <1>3, <2>2, <2>3 DEF Listing, Ended, Select, scriptVars, InPipe
<1>4. CASE ReadLine
  BY <1>4 DEF ReadLine, Listing
<1>5. CASE Drain
  BY <1>0, <1>00, <1>5, DrainEffect DEF Listing, Ended, InPipe
<1>6. CASE Drained
  <2>1. AtEnd(First) /\ ready' = ready \ {First} /\ ~live /\ pc \in {"read", "drain"}
    BY <1>6 DEF Drained, AfterRead
  <2>2. UNCHANGED <<script, printed, drawn, message, live>>
    BY <1>6 DEF Drained, scriptVars
  <2>3. pc' \in {"read", "poll"} /\ (pc' = "poll" => ready' = {})
    BY <1>6 DEF Drained, AfterRead
  <2>4. printed["err"] = 0 /\ "out" \notin ready' => Closed /\ InPipe("out") = 0
    <3>1. CASE "out" \in ready
      BY <2>1, <3>1 DEF First, AtEnd
    <3>2. CASE "out" \notin ready
      BY <2>1, <3>2 DEF Listing
    <3> QED BY <3>1, <3>2
  <2> QED BY <2>1, <2>2, <2>3, <2>4 DEF Listing, Ended, InPipe
<1>7. CASE Poll
  BY <1>7 DEF Listing, Ended, Poll, scriptVars, InPipe
<1>8. CASE Answer
  BY <1>8 DEF Listing, Answer
<1>9. CASE MissingScript
  BY <1>9 DEF Listing, Phases, Ended, MissingScript, scriptVars, InPipe
<1>10. ASSUME NEW l \in BOOLEAN, Begin(l) PROVE Listing'
  BY <1>10 DEF Listing, Begin, Ended, Phases, ProcessTypeOK
<1>11. CASE UNCHANGED vars
  BY <1>11 DEF Listing, Ended, vars, scriptVars, agentVars, InPipe
<1> QED
  BY <1>1, <1>2, <1>3, <1>4, <1>5, <1>6, <1>7, <1>8, <1>9, <1>10, <1>11
  DEF Next, Script, Agent

\* The three facts about a run that the theorems rest on always hold.
LEMMA RunInvariant == Spec => []RunInv
<1>1. Init => RunInv
  BY TypeInit DEF Init, RunInv, Phases, Heard, Listing, None, Ended
<1>2. RunInv /\ [Next]_vars => RunInv'
  BY TypeNext, PhasesNext, HeardNext, ListingNext DEF RunInv
<1> QED BY <1>1, <1>2, PTL DEF Spec

---------------------------------------------------------------------------
(* The theorems                                                            *)

\* However soon a script ends, an answer without a word means that it printed
\* none (utils.py:59-82).
THEOREM NoSilentAnswer == Spec => []NeverSilent
<1>1. RunInv => NeverSilent
  BY DEF RunInv, Heard, Silent, Mute, NeverSilent
<1> QED BY <1>1, RunInvariant, PTL

\* The listing of the containers is whole when its script does not complain,
\* whatever the pipes hold (container.py:118, utils.py:68).
THEOREM ListingsAreWhole == Spec => []ListingWhole
<1>1. RunInv => ListingWhole
  <2> SUFFICES ASSUME RunInv, Ended, ~live, printed["err"] = 0 PROVE Lost("out") = 0
    BY DEF ListingWhole
  <2>1. drawn["out"] = message["out"] /\ InPipe("out") = 0
    BY DEF RunInv, Listing, Streams
  <2> QED BY <2>1 DEF InPipe, Lost
<1> QED BY <1>1, RunInvariant, PTL
=============================================================================
