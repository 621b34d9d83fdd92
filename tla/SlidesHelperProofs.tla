-------------------------- MODULE SlidesHelperProofs ------------------------
(***************************************************************************)
(* A run of the helper leaves no process behind and uses only whole        *)
(* responses, for any sizes, limits and capacity of the pipes; it has a    *)
(* bounded number of steps, and no pipe that is full stops it.             *)
(***************************************************************************)
EXTENDS SlidesHelper, TLAPS

Counts ==
  /\ written \in Nat
  /\ noise \in [Streams -> Nat] /\ read \in [Streams -> Nat]

(* What was written to stdout has been read or is in the pipe.             *)
Accounted ==
  host \in {"new", "running"} => read["stdout"] + pipe["stdout"] = written + noise["stdout"]

(* The end of a stream is final.                                           *)
Ended ==
  host = "running" => \A s \in Streams \ reading : pipe[s] = 0 /\ ~Writers(s)

Sent == stdin = "whole" => sent = InputSize

(* Nothing is started or read before there is a child.                     *)
Started ==
  /\ child = None => descendant = None
  /\ host = "new" => child = None /\ reading = Streams
  /\ host = "killed" => child # "running" /\ descendant # "group"

IInv ==
  /\ ResultIsWhole /\ NothingLeftBehind
  /\ Counts /\ Accounted /\ Ended /\ Sent /\ Started

(* The invariant holds of a helper that has not been started.              *)
LEMMA InitIInv == Init => IInv
  <1> SUFFICES ASSUME Init PROVE IInv
    OBVIOUS
  <1> USE HelperAssumption DEF Init, Streams, None, NoCode, Failures
  <1>1. TypeOK
    BY DEF TypeOK, Limit
  <1>2. ResultIsWhole /\ NothingLeftBehind
    BY <1>1 DEF ResultIsWhole, NothingLeftBehind
  <1>3. Counts /\ Accounted /\ Ended /\ Sent /\ Started
    BY DEF Counts, Accounted, Ended, Sent, Started
  <1> QED
    BY <1>2, <1>3 DEF IInv

(* No step of the host disturbs it.                                        *)
LEMMA HostStep == IInv /\ (Host \/ TimeOut) => IInv'
  <1> SUFFICES ASSUME IInv, Host \/ TimeOut PROVE IInv'
    OBVIOUS
  <1> USE HelperAssumption DEF IInv, ResultIsWhole, NothingLeftBehind, TypeOK, Counts, Accounted, Ended,
        Sent, Started, Writers, Limit, Streams, None, NoCode, Failures, handles, processes
  <1>1. CASE Refuse
    BY <1>1 DEF Refuse, Return
  <1>2. CASE Spawn
    BY <1>2 DEF Spawn
  <1>3. CASE WriteInput
    BY <1>3 DEF WriteInput
  <1>4. CASE WaitChild
    BY <1>4 DEF WaitChild
  <1>5. CASE Conclude
    <2>1. Conclusion \in {"exit", "protocol", "io", "ok"}
      BY DEF Conclusion
    <2>2. CASE Conclusion = "ok"
      <3>1. stdin = "whole" /\ written = Answer /\ read["stdout"] = Answer
            /\ exit = IF helper.failed THEN 1 ELSE 0
        BY <1>5, <2>2 DEF Conclude, Joined, Conclusion, Parses
      <3>2. pipe["stdout"] = 0 /\ ~Writers("stdout") /\ ~Writers("stderr")
        BY <1>5 DEF Conclude, Joined
      <3>3. noise["stdout"] = 0 /\ sent = InputSize
        BY <1>5, <3>1, <3>2 DEF Conclude, Joined
      <3> QED
        BY <1>5, <2>2, <3>1, <3>2, <3>3 DEF Conclude, Return, Joined
    <2>3. CASE Conclusion # "ok"
      BY <1>5, <2>1, <2>3 DEF Conclude, Return, Joined
    <2> QED
      BY <2>2, <2>3
  <1>6. ASSUME NEW s \in Streams, ReadOutput(s) PROVE IInv'
    <2>1. CASE pipe[s] = 0 /\ ~Writers(s) /\ reading' = reading \ {s}
               /\ UNCHANGED <<host, result, stdin, pipe, read>>
      BY <1>6, <2>1 DEF ReadOutput, ReadStream
    <2>2. ASSUME NEW n \in 1..pipe[s], pipe' = [pipe EXCEPT ![s] = @ - n], ~(n > Limit(s) - read[s]),
                 read' = [read EXCEPT ![s] = @ + n], UNCHANGED <<host, result, stdin, reading>>
          PROVE IInv'
      BY <1>6, <2>2 DEF ReadOutput, ReadStream
    <2>3. ASSUME NEW n \in 1..pipe[s], pipe' = [pipe EXCEPT ![s] = @ - n],
                 Fail(IF s = "stdout" THEN "stdout-limit" ELSE "stderr-limit"), UNCHANGED read
          PROVE IInv'
      BY <1>6, <2>3 DEF ReadOutput, ReadStream, Fail
    <2> QED
      BY <1>6, <2>1, <2>2, <2>3 DEF ReadOutput, ReadStream
  <1>7. CASE NoticeCancellation
    BY <1>7 DEF NoticeCancellation, Fail
  <1>8. CASE KillGroup
    BY <1>8 DEF KillGroup, Killed
  <1>9. CASE Reap
    BY <1>9 DEF Reap
  <1>10. CASE TimeOut
    BY <1>10 DEF TimeOut, Fail
  <1> QED
    BY <1>1, <1>2, <1>3, <1>4, <1>5, <1>6, <1>7, <1>8, <1>9, <1>10 DEF Host

(* ... nor does anything the helper does, or the caller.                   *)
LEMMA OutsideStep == IInv /\ (Helper \/ Others \/ Cancel) => IInv'
  <1> SUFFICES ASSUME IInv, Helper \/ Others \/ Cancel PROVE IInv'
    OBVIOUS
  <1> USE HelperAssumption DEF IInv, ResultIsWhole, NothingLeftBehind, TypeOK, Counts, Accounted, Ended,
        Sent, Started, Writers, Limit, Streams, None, NoCode, Failures, handles, processes, OutsideHost
  <1>1. CASE TakeInput
    BY <1>1 DEF TakeInput
  <1>2. CASE WriteResponse
    BY <1>2 DEF WriteResponse
  <1>3. ASSUME NEW code \in {0, 1, 2, NoCode}, Exit(code) PROVE IInv'
    BY <1>3 DEF Exit
  <1>4. ASSUME NEW s \in Streams, WriteNoise(s) PROVE IInv'
    BY <1>4 DEF WriteNoise
  <1>5. CASE Start
    BY <1>5 DEF Start
  <1>6. CASE DescendantEnds
    BY <1>6 DEF DescendantEnds
  <1>7. CASE Cancel
    BY <1>7 DEF Cancel
  <1> QED
    BY <1>1, <1>2, <1>3, <1>4, <1>5, <1>6, <1>7 DEF Helper, Others

LEMMA IInvariant == Spec => []IInv
  <1>1. IInv /\ [Next]_vars => IInv'
    <2>1. IInv /\ UNCHANGED vars => IInv'
      BY DEF vars, handles, processes, IInv, ResultIsWhole, NothingLeftBehind, TypeOK, Counts, Accounted,
             Ended, Sent, Started, Writers, Limit
    <2> QED
      BY <2>1, HostStep, OutsideStep DEF Next
  <1> QED
    BY <1>1, InitIInv, PTL DEF Spec

(* Whichever limit ends a run, and whatever the helper has started in its  *)
(* group, no process of it is left when execute() returns.                 *)
THEOREM NoProcessLeft == Spec => []NothingLeftBehind
  <1>1. IInv => NothingLeftBehind
    BY DEF IInv
  <1> QED
    BY <1>1, IInvariant, PTL

(* A response that is used is whole, was asked with the whole request and  *)
(* agrees with the exit status.                                            *)
THEOREM ResponsesWhole == Spec => []ResultIsWhole
  <1>1. IInv => ResultIsWhole
    BY DEF IInv
  <1> QED
    BY <1>1, IInvariant, PTL

-----------------------------------------------------------------------------
(* Why a run ends. *)

HostRank ==
  CASE host = "new" -> 4 [] host = "running" -> 3 [] host = "failed" -> 2
    [] host = "killed" -> 1 [] OTHER -> 0
ChildRank ==
  CASE child = None -> 3 [] child = "running" -> 2 [] child = "exited" -> 1 [] OTHER -> 0
DescendantRank ==
  CASE descendant = None -> 2 [] descendant \in {"group", "detached"} -> 1 [] OTHER -> 0
Undone(p) == IF p THEN 1 ELSE 0

(* What can still happen: every unit is written and read once, and the     *)
(* host, the processes and the streams only go on to their ends.           *)
Work ==
  HostRank + ChildRank + DescendantRank
  + Undone(~cancelled) + Undone(stdin = "open")
  + Undone("stdout" \in reading) + Undone("stderr" \in reading)
  + 2 * (InputSize - sent) + request
  + 2 * (Answer - written) + 2 * (MaxNoise - noise["stdout"]) + 2 * (MaxNoise - noise["stderr"])
  + pipe["stdout"] + pipe["stderr"]

Bounded ==
  /\ written <= Answer /\ \A s \in Streams : noise[s] <= MaxNoise
  /\ cancelled \in BOOLEAN

LEMMA InitBounded == Init => Bounded
  <1> SUFFICES ASSUME Init PROVE Bounded
    OBVIOUS
  <1>1. written = 0 /\ cancelled = FALSE /\ \A s \in Streams : noise[s] = 0
    BY DEF Init
  <1>2. 0 <= Answer /\ 0 <= MaxNoise
    BY HelperAssumption
  <1> QED
    BY <1>1, <1>2 DEF Bounded

LEMMA StepBounded == IInv /\ Bounded /\ [Next]_vars => Bounded'
  <1> SUFFICES ASSUME IInv, Bounded, [Next]_vars PROVE Bounded'
    OBVIOUS
  <1> USE HelperAssumption DEF Bounded, IInv, Counts
  <1>1. CASE WriteResponse
    BY <1>1 DEF WriteResponse, OutsideHost
  <1>2. ASSUME NEW s \in Streams, WriteNoise(s) PROVE Bounded'
    BY <1>2 DEF WriteNoise, OutsideHost
  <1>3. CASE Cancel
    BY <1>3 DEF Cancel, processes
  <1>4. CASE UNCHANGED <<written, noise, cancelled>>
    BY <1>4
  <1> QED
    BY <1>1, <1>2, <1>3, <1>4
       DEF Next, Host, Helper, Others, vars, processes, Refuse, Spawn, WriteInput, WaitChild, Conclude,
           ReadOutput, ReadStream, NoticeCancellation, KillGroup, Reap, TimeOut, TakeInput, Exit, Start,
           DescendantEnds, OutsideHost

(* The work left is a natural number.                                      *)
LEMMA WorkNatural == IInv /\ Bounded => Work \in Nat
  <1> SUFFICES ASSUME IInv, Bounded PROVE Work \in Nat
    OBVIOUS
  <1>1. /\ InputSize - sent \in Nat /\ request \in Nat
        /\ pipe["stdout"] \in Nat /\ pipe["stderr"] \in Nat
    BY HelperAssumption DEF IInv, ResultIsWhole, TypeOK, Streams
  <1>2. /\ Answer - written \in Nat
        /\ MaxNoise - noise["stdout"] \in Nat /\ MaxNoise - noise["stderr"] \in Nat
    BY HelperAssumption DEF IInv, Counts, Bounded, Streams
  <1> QED
    BY <1>1, <1>2 DEF Work, HostRank, ChildRank, DescendantRank, Undone

LEMMA StepWorks == IInv /\ Bounded /\ Next => Work' < Work
  <1> SUFFICES ASSUME IInv, Bounded, Next PROVE Work' < Work
    OBVIOUS
  <1>0. IInv' /\ Bounded'
    BY HostStep, OutsideStep, StepBounded DEF Next
  <1> USE HelperAssumption DEF IInv, ResultIsWhole, TypeOK, Counts, Bounded, Streams, None, Work,
        HostRank, ChildRank, DescendantRank, Undone, handles, processes
  <1>1. CASE Refuse
    BY <1>1 DEF Refuse, Return
  <1>2. CASE Spawn
    BY <1>2 DEF Spawn, Started
  <1>3. CASE WriteInput
    BY <1>3 DEF WriteInput
  <1>4. CASE WaitChild
    BY <1>4 DEF WaitChild
  <1>5. CASE Conclude
    BY <1>5 DEF Conclude, Joined, Return
  <1>6. ASSUME NEW s \in Streams, ReadOutput(s) PROVE Work' < Work
    <2>1. CASE pipe[s] = 0 /\ ~Writers(s) /\ reading' = reading \ {s}
               /\ UNCHANGED <<host, result, stdin, pipe, read>>
      BY <1>6, <2>1 DEF ReadOutput, ReadStream
    <2>2. ASSUME NEW n \in 1..pipe[s], pipe' = [pipe EXCEPT ![s] = @ - n],
                 UNCHANGED <<host, result, stdin, reading>>
          PROVE  Work' < Work
      BY <1>6, <2>2 DEF ReadOutput, ReadStream
    <2>3. ASSUME NEW n \in 1..pipe[s], pipe' = [pipe EXCEPT ![s] = @ - n],
                 Fail(IF s = "stdout" THEN "stdout-limit" ELSE "stderr-limit"), UNCHANGED read
          PROVE  Work' < Work
      BY <1>6, <2>3 DEF ReadOutput, ReadStream, Fail
    <2> QED
      BY <1>6, <2>1, <2>2, <2>3 DEF ReadOutput, ReadStream
  <1>7. CASE NoticeCancellation
    BY <1>7 DEF NoticeCancellation, Fail
  <1>8. CASE KillGroup
    BY <1>8 DEF KillGroup, Killed
  <1>9. CASE Reap
    BY <1>9 DEF Reap
  <1>10. CASE TimeOut
    BY <1>10 DEF TimeOut, Fail
  <1>11. CASE TakeInput
    BY <1>11 DEF TakeInput, OutsideHost
  <1>12. CASE WriteResponse
    BY <1>12 DEF WriteResponse, OutsideHost
  <1>13. ASSUME NEW code \in {0, 1, 2, NoCode}, Exit(code) PROVE Work' < Work
    BY <1>13 DEF Exit, OutsideHost
  <1>14. ASSUME NEW s \in Streams, WriteNoise(s) PROVE Work' < Work
    BY <1>14 DEF WriteNoise, OutsideHost
  <1>15. CASE Start
    BY <1>15 DEF Start, OutsideHost
  <1>16. CASE DescendantEnds
    BY <1>16 DEF DescendantEnds, OutsideHost
  <1>17. CASE Cancel
    BY <1>17 DEF Cancel
  <1> QED
    BY <1>1, <1>2, <1>3, <1>4, <1>5, <1>6, <1>7, <1>8, <1>9, <1>10, <1>11, <1>12, <1>13, <1>14,
       <1>15, <1>16, <1>17 DEF Next, Host, Helper, Others

(* A run has a bounded number of steps, whatever the host, the helper and  *)
(* what it has started do: each leaves less to do.                         *)
THEOREM RunsAreFinite == Spec => [](Work \in Nat) /\ [][Work' < Work]_vars
  <1>1. IInv /\ Bounded => Work \in Nat
    BY WorkNatural
  <1>2. IInv /\ Bounded /\ [Next]_vars => [Work' < Work]_vars
    BY StepWorks
  <1> QED
    BY <1>1, <1>2, InitBounded, StepBounded, IInvariant, PTL DEF Spec

-----------------------------------------------------------------------------
(* Why it ends with the answer. *)

(* A helper that answers does so after the whole request, ends by itself   *)
(* and only then, and writes nothing else to stdout; the host gives up     *)
(* only for the reason it names.                                           *)
Answering ==
  /\ helper \in [answers : BOOLEAN, failed : BOOLEAN, inTime : BOOLEAN, early : {0, Answer - 1}]
  /\ helper.inTime => helper.answers
  /\ host = "new" => stdin = "open"
  /\ helper.answers =>
       /\ noise["stdout"] = 0 /\ descendant = None
       /\ written = Answer => stdin = "whole"
       /\ host = "running" => stdin # "broken"
       /\ host = "running" /\ child # "running" =>
            written = Answer /\ exit = IF helper.failed THEN 1 ELSE 0
       /\ result \notin {"exit", "protocol", "io"}
  /\ result = "timeout" => ~helper.inTime
  /\ result = "cancelled" => cancelled

LEMMA InitAnswering == Init => Answering
  BY HelperAssumption DEF Init, Answering, Streams, None

(* What the host makes of a conversation that a helper has answered.       *)
LEMMA AnswerParses == IInv /\ Answering /\ helper.answers /\ Joined => Conclusion = "ok"
  <1> SUFFICES ASSUME IInv, Answering, helper.answers, Joined PROVE Conclusion = "ok"
    OBVIOUS
  <1>1. /\ host = "running" /\ child = "reaped" /\ stdin \notin {"open", "broken"}
        /\ written = Answer /\ exit = IF helper.failed THEN 1 ELSE 0
    BY DEF Joined, Answering
  <1>2. pipe["stdout"] = 0
    BY <1>1 DEF Joined, IInv, Ended, Streams
  <1>3. read["stdout"] = Answer
    BY <1>1, <1>2, HelperAssumption DEF IInv, Accounted, Answering, Counts, Streams
  <1> QED
    BY <1>1, <1>3 DEF Conclusion, Parses

LEMMA StepAnswering == IInv /\ Bounded /\ Answering /\ [Next]_vars => Answering'
  <1> SUFFICES ASSUME IInv, Bounded, Answering, [Next]_vars PROVE Answering'
    OBVIOUS
  <1>0. helper' = helper
    BY DEF Next, Host, Helper, Others, vars, Refuse, Spawn, WriteInput, WaitChild, Conclude, ReadOutput,
           ReadStream, NoticeCancellation, KillGroup, Reap, TimeOut, TakeInput, WriteResponse, Exit,
           WriteNoise, Start, DescendantEnds, Cancel, OutsideHost
  <1> USE HelperAssumption, <1>0 DEF Answering, Streams, None, handles, processes, IInv, ResultIsWhole,
        TypeOK
  <1>1. CASE Refuse
    BY <1>1 DEF Refuse, Return
  <1>2. CASE Spawn
    BY <1>2 DEF Spawn
  <1>3. CASE WriteInput
    BY <1>3 DEF WriteInput
  <1>4. CASE WaitChild
    BY <1>4 DEF WaitChild
  <1>5. CASE Conclude
    <2>1. helper.answers => Conclusion = "ok"
      BY <1>5, AnswerParses DEF Conclude
    <2>2. Conclusion \in {"exit", "protocol", "io", "ok"}
      BY DEF Conclusion
    <2> QED
      BY <1>5, <2>1, <2>2 DEF Conclude, Return
  <1>6. ASSUME NEW s \in Streams, ReadOutput(s) PROVE Answering'
    BY <1>6 DEF ReadOutput, ReadStream, Fail
  <1>7. CASE NoticeCancellation
    BY <1>7 DEF NoticeCancellation, Fail
  <1>8. CASE KillGroup
    BY <1>8 DEF KillGroup
  <1>9. CASE Reap
    BY <1>9 DEF Reap
  <1>10. CASE TimeOut
    BY <1>10 DEF TimeOut, Fail
  <1>11. CASE TakeInput
    BY <1>11 DEF TakeInput, OutsideHost
  <1>12. CASE WriteResponse
    BY <1>12 DEF WriteResponse, OutsideHost, Given, Counts, Bounded
  <1>13. ASSUME NEW code \in {0, 1, 2, NoCode}, Exit(code) PROVE Answering'
    BY <1>13 DEF Exit, OutsideHost
  <1>14. ASSUME NEW s \in Streams, WriteNoise(s) PROVE Answering'
    BY <1>14 DEF WriteNoise, OutsideHost, Counts
  <1>15. CASE Start
    BY <1>15 DEF Start, OutsideHost
  <1>16. CASE DescendantEnds
    BY <1>16 DEF DescendantEnds, OutsideHost
  <1>17. CASE Cancel
    BY <1>17 DEF Cancel
  <1>18. CASE UNCHANGED vars
    BY <1>18 DEF vars
  <1> QED
    BY <1>1, <1>2, <1>3, <1>4, <1>5, <1>6, <1>7, <1>8, <1>9, <1>10, <1>11, <1>12, <1>13, <1>14,
       <1>15, <1>16, <1>17, <1>18 DEF Next, Host, Helper, Others

LEMMA SpecAnswering == Spec => [](IInv /\ Bounded /\ Answering)
  BY InitBounded, StepBounded, InitAnswering, StepAnswering, IInvariant, PTL DEF Spec

(* Something the host waits for is ready.                                  *)
HostReady ==
  \/ stdin = "open" /\ (child # "running" \/ sent = InputSize \/ request < Capacity)
  \/ \E s \in reading : pipe[s] > 0 \/ ~Writers(s)
  \/ child = "exited" \/ Joined

(* The helper has something to read, or room for what it writes, or ends.  *)
HelperReady ==
  /\ child = "running"
  /\ \/ written >= helper.early /\ request > 0
     \/ written < Answer /\ pipe["stdout"] < Capacity /\ (written + 1 = Answer => Given)
     \/ written = Answer

(* Host and helper never wait for each other: whatever the pipes hold, and *)
(* however much the helper writes before it reads, one of the two goes on  *)
(* without a time limit or a cancellation (the try_join of execute).       *)
THEOREM NeitherWaitsForTheOther ==
  Spec => [](host = "running" /\ helper.answers => HostReady \/ HelperReady)
  <1>1. ASSUME IInv, Bounded, Answering, host = "running", helper.answers, ~HostReady
        PROVE  HelperReady
    <2>1. child = "running"
      <3>1. child \in {"running", "exited", "reaped"}
        BY <1>1 DEF IInv, ResultIsWhole, TypeOK
      <3>2. child = "reaped" => Joined
        BY <1>1 DEF HostReady, Joined, Writers, Answering, None
      <3> QED
        BY <1>1, <3>1, <3>2 DEF HostReady
    <2>2. "stdout" \in reading /\ pipe["stdout"] = 0
      BY <1>1, <2>1 DEF HostReady, IInv, Ended, Streams, Writers, ResultIsWhole, TypeOK
    <2>3. stdin = "open" => request > 0 /\ sent # InputSize
      BY <1>1, HelperAssumption DEF HostReady, IInv, ResultIsWhole, TypeOK
    <2>4. stdin = "whole" => sent = InputSize
      BY <1>1 DEF IInv, Sent
    <2>5. stdin \in {"open", "whole"} /\ request \in Nat
      BY <1>1, HelperAssumption DEF IInv, ResultIsWhole, TypeOK, Answering
    <2>6. /\ written \in Nat /\ written <= Answer /\ Capacity > 0 /\ Answer \in Nat \ {0}
          /\ helper.early \in {0, Answer - 1}
      BY <1>1, HelperAssumption DEF IInv, Counts, Bounded, Answering
    <2> QED
      BY <2>1, <2>2, <2>3, <2>4, <2>5, <2>6 DEF HelperReady, Given
  <1> QED
    BY <1>1, SpecAnswering, PTL

(* A helper that answers in time is believed: the run ends with its answer *)
(* unless the caller cancelled it, it could not be started, or it wrote    *)
(* more than it may.                                                       *)
THEOREM AnswersAreUsed ==
  Spec => [](host = "done" /\ helper.inTime /\ ~cancelled
               => result \in {"ok", "spawn", "stdout-limit", "stderr-limit"})
  <1>1. IInv /\ Answering =>
          (host = "done" /\ helper.inTime /\ ~cancelled
             => result \in {"ok", "spawn", "stdout-limit", "stderr-limit"})
    BY DEF IInv, ResultIsWhole, TypeOK, Answering, Failures, None
  <1> QED
    BY <1>1, SpecAnswering, PTL
=============================================================================
