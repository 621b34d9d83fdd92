---------------------------- MODULE SlidesHelper ----------------------------
(***************************************************************************)
(* One run of the slides helper (slides/helper/process.rs, execute): a     *)
(* child process in a process group of its own, three pipes of bounded     *)
(* capacity, a time limit and the caller's cancellation.                   *)
(*                                                                         *)
(* The futures of the host's try_join are polled in any order, as is what  *)
(* its select! races; the helper, what it has started and the kernel run   *)
(* beside it.  Bytes are counted in units.  A definition under "Altered:"  *)
(* is a plausible mistake in the one that follows it and not part of the   *)
(* specification.                                                          *)
(***************************************************************************)
EXTENDS Naturals, FiniteSets

CONSTANTS
  Capacity,     \* units a pipe holds
  InputSize,    \* units of the request
  OutputLimit, StderrLimit,
  Answer,       \* units of a complete response
  MaxNoise      \* bound on the units of anything else the helper writes

Streams == {"stdout", "stderr"}
None == "none"
NoCode == 3     \* the status of a process ended by a signal
Failures == {"cancelled", "spawn", "stdout-limit", "stderr-limit", "timeout", "exit",
             "protocol", "io"}

ASSUME HelperAssumption ==
  /\ {Capacity, InputSize, Answer} \subseteq Nat \ {0}
  /\ {OutputLimit, StderrLimit, MaxNoise} \subseteq Nat

VARIABLES
  host,        \* "new", "running", "failed", "killed" or "done"
  result,      \* None, "ok" or the failure
  sent,        \* units of the request written to stdin
  stdin,       \* the host's end of stdin: "open", "whole" (closed after all of it) or "broken"
  request,     \* units in the stdin pipe
  pipe,        \* pipe[s]: units in the pipe of stream s
  read,        \* read[s]: units read from s
  reading,     \* the streams not read to their end
  child,       \* None, "running", "exited" or "reaped"
  exit,        \* its exit status, NoCode until it ends by itself
  written,     \* units of its response written
  noise,       \* noise[s]: other units written to s
  descendant,  \* what the child has started: None, "group", "detached" or "gone"
  holds,       \* the streams that descendant has inherited and not closed
  cancelled,
  helper       \* the helper: whether it answers, with which status, whether before the time
               \* limit, and the units it writes before it reads its request

handles == <<sent, stdin, request, pipe, read, reading>>
processes == <<child, exit, written, noise, descendant, holds>>
vars == <<host, result, handles, processes, cancelled, helper>>

Init ==
  /\ host = "new" /\ result = None
  /\ sent = 0 /\ stdin = "open" /\ request = 0
  /\ pipe = [s \in Streams |-> 0] /\ read = [s \in Streams |-> 0] /\ reading = Streams
  /\ child = None /\ exit = NoCode /\ written = 0 /\ noise = [s \in Streams |-> 0]
  /\ descendant = None /\ holds = {}
  /\ cancelled = FALSE
  /\ helper \in [answers : BOOLEAN, failed : BOOLEAN, inTime : BOOLEAN, early : {0, Answer - 1}]
  /\ helper.inTime => helper.answers

-----------------------------------------------------------------------------
(* The host, before it has a process.  A request over its limit and a      *)
(* helper that is not found end it as one that cannot be started does.     *)

Return(r) ==
  /\ host' = "done" /\ result' = r

Refuse ==
  /\ host = "new"
  /\ \/ cancelled /\ Return("cancelled")
     \/ ~cancelled /\ Return("spawn")
  /\ UNCHANGED <<handles, processes, cancelled, helper>>

Spawn ==
  /\ host = "new" /\ ~cancelled
  /\ host' = "running" /\ child' = "running"
  /\ UNCHANGED <<result, handles, exit, written, noise, descendant, holds, cancelled, helper>>

-----------------------------------------------------------------------------
(* The operation: what is joined. *)

Writers(s) == child = "running" \/ (descendant \in {"group", "detached"} /\ s \in holds)

(* A pipe nobody reads breaks the write, which is looked at last.          *)
WriteInput ==
  /\ host = "running" /\ stdin = "open"
  /\ \/ /\ child # "running"
        /\ stdin' = "broken" /\ UNCHANGED <<sent, request>>
     \/ /\ child = "running" /\ sent < InputSize /\ request < Capacity
        /\ sent' = sent + 1 /\ request' = request + 1 /\ UNCHANGED stdin
     \/ /\ sent = InputSize
        /\ stdin' = "whole" /\ UNCHANGED <<sent, request>>
  /\ UNCHANGED <<host, result, pipe, read, reading, processes, cancelled, helper>>

Limit(s) == IF s = "stdout" THEN OutputLimit ELSE StderrLimit

(* Dropping the operation closes the host's ends of the pipes.             *)
Fail(r) ==
  /\ host' = "failed" /\ result' = r
  /\ stdin' = IF stdin = "open" THEN "broken" ELSE stdin
  /\ reading' = {}

(* read_bounded takes what is there, up to its chunk.                      *)
ReadStream(s) ==
  /\ host = "running" /\ s \in reading
  /\ \/ \E n \in 1..pipe[s] :
          /\ pipe' = [pipe EXCEPT ![s] = @ - n]
          /\ IF n > Limit(s) - read[s]
             THEN Fail(IF s = "stdout" THEN "stdout-limit" ELSE "stderr-limit") /\ UNCHANGED read
             ELSE read' = [read EXCEPT ![s] = @ + n] /\ UNCHANGED <<host, result, stdin, reading>>
     \/ /\ pipe[s] = 0 /\ ~Writers(s)
        /\ reading' = reading \ {s}
        /\ UNCHANGED <<host, result, stdin, pipe, read>>
  /\ UNCHANGED <<sent, request, processes, cancelled, helper>>

(* Altered: the output is read after the request has been written.         *)
ReadStreamAfterInput(s) == stdin # "open" /\ ReadStream(s)

ReadOutput(s) == ReadStream(s)

WaitChild ==
  /\ host = "running" /\ child = "exited"
  /\ child' = "reaped"
  /\ UNCHANGED <<host, result, handles, exit, written, noise, descendant, holds, cancelled, helper>>

Joined == host = "running" /\ stdin # "open" /\ reading = {} /\ child = "reaped"

Parses == written = Answer /\ read["stdout"] = Answer

(* Altered: how much of the request was sent is not looked at.             *)
ConclusionOfResponse ==
  IF exit \notin {0, 1} THEN "exit"
  ELSE IF ~Parses THEN "protocol"
  ELSE IF exit # IF helper.failed THEN 1 ELSE 0 THEN "protocol"
  ELSE "ok"

(* Whatever else stdout holds is no response (the message differs if the   *)
(* exit status is 1).  An answer that says the generation failed is a      *)
(* result too; the rest of what validate_response requires is left out.    *)
Conclusion ==
  IF exit \notin {0, 1} THEN "exit"
  ELSE IF ~Parses THEN "protocol"
  ELSE IF stdin = "broken" THEN "io"
  ELSE IF exit # IF helper.failed THEN 1 ELSE 0 THEN "protocol"
  ELSE "ok"

Conclude ==
  /\ Joined /\ Return(Conclusion)
  /\ UNCHANGED <<handles, processes, cancelled, helper>>

-----------------------------------------------------------------------------
(* What the operation is raced with, and the cleanup. *)

(* Altered: the time limit is that of the child, not of its pipes.         *)
TimeOutOfChild ==
  /\ host = "running" /\ ~helper.inTime /\ child = "running"
  /\ Fail("timeout")
  /\ UNCHANGED <<sent, request, pipe, read, processes, cancelled, helper>>

TimeOut ==
  /\ host = "running" /\ ~helper.inTime
  /\ Fail("timeout")
  /\ UNCHANGED <<sent, request, pipe, read, processes, cancelled, helper>>

NoticeCancellation ==
  /\ host = "running" /\ cancelled
  /\ Fail("cancelled")
  /\ UNCHANGED <<sent, request, pipe, read, processes, cancelled, helper>>

Killed == IF child = "running" THEN "exited" ELSE child

(* Altered: the child is killed, not its group.                            *)
KillChild ==
  /\ host = "failed" /\ host' = "killed"
  /\ child' = Killed
  /\ UNCHANGED <<result, handles, exit, written, noise, descendant, holds, cancelled, helper>>

KillGroup ==
  /\ host = "failed" /\ host' = "killed"
  /\ child' = Killed
  /\ descendant' = IF descendant = "group" THEN "gone" ELSE descendant
  /\ UNCHANGED <<result, handles, exit, written, noise, holds, cancelled, helper>>

Reap ==
  /\ host = "killed" /\ host' = "done"
  /\ child' = "reaped"
  /\ UNCHANGED <<result, handles, exit, written, noise, descendant, holds, cancelled, helper>>

-----------------------------------------------------------------------------
(* The helper. *)

OutsideHost == UNCHANGED <<host, result, sent, stdin, read, reading, cancelled, helper>>

TakeInput ==
  /\ child = "running" /\ written >= helper.early
  /\ request > 0 /\ request' = request - 1
  /\ OutsideHost /\ UNCHANGED <<pipe, processes>>

Given == sent = InputSize /\ stdin = "whole" /\ request = 0

(* It may write its response while it reads the request; a pipe that is    *)
(* full makes it wait.                                                     *)
WriteResponse ==
  /\ child = "running" /\ written < Answer /\ pipe["stdout"] < Capacity
  /\ written + 1 = Answer => Given \/ ~helper.answers
  /\ written' = written + 1
  /\ pipe' = [pipe EXCEPT !["stdout"] = @ + 1]
  /\ OutsideHost /\ UNCHANGED <<request, child, exit, noise, descendant, holds>>

(* Logging, by the helper or what it has started.                          *)
WriteNoise(s) ==
  /\ helper.answers => s = "stderr"
  /\ noise[s] < MaxNoise /\ pipe[s] < Capacity /\ Writers(s)
  /\ noise' = [noise EXCEPT ![s] = @ + 1]
  /\ pipe' = [pipe EXCEPT ![s] = @ + 1]
  /\ OutsideHost /\ UNCHANGED <<request, child, exit, written, descendant, holds>>

Start ==
  /\ ~helper.answers /\ child = "running" /\ descendant = None
  /\ descendant' \in {"group", "detached"} /\ holds' \in {{}, Streams}
  /\ OutsideHost /\ UNCHANGED <<request, pipe, child, exit, written, noise>>

DescendantEnds ==
  /\ descendant \in {"group", "detached"} /\ descendant' = "gone"
  /\ OutsideHost /\ UNCHANGED <<request, pipe, child, exit, written, noise, holds>>

(* A helper that does not answer may end at any moment, or never.          *)
Exit(code) ==
  /\ child = "running"
  /\ helper.answers => written = Answer /\ code = IF helper.failed THEN 1 ELSE 0
  /\ child' = "exited" /\ exit' = code
  /\ OutsideHost /\ UNCHANGED <<request, pipe, written, noise, descendant, holds>>

-----------------------------------------------------------------------------
Cancel ==
  /\ ~cancelled /\ host # "done" /\ cancelled' = TRUE
  /\ UNCHANGED <<host, result, handles, processes, helper>>

Host ==
  \/ Refuse \/ Spawn \/ WriteInput \/ WaitChild \/ Conclude
  \/ \E s \in Streams : ReadOutput(s)
  \/ NoticeCancellation \/ KillGroup \/ Reap

Helper ==
  \/ TakeInput \/ WriteResponse
  \/ \E code \in {0, 1, 2, NoCode} : Exit(code)

Others ==
  \/ \E s \in Streams : WriteNoise(s)
  \/ Start \/ DescendantEnds

Next == Host \/ TimeOut \/ Helper \/ Others \/ Cancel

(* Every future of the runtime is polled once it is ready; a helper that   *)
(* answers goes on as long as its pipes let it.                            *)
Fairness ==
  /\ WF_vars(Refuse \/ Spawn) /\ WF_vars(WriteInput) /\ WF_vars(WaitChild) /\ WF_vars(Conclude)
  /\ \A s \in Streams : WF_vars(ReadOutput(s))
  /\ WF_vars(TimeOut \/ NoticeCancellation) /\ WF_vars(KillGroup) /\ WF_vars(Reap)
  /\ WF_vars(helper.answers /\ TakeInput) /\ WF_vars(helper.answers /\ WriteResponse)
  /\ WF_vars(helper.answers /\ \E code \in {0, 1} : Exit(code))

Spec == Init /\ [][Next]_vars /\ Fairness

-----------------------------------------------------------------------------
TypeOK ==
  /\ host \in {"new", "running", "failed", "killed", "done"}
  /\ result \in Failures \cup {None, "ok"} /\ (result = None) = (host \in {"new", "running"})
  /\ sent \in 0..InputSize /\ request \in 0..Capacity /\ stdin \in {"open", "whole", "broken"}
  /\ pipe \in [Streams -> 0..Capacity] /\ reading \subseteq Streams
  /\ \A s \in Streams : read[s] <= Limit(s)
  /\ child \in {None, "running", "exited", "reaped"} /\ (child = None => host \in {"new", "done"})
  /\ exit \in {0, 1, 2, NoCode}
  /\ descendant \in {None, "group", "detached", "gone"} /\ holds \subseteq Streams

(* No process is left to run or to be waited for once the host gives up on *)
(* it, whichever of its limits ended it and whatever it had started in its *)
(* group: not even one that keeps a pipe open after the child is gone.     *)
NothingLeftBehind ==
  host = "done" =>
    /\ child \in {None, "reaped"}
    /\ result \in {"cancelled", "timeout", "stdout-limit", "stderr-limit"} => descendant # "group"

(* A response is used only if the helper was given all of the request, all *)
(* it and its descendants wrote is that response, and nobody can add to    *)
(* it.                                                                     *)
ResultIsWhole ==
  /\ TypeOK
  /\ result = "ok" =>
       /\ stdin = "whole" /\ sent = InputSize
       /\ read["stdout"] = written + noise["stdout"] /\ written = Answer /\ noise["stdout"] = 0
       /\ exit = IF helper.failed THEN 1 ELSE 0
       /\ ~Writers("stdout") /\ ~Writers("stderr")

(* A hanging helper, one that leaves a pipe open, and one that is          *)
(* cancelled do not hold up the host.                                      *)
Terminates == ([]helper.inTime /\ []~cancelled) \/ <>(host = "done")

(* A helper that reads its request and answers is never blocked with the   *)
(* host by full pipes: without a time limit or a cancellation it answers.  *)
Converses ==
  [](helper.answers /\ helper.inTime /\ ~cancelled) => <>(result \in {"ok", "spawn", "stdout-limit", "stderr-limit"})
=============================================================================
