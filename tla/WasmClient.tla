----------------------------- MODULE WasmClient -----------------------------
(***************************************************************************)
(* The browser client of the WebAssembly package: AdocWeaveClient          *)
(* (client.mjs) on the page, worker.mjs in a Web Worker, and the message   *)
(* queues between them.                                                    *)
(*                                                                         *)
(* The page runs one task at a time.  A promise's continuations run before *)
(* the next event is delivered, but the page's own code may run before     *)
(* them: it can abort, dispose or ask again in the task that called        *)
(* analyze().                                                              *)
(***************************************************************************)
EXTENDS Integers, Sequences, FiniteSets

CONSTANTS
  Calls,     \* the calls of analyze() the page makes
  MaxId      \* the last request ID, 2^32 - 1 in the code

ASSUME ClientAssumption == IsFiniteSet(Calls) /\ 0 \notin Calls /\ MaxId \in Nat \ {0}

Workers == 1..Cardinality(Calls)       \* every call creates at most one

VARIABLES
  answer,         \* what became of each call's promise
  computed,       \* for a call answered with a result, the call it was computed for
  id,             \* the request ID of each call
  active,         \* #active: the call in progress, or 0
  posted,         \* #active.worker, or 0
  worker,         \* #worker, or 0
  ready,          \* each worker's ready promise
  continuations,  \* calls whose continuation on the ready promise of a worker has not run
  nextId,         \* #nextRequestId
  disposed,       \* #disposed
  spawned,        \* number of workers created
  terminated,     \* workers the client terminated, whose listeners it has detached
  state,          \* worker.mjs: state
  inbox, outbox   \* messages to and from each worker

client == <<answer, computed, id, active, posted, worker, ready, continuations, nextId,
            disposed, spawned, terminated>>
vars == <<client, state, inbox, outbox>>

Answers == {"unasked", "pending", "result", "error", "invalid", "cancelled", "busy",
            "failed", "disposed"}
Requests == [type : {"init", "analyze"}, id : 0..MaxId, of : Calls \cup {0}]
Responses == [type : {"ready", "initialization-error", "result", "error", "fatal"},
              id : 0..MaxId, of : Calls \cup {0}]

TypeOK ==
  /\ answer \in [Calls -> Answers]
  /\ computed \in [Calls -> Calls \cup {0}]
  /\ id \in [Calls -> 0..MaxId]
  /\ active \in Calls \cup {0}
  /\ posted \in Workers \cup {0}
  /\ worker \in Workers \cup {0}
  /\ ready \in [Workers -> {"none", "pending", "resolved", "rejected"}]
  /\ continuations \subseteq [call : Calls, worker : Workers \cup {0}]
  /\ nextId \in 0..MaxId
  /\ disposed \in BOOLEAN
  /\ spawned \in {0} \cup Workers
  /\ terminated \subseteq Workers
  /\ state \in [Workers -> {"new", "initializing", "ready", "closed"}]
  /\ inbox \in [Workers -> Seq(Requests)]
  /\ outbox \in [Workers -> Seq(Responses)]

Init ==
  /\ answer = [c \in Calls |-> "unasked"]
  /\ computed = [c \in Calls |-> 0]
  /\ id = [c \in Calls |-> 0]
  /\ active = 0 /\ posted = 0 /\ worker = 0
  /\ ready = [w \in Workers |-> "none"]
  /\ continuations = {}
  /\ nextId = 0
  /\ disposed = FALSE
  /\ spawned = 0
  /\ terminated = {}
  /\ state = [w \in Workers |-> "new"]
  /\ inbox = [w \in Workers |-> <<>>]
  /\ outbox = [w \in Workers |-> <<>>]

Send(box, w, m) == box' = [box EXCEPT ![w] = Append(@, m)]
Message(t) == [type |-> t, id |-> 0, of |-> 0]

-----------------------------------------------------------------------------
(* The parts the client's methods share. *)

(* #settleActive; posted belongs to the active call and goes with it.      *)
SettleActive(a) ==
  /\ answer' = IF active = 0 THEN answer ELSE [answer EXCEPT ![active] = a]
  /\ active' = 0 /\ posted' = 0

KeepActive == UNCHANGED <<answer, active, posted>>

(* Altered: the worker is left running.                                    *)
TerminateNothing(w) == UNCHANGED <<worker, ready, terminated>>

(* #terminateWorker and #detachWorkerListeners                             *)
TerminateWorker(w) ==
  /\ terminated' = terminated \cup ({w} \ {0})
  /\ worker' = IF w = worker THEN 0 ELSE worker
  /\ ready' = IF w # 0 /\ w = worker /\ ready[w] = "pending"
              THEN [ready EXCEPT ![w] = "rejected"] ELSE ready

KeepWorker == UNCHANGED <<worker, ready, terminated>>

(* #failTerminal for the current worker                                    *)
FailTerminal(w) == SettleActive("failed") /\ TerminateWorker(w)

-----------------------------------------------------------------------------
(* Methods. *)

(* #allocateRequestId                                                      *)
AllocatedId == IF nextId = MaxId THEN 1 ELSE nextId + 1

Refuse(c) ==
  /\ answer[c] = "unasked"
  /\ \E a \in {"disposed", "busy", "cancelled", "invalid"} :
       /\ a = "disposed" <=> disposed
       /\ a = "busy" <=> ~disposed /\ active # 0
       /\ answer' = [answer EXCEPT ![c] = a]
       /\ nextId' = IF a = "invalid" THEN AllocatedId ELSE nextId
  /\ UNCHANGED <<computed, id, active, posted, worker, ready, continuations, disposed, spawned,
                 terminated, state, inbox, outbox>>

Accepted(c) ==
  /\ answer[c] = "unasked" /\ ~disposed /\ active = 0
  /\ id' = [id EXCEPT ![c] = AllocatedId]
  /\ nextId' = AllocatedId
  /\ UNCHANGED <<computed, disposed, state, outbox>>

Activate(c) == answer' = [answer EXCEPT ![c] = "pending"] /\ active' = c /\ posted' = 0
Await(c, w) == continuations' = continuations \cup {[call |-> c, worker |-> w]}

AnalyzeWithWorker(c) ==
  /\ Accepted(c) /\ worker # 0
  /\ Activate(c) /\ Await(c, worker)
  /\ UNCHANGED <<worker, ready, spawned, terminated, inbox>>

(* #spawnWorker; the init message may fail to be posted.                   *)
AnalyzeSpawning(c) ==
  LET w == spawned + 1
  IN  /\ Accepted(c) /\ worker = 0
      /\ spawned' = w /\ Await(c, w)
      /\ \/ /\ Activate(c)
            /\ worker' = w
            /\ ready' = [ready EXCEPT ![w] = "pending"]
            /\ Send(inbox, w, Message("init"))
            /\ UNCHANGED terminated
         \/ /\ answer' = [answer EXCEPT ![c] = "failed"]
            /\ ready' = [ready EXCEPT ![w] = "rejected"]
            /\ terminated' = terminated \cup {w}
            /\ UNCHANGED <<active, posted, worker, inbox>>

(* The Worker constructor throws.                                          *)
AnalyzeWithoutWorker(c) ==
  /\ Accepted(c) /\ worker = 0
  /\ Activate(c) /\ Await(c, 0)
  /\ UNCHANGED <<worker, ready, spawned, terminated, inbox>>

(* Altered: the worker goes on with what it was posted.                    *)
AbortSettling(c) ==
  /\ active = c
  /\ SettleActive("cancelled") /\ KeepWorker
  /\ UNCHANGED <<computed, id, continuations, nextId, disposed, spawned, state, inbox, outbox>>

(* The call's AbortSignal.                                                 *)
Abort(c) ==
  /\ active = c
  /\ SettleActive("cancelled")
  /\ TerminateWorker(IF posted # 0 THEN posted ELSE worker)
  /\ UNCHANGED <<computed, id, continuations, nextId, disposed, spawned, state, inbox, outbox>>

(* Altered: a worker that is still being initialized is kept.              *)
DisposeReady ==
  /\ ~disposed /\ disposed' = TRUE
  /\ SettleActive("disposed")
  /\ TerminateWorker(posted)
  /\ UNCHANGED <<computed, id, continuations, nextId, spawned, state, inbox, outbox>>

Dispose ==
  /\ ~disposed /\ disposed' = TRUE
  /\ SettleActive("disposed")
  /\ TerminateWorker(worker)
  /\ UNCHANGED <<computed, id, continuations, nextId, spawned, state, inbox, outbox>>

-----------------------------------------------------------------------------
(* Continuations of the ready promise. *)

Promised(w) == IF w = 0 THEN "rejected" ELSE ready[w]
Rejected(k) == Promised(k.worker) = "rejected"
Runnable == {k \in continuations : Promised(k.worker) # "pending"}

Post(k) ==
  /\ k \in Runnable /\ ~Rejected(k) /\ active = k.call /\ k.worker = worker
  /\ posted' = worker
  /\ Send(inbox, worker, [type |-> "analyze", id |-> id[k.call], of |-> k.call])
  /\ UNCHANGED <<answer, active, worker, ready, terminated>>

(* The payload cannot be cloned, or the message cannot be posted.          *)
PostFails(k) ==
  /\ k \in Runnable /\ ~Rejected(k) /\ active = k.call /\ k.worker = worker
  /\ \/ SettleActive("invalid") /\ KeepWorker
     \/ FailTerminal(worker)
  /\ UNCHANGED inbox

(* Altered: the failure is taken for that of a superseded call.            *)
CannotStartSilently(k) ==
  /\ k \in Runnable /\ Rejected(k) /\ active = k.call
  /\ KeepActive /\ KeepWorker
  /\ UNCHANGED inbox

CannotStart(k) ==
  /\ k \in Runnable /\ Rejected(k) /\ active = k.call
  /\ SettleActive("failed") /\ KeepWorker
  /\ UNCHANGED inbox

Superseded(k) ==
  /\ k \in Runnable
  /\ active # k.call \/ (~Rejected(k) /\ k.worker # worker)
  /\ KeepActive /\ KeepWorker
  /\ UNCHANGED inbox

Continue(k) ==
  /\ Post(k) \/ PostFails(k) \/ CannotStart(k) \/ Superseded(k)
  /\ continuations' = continuations \ {k}
  /\ UNCHANGED <<computed, id, nextId, disposed, spawned, state, outbox>>

-----------------------------------------------------------------------------
(* Events: a message from a worker, an error or an unreadable message. *)

Ready(w, m) ==
  /\ m.type = "ready" /\ ready[w] = "pending"
  /\ ready' = [ready EXCEPT ![w] = "resolved"]
  /\ KeepActive /\ UNCHANGED <<computed, worker, terminated>>

(* Whether the worker answers the call in progress.                        *)
AnswersActive(w, m) == active # 0 /\ posted = w /\ m.id = id[active]

Result(w, m) ==
  /\ m.type = "result" /\ AnswersActive(w, m)
  /\ SettleActive("result") /\ KeepWorker
  /\ computed' = [computed EXCEPT ![active] = m.of]

Error(w, m) ==
  /\ m.type = "error" /\ AnswersActive(w, m)
  /\ SettleActive("error") /\ KeepWorker
  /\ UNCHANGED computed

(* A fatal error, a failed initialization, another version of the protocol *)
(* and whatever breaks it.                                                 *)
Fatal(w, m) ==
  /\ m.type \in {"fatal", "initialization-error", "ready"}
     \/ (m.type \in {"result", "error"} /\ ~AnswersActive(w, m))
  /\ FailTerminal(w)
  /\ UNCHANGED computed

(* #handleMessage                                                          *)
Deliver(w) ==
  /\ Runnable = {} /\ w \notin terminated /\ outbox[w] # <<>>
  /\ LET m == Head(outbox[w])
     IN  IF w # worker \/ disposed
         THEN KeepActive /\ KeepWorker /\ UNCHANGED computed
         ELSE Ready(w, m) \/ Result(w, m) \/ Error(w, m) \/ Fatal(w, m)
  /\ outbox' = [outbox EXCEPT ![w] = Tail(@)]
  /\ UNCHANGED <<id, continuations, nextId, disposed, spawned, state, inbox>>

(* onError, onMessageError                                                 *)
WorkerFails(w) ==
  /\ Runnable = {} /\ w = worker
  /\ FailTerminal(w)
  /\ UNCHANGED <<computed, id, continuations, nextId, disposed, spawned, state, inbox, outbox>>

-----------------------------------------------------------------------------
(* worker.mjs.  A worker that was terminated runs no more. *)

Running(w) == w \in 1..spawned /\ w \notin terminated

Receive(w) ==
  /\ Running(w) /\ state[w] # "closed" /\ inbox[w] # <<>>
  /\ inbox' = [inbox EXCEPT ![w] = Tail(@)]
  /\ UNCHANGED client

StartInit(w) ==
  /\ Receive(w) /\ Head(inbox[w]).type = "init"
  /\ IF state[w] = "new"
     THEN state' = [state EXCEPT ![w] = "initializing"] /\ UNCHANGED outbox
     ELSE /\ state' = [state EXCEPT ![w] = "closed"]
          /\ Send(outbox, w, Message("initialization-error"))

FinishInit(w) ==
  /\ Running(w) /\ state[w] = "initializing"
  /\ \/ /\ state' = [state EXCEPT ![w] = "ready"]
        /\ Send(outbox, w, Message("ready"))
     \/ /\ state' = [state EXCEPT ![w] = "closed"]
        /\ Send(outbox, w, Message("initialization-error"))
  /\ UNCHANGED <<client, inbox>>

Compute(w) ==
  /\ Receive(w) /\ Head(inbox[w]).type = "analyze"
  /\ \E t \in {"result", "error", "fatal"} :
       /\ state[w] # "ready" => t = "fatal"
       /\ state' = IF t = "fatal" THEN [state EXCEPT ![w] = "closed"] ELSE state
       /\ Send(outbox, w, [Head(inbox[w]) EXCEPT !.type = t])

-----------------------------------------------------------------------------
Next ==
  \/ \E c \in Calls : Refuse(c)
  \/ \E c \in Calls : AnalyzeWithWorker(c)
  \/ \E c \in Calls : AnalyzeSpawning(c)
  \/ \E c \in Calls : AnalyzeWithoutWorker(c)
  \/ \E c \in Calls : Abort(c)
  \/ Dispose
  \/ \E k \in continuations : Continue(k)
  \/ \E w \in Workers : Deliver(w)
  \/ \E w \in Workers : WorkerFails(w)
  \/ \E w \in Workers : StartInit(w)
  \/ \E w \in Workers : FinishInit(w)
  \/ \E w \in Workers : Compute(w)

(* The page's event loop and the workers make progress; the module's       *)
(* initialization and an analysis end at some time.  Nothing is assumed of *)
(* the page's own calls, nor of failures.                                  *)
Fairness ==
  /\ WF_vars(\E k \in continuations : Continue(k))
  /\ \A w \in Workers : /\ WF_vars(Deliver(w)) /\ WF_vars(StartInit(w))
                        /\ WF_vars(FinishInit(w)) /\ WF_vars(Compute(w))

Spec == Init /\ [][Next]_vars /\ Fairness

-----------------------------------------------------------------------------
(* Properties. *)

(* The page sees one analysis at a time and one answer to every call, and  *)
(* gets the answer in the end: WasmAnalyzer, with its fairness.            *)
Analyzer == INSTANCE WasmAnalyzer WITH answer <- answer, disposed <- disposed
Implements == Analyzer!Spec

(* A result is the one computed for the call it answers, also when request *)
(* IDs start over.                                                         *)
OwnResult == \A c \in Calls : answer[c] = "result" => computed[c] = c

(* A worker that still runs only works on the call in progress: cancelled  *)
(* work has been stopped, and no late response can be taken for an answer  *)
(* or for a breach of the protocol.                                        *)
WorkIsWanted ==
  /\ TypeOK
  /\ \A w \in Workers \ terminated :
       /\ \A i \in 1..Len(inbox[w]) : inbox[w][i].type = "analyze" =>
            active = inbox[w][i].of /\ posted = w
       /\ \A i \in 1..Len(outbox[w]) : outbox[w][i].of # 0 =>
            active = outbox[w][i].of /\ posted = w
       /\ Len(inbox[w]) + Len(outbox[w]) <= 1

(* The client loses sight of no worker: all but the current one have been  *)
(* terminated, and after dispose() none is left.                           *)
NoWorkerLeaked ==
  \A w \in 1..spawned : w \notin terminated => w = worker /\ ~disposed
=============================================================================
