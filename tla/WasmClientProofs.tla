---------------------------- MODULE WasmClientProofs --------------------------
(***************************************************************************)
(* For any number of calls and any range of request IDs: the client loses  *)
(* no worker, lets none work on what nobody waits for, gives every call    *)
(* its own result, and takes only the steps WasmAnalyzer allows; every     *)
(* step leaves less to do, and a call that waits is always attended to.    *)
(***************************************************************************)
EXTENDS WasmClient, TLAPS, FiniteSetTheorems

Asked == {c \in Calls : answer[c] # "unasked"}

(* The call in progress, and the continuations that may post it.           *)
Calling ==
  /\ \A c \in Calls : answer[c] = "pending" <=> active = c
  /\ spawned <= Cardinality(Asked)
  /\ disposed => active = 0 /\ worker = 0
  /\ \A k \in continuations : answer[k.call] # "unasked"
  /\ \A k, l \in continuations : k.call = l.call => k = l
  /\ posted # 0 => active # 0 /\ posted = worker /\ \A k \in continuations : k.call # active

(* What is under way between the client and its worker.                    *)
Starting(w) ==
  /\ ready[w] = "pending" /\ posted = 0
  /\ \/ state[w] = "new" /\ inbox[w] = <<Message("init")>> /\ outbox[w] = <<>>
     \/ state[w] = "initializing" /\ inbox[w] = <<>> /\ outbox[w] = <<>>
     \/ state[w] = "ready" /\ inbox[w] = <<>> /\ outbox[w] = <<Message("ready")>>
     \/ state[w] = "closed" /\ inbox[w] = <<>> /\ outbox[w] = <<Message("initialization-error")>>

Work(t) == [type |-> t, id |-> id[active], of |-> active]

Serving(w) ==
  /\ ready[w] = "resolved"
  /\ \/ state[w] = "ready" /\ inbox[w] = <<>> /\ outbox[w] = <<>> /\ posted = 0
     \/ state[w] = "ready" /\ inbox[w] = <<Work("analyze")>> /\ outbox[w] = <<>> /\ posted = w
     \/ /\ state[w] \in {"ready", "closed"} /\ inbox[w] = <<>> /\ posted = w
        /\ \E t \in {"result", "error", "fatal"} :
             outbox[w] = <<Work(t)>> /\ (state[w] = "closed" => t = "fatal")

Owning ==
  /\ terminated \subseteq 1..spawned
  /\ worker # 0 => /\ worker \in (1..spawned) \ terminated
                   /\ Starting(worker) \/ Serving(worker)
  /\ \A w \in Workers : w > spawned => state[w] = "new" /\ inbox[w] = <<>> /\ outbox[w] = <<>>

IInv == TypeOK /\ Calling /\ Owning /\ NoWorkerLeaked /\ OwnResult

LEMMA Asking ==
  ASSUME IInv
  PROVE  /\ IsFiniteSet(Calls) /\ Cardinality(Calls) \in Nat
         /\ IsFiniteSet(Asked) /\ Cardinality(Asked) \in Nat
         /\ spawned \in Nat /\ spawned <= Cardinality(Calls)
  <1>1. IsFiniteSet(Calls) /\ Asked \subseteq Calls
    BY ClientAssumption DEF Asked
  <1>2. IsFiniteSet(Asked) /\ Cardinality(Asked) <= Cardinality(Calls)
    BY <1>1, FS_Subset
  <1>3. Cardinality(Calls) \in Nat /\ Cardinality(Asked) \in Nat
    BY <1>1, <1>2, FS_CardinalityType
  <1> QED
    BY <1>1, <1>2, <1>3 DEF IInv, TypeOK, Calling, Workers

(* A call that is asked for the first time makes room for a worker.        *)
LEMMA AskedGrows ==
  ASSUME IInv, NEW c \in Calls, answer[c] = "unasked", NEW a \in Answers \ {"unasked"},
         answer' = [answer EXCEPT ![c] = a]
  PROVE  /\ Cardinality(Asked') = Cardinality(Asked) + 1
         /\ spawned + 1 <= Cardinality(Calls)
  <1>1. Asked' = Asked \cup {c} /\ c \notin Asked /\ Asked' \subseteq Calls
    BY DEF IInv, TypeOK, Asked, Answers
  <1>2. Cardinality(Asked') = Cardinality(Asked) + 1
    BY <1>1, Asking, FS_AddElement
  <1>3. Cardinality(Asked') <= Cardinality(Calls)
    BY <1>1, Asking, FS_Subset
  <1> QED
    BY <1>2, <1>3, Asking DEF IInv, Calling

(* Asked calls stay asked.                                                 *)
LEMMA AskedStays ==
  ASSUME IInv, answer' \in [Calls -> Answers], \A c \in Calls : answer'[c] = "unasked" <=> answer[c] = "unasked"
  PROVE  Asked' = Asked
  BY DEF Asked, IInv, TypeOK

LEMMA IdType == IInv => AllocatedId \in 0..MaxId
  BY ClientAssumption DEF IInv, TypeOK, AllocatedId

LEMMA InitIInv == Init => IInv
  <1> SUFFICES ASSUME Init PROVE IInv
    OBVIOUS
  <1>1. IsFiniteSet(Calls) /\ Cardinality(Calls) \in Nat
    BY ClientAssumption, FS_CardinalityType
  <1>2. TypeOK
    <2>1. inbox \in [Workers -> Seq(Requests)] /\ outbox \in [Workers -> Seq(Responses)]
      BY DEF Init
    <2>2. answer \in [Calls -> Answers] /\ nextId \in 0..MaxId /\ id \in [Calls -> 0..MaxId]
      BY ClientAssumption DEF Init, Answers
    <2> QED
      BY <1>1, <2>1, <2>2 DEF Init, TypeOK
  <1>3. Asked = {} /\ Cardinality(Asked) = 0
    BY FS_EmptySet DEF Init, Asked
  <1>4. Calling
    BY <1>3, ClientAssumption DEF Init, Calling
  <1>5. Owning /\ NoWorkerLeaked /\ OwnResult
    BY <1>1 DEF Init, Owning, NoWorkerLeaked, OwnResult
  <1> QED
    BY <1>2, <1>4, <1>5 DEF IInv

-----------------------------------------------------------------------------
(* Calls. *)

LEMMA RefuseStep == ASSUME IInv, NEW c \in Calls, Refuse(c) PROVE IInv'
  <1>1. PICK a \in {"disposed", "busy", "cancelled", "invalid"} : answer' = [answer EXCEPT ![c] = a]
    BY DEF Refuse
  <1>2. /\ answer[c] = "unasked" /\ nextId' \in {nextId, AllocatedId}
        /\ UNCHANGED <<computed, id, active, posted, worker, ready, continuations, disposed, spawned,
                       terminated, state, inbox, outbox>>
    BY DEF Refuse
  <1>3. Cardinality(Asked') = Cardinality(Asked) + 1
    BY <1>1, <1>2, AskedGrows DEF Answers
  <1>4. TypeOK'
    BY <1>1, <1>2, IdType DEF IInv, TypeOK, Answers
  <1>5. Calling'
    BY <1>1, <1>2, <1>3, Asking DEF IInv, Calling, TypeOK
  <1>6. Owning'
    BY <1>2 DEF IInv, Owning, Starting, Serving, Work
  <1>7. NoWorkerLeaked' /\ OwnResult'
    BY <1>1, <1>2 DEF IInv, NoWorkerLeaked, OwnResult, TypeOK
  <1> QED
    BY <1>4, <1>5, <1>6, <1>7 DEF IInv

LEMMA WithWorkerStep ==
  ASSUME IInv, NEW c \in Calls, AnalyzeWithWorker(c) \/ AnalyzeWithoutWorker(c) PROVE IInv'
  <1> DEFINE k == [call |-> c, worker |-> worker]
  <1>1. /\ answer[c] = "unasked" /\ ~disposed /\ active = 0
        /\ answer' = [answer EXCEPT ![c] = "pending"] /\ active' = c /\ posted' = 0
        /\ id' = [id EXCEPT ![c] = AllocatedId] /\ nextId' = AllocatedId
        /\ continuations' = continuations \cup {k}
        /\ UNCHANGED <<computed, worker, ready, disposed, spawned, terminated, state, inbox, outbox>>
    BY DEF AnalyzeWithWorker, AnalyzeWithoutWorker, Accepted, Activate, Await
  <1>2. Cardinality(Asked') = Cardinality(Asked) + 1
    BY <1>1, AskedGrows DEF Answers
  <1>3. k.call = c /\ k \in [call : Calls, worker : Workers \cup {0}]
    BY DEF IInv, TypeOK
  <1> HIDE DEF k
  <1>4. TypeOK'
    BY <1>1, <1>3, IdType DEF IInv, TypeOK, Answers
  <1>5. Calling'
    BY <1>1, <1>2, <1>3, Asking, ClientAssumption, SMTT(30) DEF IInv, Calling, TypeOK
  <1>6. posted = 0
    BY <1>1 DEF IInv, Calling
  <1>7. Owning'
    <2>1. worker # 0 => Starting(worker)' \/ Serving(worker)'
      BY <1>1, <1>6 DEF IInv, Owning, Starting, Serving
    <2> QED
      BY <1>1, <2>1 DEF IInv, Owning
  <1>8. NoWorkerLeaked' /\ OwnResult'
    BY <1>1 DEF IInv, NoWorkerLeaked, OwnResult, TypeOK
  <1> QED
    BY <1>4, <1>5, <1>7, <1>8 DEF IInv

LEMMA SpawningStep == ASSUME IInv, NEW c \in Calls, AnalyzeSpawning(c) PROVE IInv'
  <1>0. PICK w \in Int : w = spawned + 1
    BY Asking
  <1> DEFINE k == [call |-> c, worker |-> w]
  <1>1. /\ answer[c] = "unasked" /\ ~disposed /\ active = 0 /\ worker = 0
        /\ id' = [id EXCEPT ![c] = AllocatedId] /\ nextId' = AllocatedId
        /\ continuations' = continuations \cup {k} /\ spawned' = w
        /\ UNCHANGED <<computed, disposed, state, outbox>>
    BY <1>0 DEF AnalyzeSpawning, Accepted, Await
  <1>2. PICK a \in {"pending", "failed"} : answer' = [answer EXCEPT ![c] = a]
    BY DEF AnalyzeSpawning, Activate
  <1>3. Cardinality(Asked') = Cardinality(Asked) + 1 /\ w <= Cardinality(Calls)
    BY <1>0, <1>1, <1>2, AskedGrows DEF Answers
  <1>b. w \in Workers
    BY <1>0, <1>3, Asking DEF Workers
  <1>c. w \notin 1..spawned
    BY <1>0, Asking
  <1>4. k.call = c /\ k \in [call : Calls, worker : Workers \cup {0}]
    BY <1>b
  <1>5. posted = 0 /\ state[w] = "new" /\ inbox[w] = <<>> /\ outbox[w] = <<>>
    BY <1>0, <1>1, <1>b, Asking DEF IInv, Calling, Owning
  <1>6. 1..w = (1..spawned) \cup {w}
    BY <1>0, Asking
  <1>7. terminated \subseteq 1..spawned /\ \A v \in 1..spawned : v \in terminated
    BY <1>1, <1>b, <1>0 DEF IInv, TypeOK, Owning, NoWorkerLeaked, Workers
  <1>8. Message("init") \in Requests
    BY ClientAssumption DEF Message, Requests
  <1>d. \A v \in Workers : v > w => v > spawned /\ v # w
    BY <1>0, Asking DEF Workers
  <1>e. spawned' <= Cardinality(Asked')
    BY <1>0, <1>1, <1>3, Asking DEF IInv, Calling
  <1>f. \A l \in continuations : l.call # c
    BY <1>1 DEF IInv, Calling
  <1> HIDE DEF k
  <1>9. CASE /\ Activate(c) /\ worker' = w /\ ready' = [ready EXCEPT ![w] = "pending"]
             /\ Send(inbox, w, Message("init")) /\ UNCHANGED terminated
    <2>1. inbox' = [inbox EXCEPT ![w] = <<Message("init")>>]
      BY <1>b, <1>5, <1>9 DEF Send, IInv, TypeOK
    <2>a. inbox' \in [Workers -> Seq(Requests)]
      BY <2>1, <1>8, <1>b DEF IInv, TypeOK
    <2>2. TypeOK'
      BY <1>1, <1>4, <1>b, <2>a, <1>9, IdType DEF IInv, TypeOK, Answers, Activate
    <2>3. Calling'
      BY <1>1, <1>4, <1>e, <1>f, <1>9, ClientAssumption DEF IInv, Calling, TypeOK, Activate
    <2>4. Starting(w)'
      BY <1>1, <1>b, <1>5, <1>9, <2>1 DEF Starting, IInv, TypeOK, Activate
    <2>b. worker' \in (1..spawned') \ terminated' /\ terminated' \subseteq 1..spawned'
      BY <1>1, <1>c, <1>6, <1>7, <1>9
    <2>c. \A v \in Workers : v > spawned' => state'[v] = "new" /\ inbox'[v] = <<>> /\ outbox'[v] = <<>>
      BY <1>1, <1>d, <2>1 DEF IInv, TypeOK, Owning
    <2>d. Starting(worker)'
      BY <2>4, <1>9 DEF Starting
    <2>6. Owning'
      BY <2>b, <2>c, <2>d DEF Owning
    <2>7. NoWorkerLeaked' /\ OwnResult'
      BY <1>1, <1>6, <1>7, <1>9 DEF IInv, NoWorkerLeaked, OwnResult, TypeOK, Activate
    <2> QED
      BY <2>2, <2>3, <2>6, <2>7 DEF IInv
  <1>10. CASE /\ answer' = [answer EXCEPT ![c] = "failed"] /\ ready' = [ready EXCEPT ![w] = "rejected"]
              /\ terminated' = terminated \cup {w} /\ UNCHANGED <<active, posted, worker, inbox>>
    <2>2. TypeOK'
      BY <1>1, <1>b, <1>4, <1>10, IdType DEF IInv, TypeOK, Answers
    <2>3. Calling'
      BY <1>1, <1>4, <1>e, <1>f, <1>5, <1>10, ClientAssumption DEF IInv, Calling, TypeOK
    <2>5. terminated' \subseteq 1..spawned' /\ worker' = 0
      BY <1>1, <1>6, <1>7, <1>10
    <2>6. Owning'
      BY <1>1, <1>d, <1>10, <2>5 DEF IInv, Owning
    <2>7. NoWorkerLeaked' /\ OwnResult'
      BY <1>1, <1>6, <1>7, <1>10 DEF IInv, NoWorkerLeaked, OwnResult, TypeOK
    <2> QED
      BY <2>2, <2>3, <2>6, <2>7 DEF IInv
  <1> QED
    BY <1>0, <1>9, <1>10 DEF AnalyzeSpawning

-----------------------------------------------------------------------------
(* Answers that are not results. *)

Refusals == {"error", "invalid", "cancelled", "failed", "disposed"}

(* The answer that goes to the call in progress.                           *)
LEMMA Settling ==
  ASSUME IInv, NEW a \in Refusals \cup {"result"}, SettleActive(a)
  PROVE  /\ answer' \in [Calls -> Answers] /\ active' = 0 /\ posted' = 0
         /\ \A c \in Calls : answer'[c] # "pending" /\ (answer'[c] = "unasked" <=> answer[c] = "unasked")
         /\ \A c \in Calls : answer'[c] = IF c = active THEN a ELSE answer[c]
         /\ Asked' = Asked
  <1>1. /\ answer' \in [Calls -> Answers] /\ active' = 0 /\ posted' = 0
        /\ \A c \in Calls : answer'[c] = IF c = active THEN a ELSE answer[c]
    BY ClientAssumption DEF IInv, TypeOK, SettleActive, Answers, Refusals
  <1>2. \A c \in Calls : answer'[c] # "pending" /\ (answer'[c] = "unasked" <=> answer[c] = "unasked")
    BY <1>1 DEF IInv, Calling, Refusals
  <1> QED
    BY <1>1, <1>2, AskedStays

(* The client answers the call and terminates the worker: whatever is in   *)
(* the worker's queues goes with it.                                       *)
LEMMA Stopping ==
  ASSUME IInv, NEW a \in Refusals, SettleActive(a), TerminateWorker(worker),
         continuations' \subseteq continuations, disposed' \in {disposed, TRUE},
         outbox' \in [Workers -> Seq(Responses)],
         \A w \in Workers : w > spawned => outbox'[w] = outbox[w],
         UNCHANGED <<computed, id, nextId, spawned, state, inbox>>
  PROVE  IInv'
  <1>1. /\ worker' = 0 /\ terminated' = terminated \cup ({worker} \ {0})
        /\ ready' \in [Workers -> {"none", "pending", "resolved", "rejected"}]
    BY DEF TerminateWorker, IInv, TypeOK
  <1>2. TypeOK'
    BY <1>1, Settling DEF IInv, TypeOK
  <1>3. Calling'
    BY <1>1, Settling, ClientAssumption DEF IInv, Calling, TypeOK
  <1>4. Owning'
    BY <1>1 DEF IInv, Owning
  <1>5. NoWorkerLeaked'
    BY <1>1, Asking DEF IInv, NoWorkerLeaked
  <1>6. OwnResult'
    BY Settling DEF IInv, OwnResult, Refusals
  <1> QED
    BY <1>2, <1>3, <1>4, <1>5, <1>6 DEF IInv

LEMMA AbortStep == ASSUME IInv, NEW c \in Calls, Abort(c) PROVE IInv'
  <1>1. (IF posted # 0 THEN posted ELSE worker) = worker
    BY DEF IInv, Calling
  <1>2. TerminateWorker(worker) /\ SettleActive("cancelled")
    BY <1>1 DEF Abort
  <1> QED
    BY <1>2, Stopping DEF Abort, Refusals, IInv, TypeOK

LEMMA DisposeStep == ASSUME IInv, Dispose PROVE IInv'
  BY Stopping DEF Dispose, Refusals, IInv, TypeOK

LEMMA WorkerFailsStep == ASSUME IInv, NEW w \in Workers, WorkerFails(w) PROVE IInv'
  BY Stopping DEF WorkerFails, FailTerminal, Refusals, IInv, TypeOK

(* The call is answered before it was posted: the worker is kept.          *)
LEMMA Declining ==
  ASSUME IInv, NEW a \in Refusals, SettleActive(a), KeepWorker, posted = 0,
         continuations' \subseteq continuations,
         UNCHANGED <<computed, id, nextId, disposed, spawned, state, inbox, outbox>>
  PROVE  IInv'
  <1>1. TypeOK'
    BY Settling DEF IInv, TypeOK, KeepWorker
  <1>2. Calling'
    BY Settling, ClientAssumption DEF IInv, Calling, TypeOK, KeepWorker
  <1>3. Owning'
    <2>1. worker # 0 => Starting(worker)' \/ Serving(worker)'
      BY Settling DEF IInv, Owning, Starting, Serving, KeepWorker
    <2> QED
      BY <2>1 DEF IInv, Owning, KeepWorker
  <1>4. NoWorkerLeaked' /\ OwnResult'
    BY Settling DEF IInv, NoWorkerLeaked, OwnResult, Refusals, KeepWorker
  <1> QED
    BY <1>1, <1>2, <1>3, <1>4 DEF IInv

LEMMA PostStep ==
  ASSUME IInv, NEW k \in continuations, Continue(k), Post(k) PROVE IInv'
  <1>1. k.call \in Calls /\ active = k.call /\ active # 0
    BY ClientAssumption DEF IInv, TypeOK, Post
  <1>2. posted = 0
    BY <1>1 DEF IInv, Calling
  <1>3. worker # 0 /\ ready[worker] # "pending" /\ worker \in Workers
    BY DEF Post, Rejected, Promised, Runnable, IInv, TypeOK
  <1>4. ready[worker] = "resolved" /\ state[worker] = "ready" /\ inbox[worker] = <<>> /\ outbox[worker] = <<>>
    BY <1>2, <1>3 DEF IInv, Owning, Starting, Serving
  <1>5. Work("analyze") \in Requests /\ Work("analyze")' = Work("analyze")
    BY <1>1 DEF Work, Requests, IInv, TypeOK, Continue, Post
  <1>6. inbox' = [inbox EXCEPT ![worker] = <<Work("analyze")>>]
    BY <1>1, <1>3, <1>4 DEF Post, Send, Work, IInv, TypeOK
  <1>7. /\ posted' = worker /\ continuations' = continuations \ {k}
        /\ UNCHANGED <<answer, active, worker, ready, terminated, computed, id, nextId, disposed,
                       spawned, state, outbox>>
    BY DEF Continue, Post
  <1>8. inbox' \in [Workers -> Seq(Requests)]
    BY <1>3, <1>5, <1>6 DEF IInv, TypeOK
  <1>9. TypeOK'
    BY <1>3, <1>7, <1>8 DEF IInv, TypeOK
  <1>10. Calling'
    BY <1>1, <1>3, <1>7, AskedStays DEF IInv, Calling, TypeOK, Asked
  <1>11. Serving(worker)'
    <2>1. inbox'[worker] = <<Work("analyze")>>'
      BY <1>3, <1>5, <1>6 DEF IInv, TypeOK
    <2> QED
      BY <1>4, <1>7, <2>1 DEF Serving
  <1>12. \A w \in Workers : w > spawned => inbox'[w] = inbox[w]
    BY <1>3, <1>6, Asking DEF IInv, Owning, TypeOK
  <1>13. Owning' /\ NoWorkerLeaked' /\ OwnResult'
    BY <1>7, <1>11, <1>12 DEF IInv, Owning, NoWorkerLeaked, OwnResult
  <1> QED
    BY <1>9, <1>10, <1>13 DEF IInv

LEMMA ContinueStep == ASSUME IInv, NEW k \in continuations, Continue(k) PROVE IInv'
  <1>1. k.call \in Calls /\ k.call # 0
    BY ClientAssumption DEF IInv, TypeOK
  <1>2. active = k.call => posted = 0
    BY <1>1 DEF IInv, Calling
  <1>3. /\ continuations' \subseteq continuations
        /\ UNCHANGED <<computed, id, nextId, disposed, spawned, state, outbox>>
    BY DEF Continue
  <1>4. CASE Post(k)
    BY <1>4, PostStep
  <1>5. CASE PostFails(k)
    <2>1. CASE SettleActive("invalid") /\ KeepWorker
      BY <1>2, <1>3, <1>5, <2>1, Declining DEF PostFails, Refusals
    <2>2. CASE FailTerminal(worker)
      BY <1>3, <1>5, <2>2, Stopping DEF PostFails, FailTerminal, Refusals, IInv, TypeOK
    <2> QED
      BY <1>5, <2>1, <2>2 DEF PostFails
  <1>6. CASE CannotStart(k)
    BY <1>2, <1>3, <1>6, Declining DEF CannotStart, Refusals
  <1>7. CASE Superseded(k)
    <2>1. UNCHANGED <<answer, active, posted, worker, ready, terminated, inbox>>
      BY <1>7 DEF Superseded, KeepActive, KeepWorker
    <2>2. TypeOK'
      BY <1>3, <2>1 DEF IInv, TypeOK
    <2>3. Calling'
      BY <1>3, <2>1, AskedStays DEF IInv, Calling, TypeOK
    <2>4. Owning' /\ NoWorkerLeaked' /\ OwnResult'
      BY <1>3, <2>1 DEF IInv, Owning, Starting, Serving, Work, NoWorkerLeaked, OwnResult
    <2> QED
      BY <2>2, <2>3, <2>4 DEF IInv
  <1> QED
    BY <1>4, <1>5, <1>6, <1>7 DEF Continue

-----------------------------------------------------------------------------
(* Messages. *)

(* What is in the queues of a worker that still runs.                      *)
LEMMA Boxes ==
  ASSUME IInv, NEW w \in Workers, w \notin terminated
  PROVE  \/ state[w] = "new" /\ inbox[w] = <<>> /\ outbox[w] = <<>> /\ w \notin 1..spawned
         \/ w = worker /\ w # 0 /\ ~disposed /\ w \in 1..spawned /\ (Starting(w) \/ Serving(w))
  <1>1. w \in 1..spawned \/ w > spawned
    BY Asking DEF Workers
  <1>2. w # 0
    BY DEF Workers
  <1> QED
    BY <1>1, <1>2, Asking DEF IInv, Owning, NoWorkerLeaked, Workers

(* A worker's queues and state change, and it still starts or serves.      *)
LEMMA Working ==
  ASSUME IInv, worker # 0, (Starting(worker) \/ Serving(worker))',
         inbox' \in [Workers -> Seq(Requests)], outbox' \in [Workers -> Seq(Responses)],
         state' \in [Workers -> {"new", "initializing", "ready", "closed"}],
         ready' \in [Workers -> {"none", "pending", "resolved", "rejected"}],
         \A w \in Workers : w # worker => state'[w] = state[w] /\ inbox'[w] = inbox[w] /\ outbox'[w] = outbox[w],
         UNCHANGED <<answer, computed, id, active, posted, worker, continuations, nextId, disposed,
                     spawned, terminated>>
  PROVE  IInv'
  <1>1. TypeOK'
    BY DEF IInv, TypeOK
  <1>2. Calling'
    BY AskedStays DEF IInv, Calling, TypeOK
  <1>3. \A w \in Workers : w > spawned => w # worker
    BY Asking DEF IInv, Owning
  <1>4. Owning'
    BY <1>3 DEF IInv, Owning
  <1>5. NoWorkerLeaked' /\ OwnResult'
    BY DEF IInv, NoWorkerLeaked, OwnResult
  <1> QED
    BY <1>1, <1>2, <1>4, <1>5 DEF IInv

LEMMA DeliverStep == ASSUME IInv, NEW w \in Workers, Deliver(w) PROVE IInv'
  <1> DEFINE m == Head(outbox[w])
  <1>1. /\ w \notin terminated /\ outbox[w] # <<>> /\ outbox' = [outbox EXCEPT ![w] = Tail(outbox[w])]
        /\ UNCHANGED <<id, continuations, nextId, disposed, spawned, state, inbox>>
    BY DEF Deliver
  <1>2. w = worker /\ w # 0 /\ ~disposed /\ w \in 1..spawned /\ (Starting(w) \/ Serving(w))
    BY <1>1, Boxes
  <1>3. Ready(w, m) \/ Result(w, m) \/ Error(w, m) \/ Fatal(w, m)
    BY <1>2 DEF Deliver
  <1>4. outbox' \in [Workers -> Seq(Responses)]
    <2>1. outbox[w] \in Seq(Responses) /\ Tail(outbox[w]) \in Seq(Responses)
      BY <1>1 DEF IInv, TypeOK
    <2> QED
      BY <1>1, <2>1 DEF IInv, TypeOK
  <1>5. \A v \in Workers : v # w => outbox'[v] = outbox[v]
    BY <1>1 DEF IInv, TypeOK
  <1>6. \A v \in Workers : v > spawned => outbox'[v] = outbox[v]
    BY <1>2, <1>5, Asking
  <1>7. outbox[w] = <<m>> /\ outbox'[w] = <<>> /\ inbox[w] = <<>>
    BY <1>1, <1>2, SMTT(30) DEF Starting, Serving, IInv, TypeOK
  <1>8. m.type \in {"result", "error"} => Serving(w) /\ posted = w /\ m.of = active /\ state[w] = "ready"
    BY <1>2, <1>7 DEF Starting, Serving, Message, Work
  <1>9. m.type = "ready" => Starting(w) /\ state[w] = "ready"
    BY <1>2, <1>7 DEF Starting, Serving, Message, Work
  <1> HIDE DEF m
  <1>10. CASE Ready(w, m)
    <2>1. /\ ready' = [ready EXCEPT ![w] = "resolved"] /\ m.type = "ready"
          /\ UNCHANGED <<answer, active, posted, computed, worker, terminated>>
      BY <1>10 DEF Ready, KeepActive
    <2>2. Serving(worker)'
      BY <1>1, <1>2, <1>7, <1>9, <2>1 DEF Serving, Starting, IInv, TypeOK
    <2> QED
      BY <1>1, <1>2, <1>4, <1>5, <2>1, <2>2, Working DEF IInv, TypeOK
  <1>11. CASE Fatal(w, m)
    BY <1>1, <1>2, <1>4, <1>6, <1>11, Stopping DEF Fatal, FailTerminal, Refusals, IInv, TypeOK
  <1>12. CASE Result(w, m) \/ Error(w, m)
    <2>1. PICK a \in {"result", "error"} : SettleActive(a) /\ (a = "error" => computed' = computed)
                                         /\ (a = "result" => computed' = [computed EXCEPT ![active] = m.of])
      BY <1>12 DEF Result, Error
    <2>2. /\ active # 0 /\ active \in Calls /\ posted = w /\ m.of = active /\ state[w] = "ready"
          /\ ready[w] = "resolved"
      BY <1>8, <1>12 DEF Result, Error, AnswersActive, Serving, IInv, TypeOK
    <2>3. UNCHANGED <<worker, ready, terminated>>
      BY <1>12 DEF Result, Error, KeepWorker
    <2>4. /\ answer' \in [Calls -> Answers] /\ active' = 0 /\ posted' = 0
          /\ \A c \in Calls : answer'[c] # "pending" /\ (answer'[c] = "unasked" <=> answer[c] = "unasked")
          /\ \A c \in Calls : answer'[c] = IF c = active THEN a ELSE answer[c]
          /\ Asked' = Asked
      BY <2>1, Settling DEF Refusals
    <2>5. /\ computed' \in [Calls -> Calls \cup {0}]
          /\ \A c \in Calls : computed'[c] = IF c = active /\ a = "result" THEN active ELSE computed[c]
      BY <2>1, <2>2 DEF IInv, TypeOK
    <2>6. TypeOK'
      BY <1>1, <1>4, <2>3, <2>4, <2>5 DEF IInv, TypeOK
    <2>7. Calling'
      BY <1>1, <2>3, <2>4, ClientAssumption DEF IInv, Calling, TypeOK
    <2>8. Serving(worker)'
      BY <1>1, <1>2, <1>7, <2>2, <2>3, <2>4 DEF Serving
    <2>9. Owning'
      BY <1>1, <1>6, <2>3, <2>8 DEF IInv, Owning
    <2>10. NoWorkerLeaked' /\ OwnResult'
      BY <1>1, <2>3, <2>4, <2>5 DEF IInv, NoWorkerLeaked, OwnResult
    <2> QED
      BY <2>6, <2>7, <2>9, <2>10 DEF IInv
  <1> QED
    BY <1>3, <1>10, <1>11, <1>12

(* The worker that runs is the client's.                                   *)
LEMMA RunsForClient ==
  ASSUME IInv, NEW w \in Workers, Running(w)
  PROVE  w = worker /\ worker # 0 /\ (Starting(w) \/ Serving(w))
  BY Boxes DEF Running

LEMMA MessageTypes ==
  ASSUME IInv, active # 0
  PROVE  /\ Message("ready") \in Responses /\ Message("initialization-error") \in Responses
         /\ \A t \in {"result", "error", "fatal"} : Work(t) \in Responses
  BY ClientAssumption DEF Message, Work, Responses, IInv, TypeOK

LEMMA FinishInitStep == ASSUME IInv, NEW w \in Workers, FinishInit(w) PROVE IInv'
  <1>1. w = worker /\ worker # 0 /\ (Starting(w) \/ Serving(w))
    BY RunsForClient DEF FinishInit
  <1>2. Starting(w) /\ inbox[w] = <<>> /\ outbox[w] = <<>>
    BY <1>1 DEF FinishInit, Starting, Serving
  <1>3. PICK s \in {"ready", "closed"}, m \in {Message("ready"), Message("initialization-error")} :
          /\ s = "ready" => m = Message("ready")
          /\ s = "closed" => m = Message("initialization-error")
          /\ state' = [state EXCEPT ![w] = s] /\ outbox' = [outbox EXCEPT ![w] = Append(outbox[w], m)]
    BY DEF FinishInit, Send
  <1>4. UNCHANGED <<client, inbox>>
    BY DEF FinishInit
  <1>5. m \in Responses
    BY ClientAssumption DEF Message, Responses
  <1>6. Append(outbox[w], m) = <<m>>
    BY <1>2
  <1>7. outbox' \in [Workers -> Seq(Responses)] /\ \A v \in Workers : v # w => outbox'[v] = outbox[v]
    BY <1>3, <1>5, <1>6 DEF IInv, TypeOK
  <1>8. outbox'[w] = <<m>> /\ state'[w] = s
    BY <1>3, <1>6 DEF IInv, TypeOK
  <1>9. Starting(worker)'
    BY <1>1, <1>2, <1>3, <1>4, <1>8 DEF Starting, client
  <1> QED
    BY <1>1, <1>3, <1>4, <1>7, <1>9, Working DEF client, IInv, TypeOK

LEMMA StartInitStep == ASSUME IInv, NEW w \in Workers, StartInit(w) PROVE IInv'
  <1>1. w = worker /\ worker # 0 /\ (Starting(w) \/ Serving(w))
    BY RunsForClient DEF StartInit, Receive
  <1>2. Starting(w) /\ inbox[w] = <<Message("init")>> /\ outbox[w] = <<>> /\ state[w] = "new"
    BY <1>1 DEF StartInit, Receive, Starting, Serving, Work
  <1>3. UNCHANGED <<client, outbox>> /\ state' = [state EXCEPT ![w] = "initializing"]
    BY <1>2 DEF StartInit, Receive
  <1>4. inbox' = [inbox EXCEPT ![w] = <<>>]
    BY <1>2 DEF StartInit, Receive
  <1>5. Starting(worker)'
    BY <1>1, <1>2, <1>3, <1>4 DEF Starting, client, IInv, TypeOK
  <1> QED
    BY <1>1, <1>3, <1>4, <1>5, Working DEF client, IInv, TypeOK

LEMMA ComputeStep == ASSUME IInv, NEW w \in Workers, Compute(w) PROVE IInv'
  <1>1. w = worker /\ worker # 0 /\ (Starting(w) \/ Serving(w))
    BY RunsForClient DEF Compute, Receive
  <1>2. /\ Serving(w) /\ inbox[w] = <<Work("analyze")>> /\ outbox[w] = <<>> /\ state[w] = "ready"
        /\ posted = w
    BY <1>1 DEF Compute, Receive, Starting, Serving, Message
  <1>3. PICK t \in {"result", "error", "fatal"} :
          /\ state' = IF t = "fatal" THEN [state EXCEPT ![w] = "closed"] ELSE state
          /\ outbox' = [outbox EXCEPT ![w] = Append(outbox[w], [Head(inbox[w]) EXCEPT !.type = t])]
    BY DEF Compute, Send
  <1>4. UNCHANGED client /\ inbox' = [inbox EXCEPT ![w] = <<>>]
    BY <1>2 DEF Compute, Receive
  <1>5. Append(outbox[w], [Head(inbox[w]) EXCEPT !.type = t]) = <<Work(t)>>
    BY <1>2 DEF Work
  <1>6. active # 0
    BY <1>1, <1>2 DEF IInv, Calling
  <1>11. Work(t) \in Responses
    BY <1>6, MessageTypes
  <1>12. outbox' = [outbox EXCEPT ![w] = <<Work(t)>>]
    BY <1>3, <1>5
  <1>7. outbox' \in [Workers -> Seq(Responses)] /\ \A v \in Workers : v # w => outbox'[v] = outbox[v]
    BY <1>11, <1>12 DEF IInv, TypeOK
  <1>8. outbox'[w] = <<Work(t)>> /\ Work(t)' = Work(t)
    BY <1>3, <1>4, <1>5 DEF IInv, TypeOK, Work, client
  <1>9. state'[w] \in {"ready", "closed"} /\ (state'[w] = "closed" => t = "fatal")
    BY <1>2, <1>3 DEF IInv, TypeOK
  <1>10. Serving(worker)'
    BY <1>1, <1>2, <1>4, <1>8, <1>9 DEF Serving, client, IInv, TypeOK
  <1> QED
    BY <1>1, <1>3, <1>4, <1>7, <1>10, Working DEF client, IInv, TypeOK

-----------------------------------------------------------------------------
LEMMA StepIInv == IInv /\ [Next]_vars => IInv'
  <1> SUFFICES ASSUME IInv, [Next]_vars PROVE IInv'
    OBVIOUS
  <1>1. CASE Next
    BY <1>1, RefuseStep, WithWorkerStep, SpawningStep, AbortStep, DisposeStep, ContinueStep, DeliverStep,
       WorkerFailsStep, StartInitStep, FinishInitStep, ComputeStep DEF Next
  <1>2. CASE UNCHANGED vars
    <2>1. TypeOK'
      BY <1>2 DEF IInv, TypeOK, vars, client
    <2>2. Calling'
      BY <1>2 DEF IInv, Calling, vars, client, Asked
    <2>3. Owning' /\ NoWorkerLeaked' /\ OwnResult'
      BY <1>2 DEF IInv, Owning, Starting, Serving, Work, NoWorkerLeaked, OwnResult, vars, client
    <2> QED
      BY <2>1, <2>2, <2>3 DEF IInv
  <1> QED
    BY <1>1, <1>2

(* The state of the client that the rest follows from: a worker still runs *)
(* only as the current one, and it is starting, idle or at work on the     *)
(* call in progress.                                                       *)
THEOREM Invariance == Spec => []IInv
  BY InitIInv, StepIInv, PTL DEF Spec

(* Every variable keeps its type, and a call creates at most one worker.   *)
THEOREM TypeCorrect == Spec => []TypeOK
  <1>1. IInv => TypeOK
    BY DEF IInv
  <1> QED
    BY <1>1, Invariance, PTL

(* #handleMessage gives a call the result of its own analysis, however     *)
(* often the request IDs start over.                                       *)
THEOREM ResultsAreOwn == Spec => []OwnResult
  <1>1. IInv => OwnResult
    BY DEF IInv
  <1> QED
    BY <1>1, Invariance, PTL

(* The client has terminated every worker but the current one, and all of  *)
(* them once it is disposed.                                               *)
THEOREM NoneLeaks == Spec => []NoWorkerLeaked
  <1>1. IInv => NoWorkerLeaked
    BY DEF IInv
  <1> QED
    BY <1>1, Invariance, PTL

(* WorkIsWanted for one worker.                                            *)
Wanted(w) ==
  /\ \A i \in 1..Len(inbox[w]) : inbox[w][i].type = "analyze" =>
       active = inbox[w][i].of /\ posted = w
  /\ \A i \in 1..Len(outbox[w]) : outbox[w][i].of # 0 =>
       active = outbox[w][i].of /\ posted = w
  /\ Len(inbox[w]) + Len(outbox[w]) <= 1

(* Whatever a running worker has to do or has done is for the call in      *)
(* progress.                                                               *)
THEOREM WorkersServeTheCall == Spec => []WorkIsWanted
  <1>1. ASSUME IInv PROVE WorkIsWanted
    <2>1. ASSUME NEW w \in Workers \ terminated
          PROVE  Wanted(w)
      <3>1. CASE inbox[w] = <<>> /\ outbox[w] = <<>>
        BY <3>1 DEF Wanted
      <3>2. ASSUME NEW m, inbox[w] = <<m>>, outbox[w] = <<>>,
                   m.type = "analyze" => active = m.of /\ posted = w
            PROVE  Wanted(w)
        BY <3>2 DEF Wanted
      <3>3. ASSUME NEW m, inbox[w] = <<>>, outbox[w] = <<m>>, m.of # 0 => active = m.of /\ posted = w
            PROVE  Wanted(w)
        BY <3>3 DEF Wanted
      <3>4. /\ Message("init").type = "init" /\ Message("ready").of = 0
            /\ Message("initialization-error").of = 0
            /\ \A t \in {"analyze", "result", "error", "fatal"} : Work(t).of = active
        BY DEF Message, Work
      <3>5. CASE Starting(w)
        <4>1. \/ inbox[w] = <<>> /\ outbox[w] = <<>>
              \/ inbox[w] = <<Message("init")>> /\ outbox[w] = <<>>
              \/ inbox[w] = <<>> /\ \E m \in {Message("ready"), Message("initialization-error")} :
                                       outbox[w] = <<m>>
          BY <3>5 DEF Starting
        <4> QED
          BY <4>1, <3>1, <3>2, <3>3, <3>4
      <3>6. CASE Serving(w)
        <4>1. \/ inbox[w] = <<>> /\ outbox[w] = <<>>
              \/ inbox[w] = <<Work("analyze")>> /\ outbox[w] = <<>> /\ posted = w
              \/ /\ inbox[w] = <<>> /\ posted = w
                 /\ \E t \in {"result", "error", "fatal"} : outbox[w] = <<Work(t)>>
          BY <3>6 DEF Serving
        <4> QED
          BY <4>1, <3>1, <3>2, <3>3, <3>4
      <3> QED
        BY <2>1, <1>1, <3>1, <3>5, <3>6, Boxes
    <2> QED
      BY <1>1, <2>1 DEF IInv, WorkIsWanted, Wanted
  <1> QED
    BY <1>1, Invariance, PTL

-----------------------------------------------------------------------------
(* WasmAnalyzer, its fairness apart. *)

(* The one promise that is pending is that of the call in progress.        *)
LEMMA OnePending ==
  ASSUME IInv
  PROVE  Analyzer!Pending = IF active = 0 THEN {} ELSE {active}
  BY ClientAssumption DEF IInv, TypeOK, Calling, Analyzer!Pending

LEMMA AskingImplements ==
  ASSUME IInv, NEW c \in Calls, answer[c] = "unasked", NEW a \in Analyzer!Final \cup {"pending"},
         answer' = [answer EXCEPT ![c] = a], disposed' = disposed,
         a = "pending" => active = 0, a = "busy" <=> active # 0, a = "disposed" <=> disposed,
         a \notin {"result", "error"}
  PROVE  Analyzer!Next
  <1>1. Analyzer!Ask(c)
    BY OnePending DEF Analyzer!Ask
  <1> QED
    BY <1>1 DEF Analyzer!Next

LEMMA SettlingImplements ==
  ASSUME IInv, NEW a \in (Refusals \cup {"result"}) \ {"disposed"}, SettleActive(a), disposed' = disposed
  PROVE  [Analyzer!Next]_<<answer, disposed>>
  <1>1. CASE active = 0
    BY <1>1 DEF SettleActive
  <1>2. CASE active # 0
    <2>1. active \in Calls /\ answer[active] = "pending" /\ answer' = [answer EXCEPT ![active] = a]
      BY <1>2 DEF SettleActive, IInv, TypeOK, Calling
    <2>2. Analyzer!Settle(active)
      BY <2>1 DEF Analyzer!Settle, Analyzer!Final, Refusals
    <2> QED
      BY <2>1, <2>2 DEF Analyzer!Next
  <1> QED
    BY <1>1, <1>2

LEMMA StepImplements == IInv /\ [Next]_vars => [Analyzer!Next]_<<answer, disposed>>
  <1> SUFFICES ASSUME IInv, Next PROVE [Analyzer!Next]_<<answer, disposed>>
    BY DEF vars, client
  <1>1. ASSUME NEW c \in Calls, Refuse(c) PROVE Analyzer!Next
    <2>1. PICK a \in {"disposed", "busy", "cancelled", "invalid"} :
            /\ a = "disposed" <=> disposed
            /\ a = "busy" <=> ~disposed /\ active # 0
            /\ answer' = [answer EXCEPT ![c] = a]
      BY <1>1 DEF Refuse
    <2>2. answer[c] = "unasked" /\ disposed' = disposed /\ (disposed => active = 0)
      BY <1>1 DEF Refuse, IInv, Calling
    <2> QED
      BY <2>1, <2>2, AskingImplements DEF Analyzer!Final
  <1>2. ASSUME NEW c \in Calls, AnalyzeWithWorker(c) \/ AnalyzeSpawning(c) \/ AnalyzeWithoutWorker(c)
        PROVE Analyzer!Next
    <2>1. \E a \in {"pending", "failed"} : answer' = [answer EXCEPT ![c] = a]
      BY <1>2 DEF AnalyzeWithWorker, AnalyzeSpawning, AnalyzeWithoutWorker, Activate
    <2>2. answer[c] = "unasked" /\ disposed' = disposed /\ ~disposed /\ active = 0
      BY <1>2 DEF AnalyzeWithWorker, AnalyzeSpawning, AnalyzeWithoutWorker, Accepted
    <2> QED
      BY <2>1, <2>2, AskingImplements DEF Analyzer!Final
  <1>3. ASSUME NEW c \in Calls, Abort(c) PROVE [Analyzer!Next]_<<answer, disposed>>
    BY <1>3, SettlingImplements DEF Abort, Refusals
  <1>4. ASSUME Dispose PROVE Analyzer!Next
    <2>1. answer' = [c \in Calls |-> IF c \in Analyzer!Pending THEN "disposed" ELSE answer[c]]
      <3>1. SettleActive("disposed")
        BY <1>4 DEF Dispose
      <3> QED
        BY <3>1, OnePending, ClientAssumption DEF SettleActive, IInv, TypeOK
    <2> QED
      BY <1>4, <2>1 DEF Dispose, Analyzer!Dispose, Analyzer!Next
  <1>5. ASSUME NEW k \in continuations, Continue(k) PROVE [Analyzer!Next]_<<answer, disposed>>
    <2>1. disposed' = disposed
      BY <1>5 DEF Continue
    <2>2. CASE Post(k) \/ Superseded(k)
      BY <2>1, <2>2 DEF Post, Superseded, KeepActive
    <2>3. CASE PostFails(k) \/ CannotStart(k)
      BY <2>1, <2>3, SettlingImplements DEF PostFails, CannotStart, FailTerminal, Refusals
    <2> QED
      BY <1>5, <2>2, <2>3 DEF Continue
  <1>6. ASSUME NEW w \in Workers, Deliver(w) PROVE [Analyzer!Next]_<<answer, disposed>>
    <2>1. disposed' = disposed
      BY <1>6 DEF Deliver
    <2>2. PICK m : KeepActive \/ Ready(w, m) \/ Result(w, m) \/ Error(w, m) \/ Fatal(w, m)
      BY <1>6 DEF Deliver
    <2>3. CASE KeepActive \/ Ready(w, m)
      BY <2>1, <2>3 DEF Ready, KeepActive
    <2>4. CASE Result(w, m) \/ Error(w, m) \/ Fatal(w, m)
      BY <2>1, <2>4, SettlingImplements DEF Result, Error, Fatal, FailTerminal, Refusals
    <2> QED
      BY <2>2, <2>3, <2>4
  <1>7. ASSUME NEW w \in Workers, WorkerFails(w) PROVE [Analyzer!Next]_<<answer, disposed>>
    BY <1>7, SettlingImplements DEF WorkerFails, FailTerminal, Refusals
  <1>8. ASSUME NEW w \in Workers, StartInit(w) \/ FinishInit(w) \/ Compute(w)
        PROVE UNCHANGED <<answer, disposed>>
    BY <1>8 DEF StartInit, FinishInit, Compute, Receive, client
  <1> QED
    BY <1>1, <1>2, <1>3, <1>4, <1>5, <1>6, <1>7, <1>8 DEF Next

(* analyze(), abort and dispose() keep what WasmAnalyzer promises the page:*)
(* one promise pending at a time, one answer to each call and none but     *)
(* "disposed" after dispose().                                             *)
THEOREM KeepsPromise == Spec => Analyzer!Init /\ [][Analyzer!Next]_<<answer, disposed>>
  <1>1. Init => Analyzer!Init
    BY DEF Init, Analyzer!Init
  <1> QED
    BY <1>1, StepImplements, Invariance, PTL DEF Spec

-----------------------------------------------------------------------------
(* Why a call is answered in the end. *)

(* What is still to be done for the current worker's messages.             *)
Begun(s) == IF s = "new" THEN 1 ELSE IF s = "initializing" THEN 2 ELSE 0
StageOf(w) == 2 * Len(inbox[w]) + Len(outbox[w]) + Begun(state[w])
Stage == IF worker = 0 THEN 0 ELSE StageOf(worker)

Unasked == {c \in Calls : answer[c] = "unasked"}
Bit(b) == IF b THEN 1 ELSE 0
Flags == Bit(active # 0) + Bit(worker # 0) + Bit(~disposed)

(* A call that is asked may need a continuation and a worker of its own.   *)
Effort == 9 * Cardinality(Unasked) + 3 * Cardinality(continuations) + Stage + Flags

(* A call that is not posted has a continuation that will be taken for its *)
(* own, and only the current worker's promise is open.                     *)
Attended ==
  /\ active # 0 /\ posted = 0 => \E k \in continuations : k.call = active
  /\ active # 0 => \A k \in continuations : k.call = active => k.worker \in {0, worker}
  /\ \A w \in Workers : ready[w] = "pending" => w = worker
  /\ IsFiniteSet(continuations)

LEMMA InitAttended == Init => Attended
  BY FS_EmptySet DEF Init, Attended

(* Nothing is pending: what is left is that no promise is open.            *)
LEMMA Unattended ==
  ASSUME IInv, Attended, NEW a \in Refusals \cup {"result"}, SettleActive(a),
         KeepWorker \/ TerminateWorker(worker), continuations' \subseteq continuations
  PROVE  Attended'
  <1>1. active' = 0 /\ IsFiniteSet(continuations')
    BY FS_Subset DEF SettleActive, Attended
  <1>2. \A w \in Workers : ready'[w] = "pending" => w = worker'
    <2>1. CASE KeepWorker
      BY <2>1 DEF KeepWorker, Attended
    <2>2. CASE TerminateWorker(worker)
      BY <2>2 DEF TerminateWorker, Attended, IInv, TypeOK
    <2> QED
      BY <2>1, <2>2
  <1> QED
    BY <1>1, <1>2 DEF Attended

LEMMA AskingAttended ==
  ASSUME IInv, Attended, NEW c \in Calls,
         AnalyzeWithWorker(c) \/ AnalyzeWithoutWorker(c) \/ AnalyzeSpawning(c)
  PROVE  Attended'
  <1>0. PICK w \in Workers \cup {0} : continuations' = continuations \cup {[call |-> c, worker |-> w]}
    <2>1. CASE AnalyzeWithWorker(c) \/ AnalyzeWithoutWorker(c)
      BY <2>1 DEF AnalyzeWithWorker, AnalyzeWithoutWorker, Await, IInv, TypeOK
    <2>2. CASE AnalyzeSpawning(c)
      <3>1. spawned + 1 <= Cardinality(Calls)
        <4>1. \E a \in {"pending", "failed"} : answer' = [answer EXCEPT ![c] = a]
          BY <2>2 DEF AnalyzeSpawning, Activate
        <4> QED
          BY <2>2, <4>1, AskedGrows DEF AnalyzeSpawning, Accepted, Answers
      <3>2. spawned + 1 \in Workers
        BY <3>1, Asking DEF Workers
      <3> QED
        BY <2>2, <3>2 DEF AnalyzeSpawning, Await
    <2> QED
      BY <2>1, <2>2
  <1> DEFINE new == [call |-> c, worker |-> w]
  <1>1. new.call = c /\ new.worker = w /\ continuations' = continuations \cup {new}
    BY <1>0
  <1> HIDE DEF new
  <1>2. IsFiniteSet(continuations')
    BY <1>1, FS_AddElement DEF Attended
  <1>3. \A k \in continuations : k.call # c
    BY DEF IInv, Calling, AnalyzeWithWorker, AnalyzeWithoutWorker, AnalyzeSpawning, Accepted
  <1>4. CASE active' = c /\ w \in {0, worker'}
    <2>1. \A v \in Workers : ready'[v] = "pending" => v = worker'
      <3>1. CASE AnalyzeWithWorker(c) \/ AnalyzeWithoutWorker(c)
        BY <3>1 DEF Attended, AnalyzeWithWorker, AnalyzeWithoutWorker
      <3>2. CASE AnalyzeSpawning(c)
        <4>1. worker = 0 /\ active = 0
          BY <3>2 DEF AnalyzeSpawning, Accepted
        <4>2. \A v \in Workers : ready[v] # "pending"
          BY <4>1 DEF Attended, Workers
        <4>3. worker' = spawned + 1
          BY <1>4, <3>2, <4>1, ClientAssumption DEF AnalyzeSpawning
        <4>4. \E r : ready' = [ready EXCEPT ![spawned + 1] = r]
          BY <3>2 DEF AnalyzeSpawning
        <4> QED
          BY <4>2, <4>3, <4>4 DEF IInv, TypeOK
      <3> QED
        BY <3>1, <3>2
    <2> QED
      BY <1>1, <1>2, <1>3, <1>4, <2>1 DEF Attended
  <1>5. CASE /\ AnalyzeSpawning(c) /\ active' = 0 /\ worker' = 0 /\ worker = 0
             /\ ready' = [ready EXCEPT ![spawned + 1] = "rejected"]
    BY <1>2, <1>5 DEF Attended, IInv, TypeOK
  <1>6. CASE AnalyzeWithWorker(c) \/ AnalyzeWithoutWorker(c)
    <2>1. active' = c /\ worker' = worker /\ [call |-> c, worker |-> worker] \in continuations'
      BY <1>6 DEF AnalyzeWithWorker, AnalyzeWithoutWorker, Activate, Await
    <2>2. [call |-> c, worker |-> worker].call = c /\ [call |-> c, worker |-> worker].worker = worker
      OBVIOUS
    <2>3. worker = w
      BY <1>1, <1>3, <2>1, <2>2
    <2> QED
      BY <1>4, <2>1, <2>3
  <1>7. CASE AnalyzeSpawning(c)
    <2>1. [call |-> c, worker |-> spawned + 1] \in continuations' /\ worker = 0
      BY <1>7 DEF AnalyzeSpawning, Await
    <2>2. /\ [call |-> c, worker |-> spawned + 1].call = c
          /\ [call |-> c, worker |-> spawned + 1].worker = spawned + 1
      OBVIOUS
    <2>3. spawned + 1 = w
      BY <1>1, <1>3, <2>1, <2>2
    <2>4. \/ active' = c /\ worker' = w
          \/ active' = active /\ worker' = worker /\ ready' = [ready EXCEPT ![spawned + 1] = "rejected"]
      BY <1>7, <2>3 DEF AnalyzeSpawning, Activate
    <2>5. active = 0
      BY <1>7 DEF AnalyzeSpawning, Accepted
    <2> QED
      BY <1>4, <1>5, <1>7, <2>1, <2>4, <2>5
  <1> QED
    BY <1>6, <1>7

LEMMA ContinueAttended ==
  ASSUME IInv, Attended, NEW k \in continuations, Continue(k)
  PROVE  Attended'
  <1>1. continuations' = continuations \ {k} /\ IsFiniteSet(continuations')
    BY FS_RemoveElement DEF Continue, Attended
  <1>2. CASE Post(k)
    <2>1. /\ active' = active /\ worker' = worker /\ ready' = ready /\ posted' = worker
          /\ k.worker = worker /\ active = k.call /\ ~Rejected(k)
      BY <1>2 DEF Post
    <2>2. worker # 0
      BY <2>1 DEF Rejected, Promised
    <2> QED
      BY <1>1, <2>1, <2>2 DEF Attended
  <1>3. CASE PostFails(k)
    <2>1. CASE SettleActive("invalid") /\ KeepWorker
      BY <1>1, <2>1, Unattended DEF Refusals
    <2>2. CASE FailTerminal(worker)
      BY <1>1, <2>2, Unattended DEF FailTerminal, Refusals
    <2> QED
      BY <1>3, <2>1, <2>2 DEF PostFails
  <1>4. CASE CannotStart(k)
    BY <1>1, <1>4, Unattended DEF CannotStart, Refusals
  <1>5. CASE Superseded(k)
    <2>1. active # 0 => active # k.call
      BY <1>5 DEF Superseded, Attended, Rejected, Promised
    <2>2. UNCHANGED <<active, posted, worker, ready>>
      BY <1>5 DEF Superseded, KeepActive, KeepWorker
    <2> QED
      BY <1>1, <2>1, <2>2 DEF Attended
  <1> QED
    BY <1>2, <1>3, <1>4, <1>5 DEF Continue

LEMMA DeliverAttended ==
  ASSUME IInv, Attended, NEW w \in Workers, Deliver(w)
  PROVE  Attended'
  <1>1. w = worker /\ ~disposed /\ continuations' = continuations
    BY Boxes DEF Deliver
  <1>2. PICK m : Ready(w, m) \/ Result(w, m) \/ Error(w, m) \/ Fatal(w, m)
    BY <1>1 DEF Deliver
  <1>3. CASE Ready(w, m)
    BY <1>1, <1>3 DEF Ready, KeepActive, Attended, IInv, TypeOK
  <1>4. CASE Result(w, m) \/ Error(w, m)
    BY <1>1, <1>4, Unattended DEF Result, Error, Refusals
  <1>5. CASE Fatal(w, m)
    BY <1>1, <1>5, Unattended DEF Fatal, FailTerminal, Refusals
  <1> QED
    BY <1>2, <1>3, <1>4, <1>5

LEMMA StepAttended == IInv /\ Attended /\ [Next]_vars => Attended'
  <1> SUFFICES ASSUME IInv, Attended, [Next]_vars PROVE Attended'
    OBVIOUS
  <1>1. CASE UNCHANGED <<active, posted, worker, ready, continuations>>
    BY <1>1 DEF Attended
  <1>2. ASSUME NEW c \in Calls, Refuse(c) PROVE Attended'
    BY <1>1, <1>2 DEF Refuse
  <1>3. ASSUME NEW c \in Calls, Abort(c) PROVE Attended'
    <2>1. (IF posted # 0 THEN posted ELSE worker) = worker
      BY DEF IInv, Calling
    <2> QED
      BY <1>3, <2>1, Unattended DEF Abort, Refusals
  <1>4. CASE Dispose
    BY <1>4, Unattended DEF Dispose, Refusals
  <1>5. ASSUME NEW w \in Workers, WorkerFails(w) PROVE Attended'
    BY <1>5, Unattended DEF WorkerFails, FailTerminal, Refusals
  <1>6. ASSUME NEW w \in Workers, StartInit(w) \/ FinishInit(w) \/ Compute(w) PROVE Attended'
    BY <1>1, <1>6 DEF StartInit, FinishInit, Compute, Receive, client
  <1>7. CASE UNCHANGED vars
    BY <1>1, <1>7 DEF vars, client
  <1> QED
    BY <1>2, <1>3, <1>4, <1>5, <1>6, <1>7, AskingAttended, ContinueAttended, DeliverAttended DEF Next

LEMMA SpecAttended == Spec => [](IInv /\ Attended)
  BY InitAttended, StepAttended, Invariance, PTL DEF Spec

-----------------------------------------------------------------------------
(* Each step leaves less to do. *)

LEMMA FlagsFall ==
  ASSUME disposed \in BOOLEAN, disposed' \in BOOLEAN, active' # 0 => active # 0, worker' # 0 => worker # 0,
         disposed => disposed'
  PROVE  /\ Flags' <= Flags
         /\ (active # 0 /\ active' = 0) \/ (worker # 0 /\ worker' = 0) \/ (~disposed /\ disposed')
              => Flags' < Flags
  <1>1. ASSUME NEW p \in BOOLEAN, NEW q \in BOOLEAN, q => p
        PROVE  Bit(p) \in {0, 1} /\ Bit(q) \in {0, 1} /\ Bit(q) <= Bit(p) /\ (p /\ ~q => Bit(q) < Bit(p))
    BY <1>1 DEF Bit
  <1>2. /\ Bit(active # 0) \in {0, 1} /\ Bit(active' # 0) \in {0, 1} /\ Bit(active' # 0) <= Bit(active # 0)
        /\ active # 0 /\ active' = 0 => Bit(active' # 0) < Bit(active # 0)
    BY <1>1
  <1>3. /\ Bit(worker # 0) \in {0, 1} /\ Bit(worker' # 0) \in {0, 1} /\ Bit(worker' # 0) <= Bit(worker # 0)
        /\ worker # 0 /\ worker' = 0 => Bit(worker' # 0) < Bit(worker # 0)
    BY <1>1
  <1>4. /\ Bit(~disposed) \in {0, 1} /\ Bit(~disposed') \in {0, 1} /\ Bit(~disposed') <= Bit(~disposed)
        /\ ~disposed /\ disposed' => Bit(~disposed') < Bit(~disposed)
    BY <1>1
  <1>5. Flags = Bit(active # 0) + Bit(worker # 0) + Bit(~disposed)
    BY DEF Flags
  <1>6. Flags' = Bit(active' # 0) + Bit(worker' # 0) + Bit(~disposed')
    BY DEF Flags
  <1> HIDE DEF Bit, Flags
  <1> QED
    BY <1>2, <1>3, <1>4, <1>5, <1>6

LEMMA FlagsRise ==
  ASSUME disposed \in BOOLEAN, active = 0, disposed' = disposed
  PROVE  Flags' <= Flags + 2 /\ (worker' = worker => Flags' <= Flags + 1)
  <1>1. \A p \in BOOLEAN : Bit(p) \in {0, 1}
    BY DEF Bit
  <1>2. /\ Bit(active # 0) = 0 /\ Bit(active' # 0) \in {0, 1} /\ Bit(worker # 0) \in {0, 1}
        /\ Bit(worker' # 0) \in {0, 1} /\ Bit(~disposed) \in {0, 1} /\ Bit(~disposed') = Bit(~disposed)
    BY <1>1 DEF Bit
  <1>3. worker' = worker => Bit(worker' # 0) = Bit(worker # 0)
    OBVIOUS
  <1>4. Flags = Bit(active # 0) + Bit(worker # 0) + Bit(~disposed)
    BY DEF Flags
  <1>5. Flags' = Bit(active' # 0) + Bit(worker' # 0) + Bit(~disposed')
    BY DEF Flags
  <1> HIDE DEF Bit, Flags
  <1> QED
    BY <1>2, <1>3, <1>4, <1>5

LEMMA Lengths == Len(<<>>) = 0 /\ \A m : Len(<<m>>) = 1
  OBVIOUS

LEMMA StageBound == IInv => Stage \in 0..3
  <1> SUFFICES ASSUME IInv, worker # 0 PROVE Stage \in 0..3
    BY DEF Stage
  <1>1. \/ inbox[worker] = <<>> /\ outbox[worker] = <<>>
        \/ /\ inbox[worker] = <<>> /\ state[worker] \in {"ready", "closed"}
           /\ \E m : outbox[worker] = <<m>>
        \/ /\ outbox[worker] = <<>> /\ state[worker] \in {"new", "ready"}
           /\ \E m : inbox[worker] = <<m>>
    BY DEF IInv, Owning, Starting, Serving
  <1>2. \/ Len(inbox[worker]) = 0 /\ Len(outbox[worker]) = 0
        \/ Len(inbox[worker]) = 0 /\ Len(outbox[worker]) = 1 /\ Begun(state[worker]) = 0
        \/ Len(inbox[worker]) = 1 /\ Len(outbox[worker]) = 0 /\ Begun(state[worker]) \in {0, 1}
    BY <1>1, Lengths DEF Begun
  <1>3. Begun(state[worker]) \in 0..2
    BY DEF Begun
  <1>4. Stage = 2 * Len(inbox[worker]) + Len(outbox[worker]) + Begun(state[worker])
    BY DEF Stage, StageOf
  <1>5. ASSUME NEW i, NEW o, NEW b, \/ i = 0 /\ o = 0 /\ b \in 0..2
                                    \/ i = 0 /\ o = 1 /\ b = 0
                                    \/ i = 1 /\ o = 0 /\ b \in {0, 1}
        PROVE  2 * i + o + b \in 0..3
    BY <1>5
  <1> QED
    BY <1>2, <1>3, <1>4, <1>5

LEMMA EffortType ==
  IInv /\ Attended =>
    /\ IsFiniteSet(Unasked) /\ IsFiniteSet(continuations)
    /\ Cardinality(Unasked) \in Nat /\ Cardinality(continuations) \in Nat
    /\ Stage \in 0..3 /\ Flags \in 0..3 /\ Effort \in Nat
  <1> SUFFICES ASSUME IInv, Attended
               PROVE  /\ IsFiniteSet(Unasked) /\ IsFiniteSet(continuations)
                      /\ Cardinality(Unasked) \in Nat /\ Cardinality(continuations) \in Nat
                      /\ Stage \in 0..3 /\ Flags \in 0..3 /\ Effort \in Nat
    OBVIOUS
  <1>1. Unasked \subseteq Calls
    BY DEF Unasked
  <1>2. IsFiniteSet(Unasked) /\ IsFiniteSet(continuations)
    BY <1>1, ClientAssumption, FS_Subset DEF Attended
  <1>3. Cardinality(Unasked) \in Nat /\ Cardinality(continuations) \in Nat
    BY <1>2, FS_CardinalityType
  <1>4. Stage \in 0..3 /\ Flags \in 0..3
    <2>1. Bit(active # 0) \in {0, 1} /\ Bit(worker # 0) \in {0, 1} /\ Bit(~disposed) \in {0, 1}
      BY DEF Bit
    <2> HIDE DEF Bit
    <2>2. Flags \in 0..3
      BY <2>1 DEF Flags
    <2> QED
      BY <2>2, StageBound
  <1> HIDE DEF Stage, Flags, Unasked
  <1>5. Effort \in Nat
    BY <1>3, <1>4 DEF Effort
  <1> QED
    BY <1>2, <1>3, <1>4, <1>5

LEMMA EffortTypeNext ==
  (IInv /\ Attended)' =>
    (/\ IsFiniteSet(Unasked) /\ IsFiniteSet(continuations)
     /\ Cardinality(Unasked) \in Nat /\ Cardinality(continuations) \in Nat
     /\ Stage \in 0..3 /\ Flags \in 0..3 /\ Effort \in Nat)'
  BY EffortType, PTL

LEMMA Sums ==
  ASSUME IInv, Attended, IInv', Attended',
         9 * Cardinality(Unasked') + 3 * Cardinality(continuations') + Stage' + Flags'
           < 9 * Cardinality(Unasked) + 3 * Cardinality(continuations) + Stage + Flags
  PROVE  Effort' < Effort
  BY DEF Effort

LEMMA AskedOnce ==
  ASSUME IInv, Attended, NEW c \in Calls, answer[c] = "unasked", NEW a \in Answers \ {"unasked"},
         answer' = [answer EXCEPT ![c] = a]
  PROVE  Cardinality(Unasked') = Cardinality(Unasked) - 1
  <1>1. Unasked' = Unasked \ {c} /\ c \in Unasked
    BY DEF Unasked, IInv, TypeOK
  <1> QED
    BY <1>1, EffortType, FS_RemoveElement

LEMMA SettledFlags ==
  ASSUME IInv, NEW a \in Refusals \cup {"result"}, SettleActive(a)
  PROVE  Unasked' = Unasked
  BY Settling DEF Unasked

(* Of what the step touches, the calls and continuations are as before.    *)
LEMMA WorkerEffort ==
  ASSUME IInv, Attended, IInv', Attended', Unasked' = Unasked, continuations' = continuations,
         Stage' + Flags' < Stage + Flags
  PROVE  Effort' < Effort
  <1> HIDE DEF Stage, Flags, Unasked
  <1> QED
    BY EffortType, EffortTypeNext, Sums

LEMMA AskingEffort ==
  ASSUME IInv, Attended, IInv', Attended', NEW c \in Calls,
         Refuse(c) \/ AnalyzeWithWorker(c) \/ AnalyzeWithoutWorker(c) \/ AnalyzeSpawning(c)
  PROVE  Effort' < Effort
  <1>1. \E a \in Answers \ {"unasked"} : answer' = [answer EXCEPT ![c] = a]
    BY DEF Refuse, AnalyzeWithWorker, AnalyzeWithoutWorker, AnalyzeSpawning, Activate, Answers
  <1>2. answer[c] = "unasked"
    BY DEF Refuse, AnalyzeWithWorker, AnalyzeWithoutWorker, AnalyzeSpawning, Accepted
  <1>3. Cardinality(Unasked') = Cardinality(Unasked) - 1
    BY <1>1, <1>2, AskedOnce
  <1>4. CASE Refuse(c)
    <2>1. continuations' = continuations /\ Stage' = Stage /\ Flags' = Flags
      BY <1>4 DEF Refuse, Stage, StageOf, Flags
    <2> HIDE DEF Stage, Flags, Unasked
    <2> QED
      BY <1>3, <2>1, EffortType, EffortTypeNext, Sums
  <1>5. CASE AnalyzeWithWorker(c) \/ AnalyzeWithoutWorker(c) \/ AnalyzeSpawning(c)
    <2>1. \E k : continuations' = continuations \cup {k}
      BY <1>5 DEF AnalyzeWithWorker, AnalyzeWithoutWorker, AnalyzeSpawning, Await
    <2>2. Cardinality(continuations') <= Cardinality(continuations) + 1
      <3>1. PICK k : continuations' = continuations \cup {k}
        BY <2>1
      <3>2. \/ Cardinality(continuations') = Cardinality(continuations)
            \/ Cardinality(continuations') = Cardinality(continuations) + 1
        BY <3>1, EffortType, FS_AddElement
      <3> QED
        BY <3>2, EffortType
    <2>3. active = 0 /\ disposed' = disposed
      BY <1>5 DEF AnalyzeWithWorker, AnalyzeWithoutWorker, AnalyzeSpawning, Accepted
    <2>4. Stage' + Flags' <= Stage + Flags + 5
      <3>1. CASE AnalyzeWithWorker(c) \/ AnalyzeWithoutWorker(c)
        <4>1. Stage' = Stage /\ Flags' <= Flags + 1
          BY <2>3, <3>1, FlagsRise DEF AnalyzeWithWorker, AnalyzeWithoutWorker, Accepted, Stage, StageOf, IInv, TypeOK
        <4> HIDE DEF Stage, Flags
        <4> QED
          BY <4>1, EffortType, EffortTypeNext
      <3>2. CASE AnalyzeSpawning(c)
        <4>1. Stage = 0 /\ Flags' <= Flags + 2
          BY <2>3, <3>2, FlagsRise DEF AnalyzeSpawning, Accepted, Stage, IInv, TypeOK
        <4> HIDE DEF Stage, Flags
        <4> QED
          BY <4>1, EffortType, EffortTypeNext
      <3> QED
        BY <1>5, <3>1, <3>2
    <2> HIDE DEF Stage, Flags, Unasked
    <2> QED
      BY <1>3, <2>2, <2>4, EffortType, EffortTypeNext, Sums
  <1> QED
    BY <1>4, <1>5

LEMMA ContinueEffort ==
  ASSUME IInv, Attended, IInv', Attended', NEW k \in continuations, Continue(k)
  PROVE  Effort' < Effort
  <1>1. Cardinality(continuations') = Cardinality(continuations) - 1
    BY EffortType, FS_RemoveElement DEF Continue
  <1>2. k.call # 0 /\ UNCHANGED <<disposed, state, outbox>>
    BY ClientAssumption DEF Continue, IInv, TypeOK
  <1>3. Unasked' = Unasked
    BY SettledFlags DEF Continue, Post, PostFails, CannotStart, Superseded, KeepActive, FailTerminal, Refusals,
       Unasked
  <1>4. Stage' + Flags' <= Stage + Flags + 2
    <2>1. CASE Post(k)
      <3>1. worker # 0 /\ ready[worker] # "pending" /\ worker \in Workers /\ active = k.call
        BY <2>1 DEF Post, Rejected, Promised, Runnable, IInv, TypeOK
      <3>2. inbox[worker] = <<>>
        BY <1>2, <3>1 DEF IInv, Owning, Starting, Serving, Calling
      <3>3. worker' = worker /\ \E m : inbox'[worker] = <<m>>
        BY <2>1, <3>1, <3>2 DEF Post, Send, IInv, TypeOK
      <3>4. Len(inbox[worker]) = 0 /\ Len(inbox'[worker]) = 1
        BY <3>2, <3>3, Lengths
      <3>5. Len(outbox[worker]) \in Nat /\ Begun(state[worker]) \in Nat
        BY <3>1 DEF IInv, TypeOK, Begun
      <3>6. Stage' = Stage + 2
        <4>1. Stage = 2 * Len(inbox[worker]) + Len(outbox[worker]) + Begun(state[worker])
          BY <3>1 DEF Stage, StageOf
        <4>2. Stage' = 2 * Len(inbox'[worker]) + Len(outbox[worker]) + Begun(state[worker])
          BY <1>2, <3>1, <3>3 DEF Stage, StageOf
        <4> HIDE DEF Begun, Stage
        <4> QED
          BY <3>4, <3>5, <4>1, <4>2
      <3>7. Flags' = Flags
        BY <1>2, <2>1, <3>3 DEF Flags, Post
      <3> HIDE DEF Stage, Flags
      <3> QED
        BY <3>6, <3>7, EffortType
    <2>2. CASE ~Post(k)
      <3>1. UNCHANGED inbox /\ worker' \in {worker, 0} /\ active' \in {active, 0}
        BY <2>2 DEF Continue, PostFails, CannotStart, Superseded, SettleActive, KeepActive, KeepWorker,
           FailTerminal, TerminateWorker
      <3>2. Stage' = Stage \/ Stage' = 0
        BY <1>2, <3>1 DEF Stage, StageOf
      <3>3. Flags' <= Flags
        BY <1>2, <3>1, FlagsFall DEF IInv, TypeOK
      <3> HIDE DEF Stage, Flags
      <3> QED
        BY <3>2, <3>3, EffortType, EffortTypeNext
    <2> QED
      BY <2>1, <2>2
  <1> HIDE DEF Stage, Flags, Unasked
  <1> QED
    BY <1>1, <1>3, <1>4, EffortType, EffortTypeNext, Sums

(* The worker is given up with what it was at.                             *)
LEMMA StoppingEffort ==
  ASSUME IInv, Attended, IInv', Attended', NEW a \in Refusals, SettleActive(a), TerminateWorker(worker),
         continuations' = continuations,
         \/ disposed' = disposed /\ (active # 0 \/ worker # 0)
         \/ ~disposed /\ disposed'
  PROVE  Effort' < Effort
  <1>1. active' = 0 /\ worker' = 0 /\ Unasked' = Unasked
    BY SettledFlags DEF SettleActive, TerminateWorker
  <1>2. Stage' = 0 /\ Flags' < Flags
    BY <1>1, FlagsFall DEF Stage, IInv, TypeOK
  <1> HIDE DEF Stage, Flags
  <1>3. Stage' + Flags' < Stage + Flags
    BY <1>2, EffortType, EffortTypeNext
  <1> QED
    BY <1>1, <1>3, WorkerEffort

LEMMA DeliverEffort ==
  ASSUME IInv, Attended, IInv', Attended', NEW w \in Workers, Deliver(w)
  PROVE  Effort' < Effort
  <1>1. /\ outbox[w] # <<>> /\ outbox' = [outbox EXCEPT ![w] = Tail(outbox[w])]
        /\ UNCHANGED <<continuations, disposed, state, inbox>>
    BY DEF Deliver
  <1>2. w = worker /\ w # 0 /\ ~disposed /\ (Starting(w) \/ Serving(w))
    BY Boxes DEF Deliver
  <1>3. PICK m : Ready(w, m) \/ Result(w, m) \/ Error(w, m) \/ Fatal(w, m)
    BY <1>2 DEF Deliver
  <1>4. (\E n : outbox[w] = <<n>>) /\ inbox[w] = <<>> /\ state[w] \in {"ready", "closed"}
    BY <1>1, <1>2 DEF Starting, Serving
  <1>5. outbox'[w] = <<>>
    BY <1>1, <1>4 DEF IInv, TypeOK
  <1>6. Len(<<>>) = 0 /\ \A n : Len(<<n>>) = 1
    OBVIOUS
  <1>7. worker' \in {worker, 0} /\ active' \in {active, 0}
    BY <1>2, <1>3 DEF Ready, Result, Error, Fatal, FailTerminal, TerminateWorker, KeepWorker, KeepActive,
       SettleActive
  <1>8. Stage = 1 /\ Stage' = 0
    <2>1. Begun(state[w]) = 0 /\ Len(inbox[w]) = 0 /\ Len(outbox[w]) = 1 /\ Len(outbox'[w]) = 0
      BY <1>4, <1>5, <1>6 DEF Begun
    <2>2. StageOf(w) = 1 /\ StageOf(w)' = 0
      BY <1>1, <2>1 DEF StageOf
    <2> QED
      BY <1>2, <1>7, <2>2 DEF Stage
  <1>9. Flags' <= Flags
    BY <1>1, <1>7, FlagsFall DEF IInv, TypeOK
  <1>10. Unasked' = Unasked
    BY <1>3, SettledFlags DEF Ready, Result, Error, Fatal, FailTerminal, KeepActive, Refusals, Unasked
  <1> HIDE DEF Stage, Flags
  <1>11. Stage' + Flags' < Stage + Flags
    BY <1>8, <1>9, EffortType, EffortTypeNext
  <1> QED
    BY <1>1, <1>10, <1>11, WorkerEffort

LEMMA WorkingEffort ==
  ASSUME IInv, Attended, IInv', Attended', NEW w \in Workers, StartInit(w) \/ FinishInit(w) \/ Compute(w)
  PROVE  Effort' < Effort
  <1>1. w = worker /\ worker # 0 /\ (Starting(w) \/ Serving(w)) /\ UNCHANGED client
    BY RunsForClient DEF StartInit, FinishInit, Compute, Receive
  <1>2. Flags' = Flags /\ Unasked' = Unasked /\ worker' = worker /\ continuations' = continuations
    BY <1>1 DEF client, Flags, Unasked
  <1>3. Len(<<>>) = 0 /\ \A n : Len(<<n>>) = 1
    OBVIOUS
  <1>7. ASSUME StageOf(w)' < StageOf(w) PROVE Effort' < Effort
    <2>1. Stage' < Stage
      BY <1>1, <1>2, <1>7 DEF Stage
    <2> HIDE DEF Stage, Flags
    <2>2. Stage' + Flags' < Stage + Flags
      BY <1>2, <2>1, EffortType, EffortTypeNext
    <2> QED
      BY <1>2, <2>2, WorkerEffort
  <1>4. CASE StartInit(w)
    <2>1. /\ inbox[w] = <<Message("init")>> /\ outbox[w] = <<>> /\ state[w] = "new"
      BY <1>1, <1>4 DEF StartInit, Receive, Starting, Serving, Work
    <2>2. inbox'[w] = <<>> /\ outbox'[w] = <<>> /\ state'[w] = "initializing"
      BY <1>4, <2>1 DEF StartInit, Receive, IInv, TypeOK
    <2>3. StageOf(w) = 3 /\ StageOf(w)' = 2
      BY <1>3, <2>1, <2>2 DEF StageOf, Begun
    <2> QED
      BY <1>7, <2>3
  <1>5. CASE FinishInit(w)
    <2>1. inbox[w] = <<>> /\ outbox[w] = <<>> /\ state[w] = "initializing"
      BY <1>1, <1>5 DEF FinishInit, Starting, Serving
    <2>2. inbox'[w] = <<>> /\ (\E m : outbox'[w] = <<m>>) /\ state'[w] \in {"ready", "closed"}
      BY <1>5, <2>1 DEF FinishInit, Send, IInv, TypeOK
    <2>3. StageOf(w) = 2 /\ StageOf(w)' = 1
      BY <1>3, <2>1, <2>2 DEF StageOf, Begun
    <2> QED
      BY <1>7, <2>3
  <1>6. CASE Compute(w)
    <2>1. inbox[w] = <<Work("analyze")>> /\ outbox[w] = <<>> /\ state[w] = "ready"
      BY <1>1, <1>6 DEF Compute, Receive, Starting, Serving, Message
    <2>2. inbox'[w] = <<>> /\ (\E m : outbox'[w] = <<m>>) /\ state'[w] \in {"ready", "closed"}
      BY <1>6, <2>1 DEF Compute, Receive, Send, IInv, TypeOK
    <2>3. StageOf(w) = 2 /\ StageOf(w)' = 1
      BY <1>3, <2>1, <2>2 DEF StageOf, Begun
    <2> QED
      BY <1>7, <2>3
  <1> QED
    BY <1>4, <1>5, <1>6

LEMMA StepEffort == IInv /\ Attended /\ Next => Effort' < Effort
  <1> SUFFICES ASSUME IInv, Attended, Next PROVE Effort' < Effort
    OBVIOUS
  <1>0. IInv' /\ Attended'
    BY StepIInv, StepAttended
  <1>1. ASSUME NEW c \in Calls, Abort(c) PROVE Effort' < Effort
    <2>1. /\ (IF posted # 0 THEN posted ELSE worker) = worker
          /\ active # 0 /\ continuations' = continuations /\ disposed' = disposed
      BY <1>1, ClientAssumption DEF IInv, Calling, Abort
    <2> QED
      BY <1>0, <1>1, <2>1, StoppingEffort DEF Abort, Refusals
  <1>2. CASE Dispose
    BY <1>0, <1>2, StoppingEffort DEF Dispose, Refusals
  <1>3. ASSUME NEW w \in Workers, WorkerFails(w) PROVE Effort' < Effort
    <2>1. worker # 0 /\ w = worker
      BY <1>3 DEF WorkerFails, Workers
    <2> QED
      BY <1>0, <1>3, <2>1, StoppingEffort DEF WorkerFails, FailTerminal, Refusals
  <1> QED
    BY <1>0, <1>1, <1>2, <1>3, AskingEffort, ContinueEffort, DeliverEffort, WorkingEffort DEF Next

(* However calls, aborts, messages and worker failures are interleaved,    *)
(* each leaves less to do: the client and its workers do not go on for     *)
(* ever about finitely many calls.                                         *)
THEOREM EffortRunsOut == Spec => [](Effort \in Nat) /\ [][Effort' < Effort]_vars
  <1>1. IInv /\ Attended => Effort \in Nat
    BY EffortType
  <1>2. IInv /\ Attended /\ [Next]_vars => [Effort' < Effort]_vars
    BY StepEffort
  <1> QED
    BY <1>1, <1>2, SpecAttended, PTL DEF Spec

(* A continuation can run, or the current worker has something to do or to *)
(* say.                                                                    *)
ClientReady ==
  \/ Runnable # {}
  \/ /\ worker # 0
     /\ \/ inbox[worker] # <<>> /\ state[worker] # "closed"
        \/ state[worker] = "initializing"
        \/ outbox[worker] # <<>>

(* A promise that analyze() has returned is never left without somebody    *)
(* who will settle it: its continuation, or the worker and its messages,   *)
(* can go on.                                                              *)
THEOREM CallsAreAttended == Spec => [](active # 0 => ClientReady)
  <1>1. ASSUME IInv, Attended, active # 0, Runnable = {} PROVE ClientReady
    <2>1. CASE posted # 0
      <3>1. worker # 0 /\ Serving(worker) /\ posted = worker
        BY <1>1, <2>1 DEF IInv, Calling, Owning, Starting
      <3>2. \/ inbox[worker] = <<Work("analyze")>> /\ state[worker] = "ready"
            \/ \E t : outbox[worker] = <<Work(t)>>
        BY <3>1 DEF Serving
      <3> QED
        BY <3>1, <3>2 DEF ClientReady
    <2>2. CASE posted = 0
      <3>1. PICK k \in continuations : k.call = active
        BY <1>1, <2>2 DEF Attended
      <3>2. k.worker # 0 /\ ready[k.worker] = "pending" /\ k.worker = worker
        BY <1>1, <3>1 DEF Runnable, Promised, Attended
      <3>3. Starting(worker)
        BY <1>1, <3>2 DEF IInv, Owning, Serving
      <3>4. \/ state[worker] = "new" /\ inbox[worker] # <<>>
            \/ state[worker] = "initializing" \/ outbox[worker] # <<>>
        <4>1. \A m : <<m>> # <<>>
          OBVIOUS
        <4> QED
          BY <3>3, <4>1 DEF Starting
      <3>5. worker # 0
        BY <3>2
      <3> QED
        BY <3>4, <3>5 DEF ClientReady
    <2> QED
      BY <2>1, <2>2
  <1>2. IInv /\ Attended => (active # 0 => ClientReady)
    BY <1>1 DEF ClientReady
  <1> QED
    BY <1>2, SpecAttended, PTL
=============================================================================
