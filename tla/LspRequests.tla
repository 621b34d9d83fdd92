----------------------------- MODULE LspRequests -----------------------------
(***************************************************************************)
(* The language server's read requests (Backend::cpu_request and           *)
(* run_cpu_request in backend.rs, cancellation.rs) behind the protocol     *)
(* gate of lifecycle.rs, with the analyses they share the permits with.    *)
(*                                                                         *)
(* Handlers, and the futures of requests, run on the main loop, one step   *)
(* at a time; an operation runs on a blocking thread, on a clone of the    *)
(* session taken when the request was received.  LspSession has the        *)
(* analyses in detail: here a document is a text, the generation of its    *)
(* snapshot (which names its CancellationToken), and its adopted view.     *)
(*                                                                         *)
(* A definition under "Altered:" is a plausible mistake in the one that    *)
(* follows it and not part of the specification.                           *)
(***************************************************************************)
EXTENDS Integers, Sequences, FiniteSets, SequencesExt

CONSTANTS
  Uris,           \* documents
  Observers,      \* Observers[u]: the documents whose analysis observes u
  Requests,       \* requests the client may send, each once
  WholeProject,   \* those whose operation looks at every document (references, rename)
  MaxAnalyses,    \* MAX_CONCURRENT_ANALYSES, the permits of cpu_limit
  MaxRequests,    \* MAX_CONCURRENT_REQUESTS
  MaxGeneration   \* bound on the generations handed out in one behaviour

ASSUME RequestAssumption ==
  /\ IsFiniteSet(Uris) /\ Uris # {} /\ IsFiniteSet(Requests) /\ Uris \cap Requests = {}
  /\ Observers \in [Uris -> SUBSET Uris]
  /\ WholeProject \subseteq Requests
  /\ MaxAnalyses \in Nat \ {0} /\ MaxRequests \in Nat \ {0} /\ MaxGeneration \in Nat

VARIABLES
  phase,           \* ProtocolLifecycle::state, "Exited" once the main loop has ended
  docs,            \* DocumentStore::documents
  nextGeneration,  \* DocumentStore::next_generation
  cancelled,       \* generations whose CancellationToken is cancelled
  tasks,           \* tasks[u]: how far the analysis of u has come
  requests,        \* the futures of the requests and their threads
  stopped,         \* requests whose own token is cancelled (CancelWorkerOnDrop)
  withdrawn,       \* requests named by a $/cancelRequest that was heard
  answer,          \* what the client was told
  queue,           \* who waits for a permit, in the order tokio's Semaphore serves them
  available        \* the Semaphore's permits

documents == <<docs, nextGeneration, cancelled>>
vars == <<phase, documents, tasks, requests, stopped, withdrawn, answer, queue, available>>

-----------------------------------------------------------------------------
(* text is the generation at which the text was set, 0 if the document is  *)
(* not open; view is the text of the adopted analysis, 0 while pending.    *)
Closed == [text |-> 0, generation |-> 0, view |-> 0]
Document == [text : Nat, generation : Nat, view : Nat]

(* token: the generation whose token the request watches, 0 for None;      *)
(* seen: the views in its clone of the session that its operation looks    *)
(* at.  thread: what became of spawn_blocking, "none" before, its outcome  *)
(* afterwards.                                                             *)
Outcomes == {"result", "modified", "cancelled", "failed"}
Request ==
  [uri : Uris, token : Nat, seen : [Uris -> Nat],
   thread : {"none", "running"} \cup Outcomes]
Unsent == [uri |-> CHOOSE u \in Uris : TRUE, token |-> 0, seen |-> [u \in Uris |-> 0],
           thread |-> "none"]

Phases == {"Uninitialized", "Initializing", "Ready", "ShuttingDown", "Exited"}
Rounds == {"waiting", "processing", "processed", "queued", "validating", "validated"}

TypeOK ==
  /\ phase \in Phases
  /\ docs \in [Uris -> Document]
  /\ nextGeneration \in Nat
  /\ cancelled \subseteq Nat
  /\ tasks \in [Uris -> Rounds \cup {"none"}]
  /\ requests \in [Requests -> Request]
  /\ stopped \subseteq Requests
  /\ withdrawn \subseteq Requests
  /\ answer \in [Requests -> {"unsent", "open", "refused"} \cup Outcomes]
  /\ queue \in Seq(Uris \cup Requests)
  /\ available \in Nat

Init ==
  /\ phase = "Uninitialized"
  /\ docs = [u \in Uris |-> Closed]
  /\ nextGeneration = 0
  /\ cancelled = {}
  /\ tasks = [u \in Uris |-> "none"]
  /\ requests = [r \in Requests |-> Unsent]
  /\ stopped = {}
  /\ withdrawn = {}
  /\ answer = [r \in Requests |-> "unsent"]
  /\ queue = <<>>
  /\ available = MaxAnalyses

(* Once a request is answered and its thread has ended, all that can still *)
(* be asked about it is whether its document changed.                      *)
Forgotten(r) == [Unsent EXCEPT !.token = requests[r].token]

Open == {u \in Uris : docs[u].text # 0}
Outstanding == {r \in Requests : answer[r] = "open"}
Up == phase # "Exited"

-----------------------------------------------------------------------------
(* Lifecycle. *)

RequestsOnly == UNCHANGED <<phase, documents, tasks>>
LifecycleOnly ==
  UNCHANGED <<documents, tasks, requests, stopped, withdrawn, answer, queue, available>>

Initialize ==
  /\ phase = "Uninitialized" /\ Cardinality(Outstanding) < MaxRequests
  /\ phase' = "Initializing" /\ LifecycleOnly

Initialized == phase = "Initializing" /\ phase' = "Ready" /\ LifecycleOnly

(* Dropping the tasks of U: one that is waiting leaves the queue, one that *)
(* runs releases its permit (its thread goes on without one: LspSession    *)
(* counts those); an event already emitted is found superseded.            *)
Holding(U) == {u \in U : tasks[u] \in {"processing", "validating"}}
Forget(W) ==
  LET kept == {i \in DOMAIN queue : queue[i] \notin W}
      place(i) == Cardinality({k \in kept : k <= i})
  IN  [j \in 1..Cardinality(kept) |-> queue[CHOOSE i \in kept : place(i) = j]]

(* cancel_all_analysis                                                     *)
Shutdown ==
  /\ phase = "Ready" /\ Cardinality(Outstanding) < MaxRequests
  /\ phase' = "ShuttingDown"
  /\ cancelled' = cancelled \cup {docs[u].generation : u \in Open}
  /\ tasks' = [u \in Uris |-> "none"]
  /\ queue' = Forget(Uris)
  /\ available' = available + Cardinality(Holding(Uris))
  /\ UNCHANGED <<docs, nextGeneration, requests, stopped, withdrawn, answer>>

(* The main loop returns and the process ends; whether that is a protocol  *)
(* error depends on the phase it leaves.                                   *)
Exit ==
  /\ Up /\ phase' = "Exited"
  /\ docs' = [u \in Uris |-> Closed]
  /\ tasks' = [u \in Uris |-> "none"]
  /\ requests' = [r \in Requests |-> Forgotten(r)]
  /\ queue' = <<>>
  /\ available' = MaxAnalyses
  /\ UNCHANGED <<nextGeneration, cancelled, stopped, withdrawn, answer>>

-----------------------------------------------------------------------------
(* Notifications about documents, heard in phase Ready only. *)

(* Altered: the superseded task keeps its place or permit.                 *)
InstallWithoutAbort(d, U, gone) ==
  LET order == SetToSeq(U)
      turn(u) == nextGeneration + (CHOOSE i \in DOMAIN order : order[i] = u)
  IN  /\ nextGeneration + Cardinality(U) <= MaxGeneration
      /\ docs' = [u \in Uris |->
           IF u \notin U THEN d[u]
           ELSE [text |-> IF d[u].text = docs[u].text THEN d[u].text ELSE turn(u),
                 generation |-> turn(u), view |-> 0]]
      /\ nextGeneration' = nextGeneration + Cardinality(U)
      /\ cancelled' = cancelled \cup {docs[u].generation : u \in (U \cup gone) \cap Open}
      /\ tasks' = [u \in Uris |-> IF u \in U THEN "waiting"
                                  ELSE IF u \in gone THEN "none" ELSE tasks[u]]
      /\ queue' = queue \o order
      /\ UNCHANGED <<phase, requests, stopped, withdrawn, answer, available>>

(* New snapshots for the documents of U, whose analyses start over; gone   *)
(* documents lose theirs.  (The order among U is LspSession's concern.)    *)
Install(d, U, gone) ==
  LET order == SetToSeq(U)
      turn(u) == nextGeneration + (CHOOSE i \in DOMAIN order : order[i] = u)
  IN  /\ nextGeneration + Cardinality(U) <= MaxGeneration
      /\ docs' = [u \in Uris |->
           IF u \notin U THEN d[u]
           ELSE [text |-> IF d[u].text = docs[u].text THEN d[u].text ELSE turn(u),
                 generation |-> turn(u), view |-> 0]]
      /\ nextGeneration' = nextGeneration + Cardinality(U)
      /\ cancelled' = cancelled \cup {docs[u].generation : u \in (U \cup gone) \cap Open}
      /\ tasks' = [u \in Uris |-> IF u \in U THEN "waiting"
                                  ELSE IF u \in gone THEN "none" ELSE tasks[u]]
      /\ queue' = Forget(U \cup gone) \o order
      /\ available' = available + Cardinality(Holding(U \cup gone))
      /\ UNCHANGED <<phase, requests, stopped, withdrawn, answer>>

Dependents(u) == (Observers[u] \cap Open) \ {u}

NewText == nextGeneration + MaxGeneration + 1   \* differs from every text in use

DidOpenOrChange(u) ==
  /\ phase = "Ready"
  /\ Install([docs EXCEPT ![u].text = NewText], {u} \cup Dependents(u), {})

DidClose(u) ==
  /\ phase = "Ready" /\ u \in Open
  /\ Install([docs EXCEPT ![u] = Closed], Dependents(u), {u})

(* Watched files, settings, workspace folders; retry_completion.           *)
Reanalyse(U) ==
  /\ phase = "Ready" /\ U # {} /\ U \subseteq Open
  /\ Install(docs, U, {})

-----------------------------------------------------------------------------
(* Analyses, as far as they use permits and adopt views. *)

AnalysisOnly == UNCHANGED <<phase, nextGeneration, cancelled, requests, stopped, withdrawn, answer>>

(* A task's token is cancelled only when the task is dropped as well.      *)
StartAnalysis(u) ==
  /\ Up /\ available > 0 /\ queue # <<>> /\ Head(queue) = u
  /\ tasks' = [tasks EXCEPT ![u] = IF @ = "waiting" THEN "processing" ELSE "validating"]
  /\ queue' = Tail(queue)
  /\ available' = available - 1
  /\ AnalysisOnly /\ UNCHANGED docs

EndAnalysis(u) ==
  /\ Up /\ u \in Holding(Uris)
  /\ tasks' = [tasks EXCEPT ![u] = IF @ = "processing" THEN "processed" ELSE "validated"]
  /\ available' = available + 1
  /\ AnalysisOnly /\ UNCHANGED <<docs, queue>>

(* Retries are Reanalyse.                                                  *)
AnalysisCompleted(u) ==
  /\ Up
  /\ \/ /\ tasks[u] = "processed"
        /\ tasks' = [tasks EXCEPT ![u] = "queued"]
        /\ queue' = Append(queue, u)
        /\ UNCHANGED docs
     \/ /\ tasks[u] = "validated"
        /\ tasks' = [tasks EXCEPT ![u] = "none"]
        /\ docs' = [docs EXCEPT ![u].view = docs[u].text]
        /\ UNCHANGED queue
  /\ AnalysisOnly /\ UNCHANGED available

-----------------------------------------------------------------------------
(* Read requests. *)

Modified(r) == requests[r].token \in cancelled

Refuse(r) ==
  /\ phase \in Phases \ {"Ready", "Exited"} /\ Cardinality(Outstanding) < MaxRequests
  /\ answer[r] = "unsent"
  /\ answer' = [answer EXCEPT ![r] = "refused"]
  /\ RequestsOnly /\ UNCHANGED <<requests, stopped, withdrawn, queue, available>>

(* cpu_request clones the session; the first poll joins the queue.  The    *)
(* operation looks no further if its document has no view.                 *)
Receive(r, u) ==
  /\ phase = "Ready" /\ Cardinality(Outstanding) < MaxRequests
  /\ answer[r] = "unsent"
  /\ answer' = [answer EXCEPT ![r] = "open"]
  /\ requests' = [requests EXCEPT ![r] =
       [uri |-> u, token |-> docs[u].generation,
        seen |-> [w \in Uris |-> IF w = u \/ (r \in WholeProject /\ docs[u].view # 0)
                                 THEN docs[w].view ELSE 0],
        thread |-> "none"]]
  /\ queue' = Append(queue, r)
  /\ RequestsOnly /\ UNCHANGED <<stopped, withdrawn, available>>

(* Altered: the place in the queue is kept.                                *)
FinishInPlace(r, a) ==
  /\ answer' = [answer EXCEPT ![r] = a]
  /\ requests' = [requests EXCEPT ![r] = IF @.thread = "running" THEN @ ELSE Forgotten(r)]
  /\ stopped' = stopped \cup {r}
  /\ UNCHANGED queue

(* The answer is given and the future dropped: its place in the queue, its *)
(* token, its handle of the thread, which may be running.                  *)
Finish(r, a) ==
  /\ answer' = [answer EXCEPT ![r] = a]
  /\ requests' = [requests EXCEPT ![r] = IF @.thread = "running" THEN @ ELSE Forgotten(r)]
  /\ stopped' = stopped \cup {r}
  /\ queue' = Forget({r})

(* The permit is obtained; a request already cancelled ends here, else the *)
(* permit moves into the thread.                                           *)
Start(r) ==
  /\ Up /\ answer[r] = "open" /\ r \notin withdrawn
  /\ available > 0 /\ queue # <<>> /\ Head(queue) = r
  /\ IF Modified(r)
     THEN Finish(r, "modified") /\ UNCHANGED available
     ELSE /\ requests' = [requests EXCEPT ![r].thread = "running"]
          /\ queue' = Tail(queue)
          /\ available' = available - 1
          /\ UNCHANGED <<stopped, answer>>
  /\ RequestsOnly /\ UNCHANGED withdrawn

(* What the thread may return with: QueryCancellation::check_now asks for  *)
(* the request first; a panic ends it whatever the tokens say.             *)
Returned(r) ==
  {"failed"} \cup
  IF r \in stopped THEN {"cancelled"}
  ELSE IF Modified(r) THEN {"modified"} ELSE {"result"}

EndThread(r) ==
  /\ Up /\ requests[r].thread = "running"
  /\ IF answer[r] # "open" THEN requests' = [requests EXCEPT ![r] = Forgotten(r)]
     ELSE \E o \in Returned(r) : requests' = [requests EXCEPT ![r].thread = o]
  /\ available' = available + 1
  /\ RequestsOnly /\ UNCHANGED <<stopped, withdrawn, answer, queue>>

(* Altered: the tokens are not asked again once the thread has returned.   *)
FinishUnchecked(r) ==
  /\ Up /\ answer[r] = "open" /\ r \notin withdrawn /\ requests[r].thread \in Outcomes
  /\ Finish(r, requests[r].thread)
  /\ RequestsOnly /\ UNCHANGED <<withdrawn, available>>

(* finish_cpu_request, polled on the main loop when the thread has ended.  *)
FinishRequest(r) ==
  /\ Up /\ answer[r] = "open" /\ r \notin withdrawn /\ requests[r].thread \in Outcomes
  /\ Finish(r, IF Modified(r) THEN "modified" ELSE requests[r].thread)
  /\ RequestsOnly /\ UNCHANGED <<withdrawn, available>>

(* $/cancelRequest reaches the concurrency layer only through the gate.    *)
Cancel(r) ==
  /\ phase = "Ready" /\ answer[r] = "open"
  /\ withdrawn' = withdrawn \cup {r}
  /\ RequestsOnly /\ UNCHANGED <<requests, stopped, answer, queue, available>>

(* Altered: dropping the future releases the permit of its thread.         *)
DropReleasing(r) ==
  /\ Up /\ answer[r] = "open" /\ r \in withdrawn
  /\ Finish(r, "cancelled")
  /\ available' = available + (IF requests[r].thread = "running" THEN 1 ELSE 0)
  /\ RequestsOnly /\ UNCHANGED withdrawn

(* The aborted future is dropped at its next poll.                         *)
Drop(r) ==
  /\ Up /\ answer[r] = "open" /\ r \in withdrawn
  /\ Finish(r, "cancelled")
  /\ RequestsOnly /\ UNCHANGED <<withdrawn, available>>

-----------------------------------------------------------------------------
Client ==
  \/ Initialize
  \/ Initialized
  \/ Shutdown
  \/ Exit
  \/ \E u \in Uris : DidOpenOrChange(u)
  \/ \E u \in Uris : DidClose(u)
  \/ \E U \in SUBSET Uris : Reanalyse(U)
  \/ \E r \in Requests : Refuse(r)
  \/ \E r \in Requests, u \in Uris : Receive(r, u)
  \/ \E r \in Requests : Cancel(r)

Server ==
  \/ \E u \in Uris : StartAnalysis(u)
  \/ \E u \in Uris : EndAnalysis(u)
  \/ \E u \in Uris : AnalysisCompleted(u)
  \/ \E r \in Requests : Start(r)
  \/ \E r \in Requests : EndThread(r)
  \/ \E r \in Requests : FinishRequest(r)
  \/ \E r \in Requests : Drop(r)

Next == Client \/ Server

(* Threads return, and the runtime polls what is ready.                    *)
Fairness ==
  /\ \A u \in Uris : WF_vars(StartAnalysis(u)) /\ WF_vars(EndAnalysis(u))
  /\ \A r \in Requests :
       /\ WF_vars(Start(r)) /\ WF_vars(EndThread(r))
       /\ WF_vars(FinishRequest(r)) /\ WF_vars(Drop(r))

Spec == Init /\ [][Next]_vars /\ Fairness
-----------------------------------------------------------------------------
(* Properties. *)

(* Every request is answered as RequestService says, once and in the end.  *)
(* A request's document has changed when the token it watches is cancelled *)
(* (by a change, a close, a re-analysis or the shutdown).                  *)
RS == INSTANCE RequestService WITH
        answer <- answer,
        withdrawn <- withdrawn,
        changed <- {r \in Requests : requests[r].token \in cancelled},
        up <- Up
Implements == RS!Spec

Threads == {r \in Requests : requests[r].thread = "running"}

(* However requests are cancelled, documents superseded and the server     *)
(* shut down, no permit is lost or given twice: those in use are those of  *)
(* running request threads, orphaned ones too, and of running analyses.    *)
PermitsConserved ==
  available + Cardinality(Threads) + Cardinality(Holding(Uris)) = MaxAnalyses

(* A place in the queue belongs to somebody who will take a permit: nobody *)
(* waits behind a task or a request that no longer exists, or waits twice. *)
QueueServed ==
  /\ TypeOK
  /\ Len(queue) = Cardinality(Range(queue))
  /\ Up => Range(queue) =
       {u \in Uris : tasks[u] \in {"waiting", "queued"}}
         \cup {r \in Requests : answer[r] = "open" /\ requests[r].thread = "none"}

(* When a result is sent, the view it was computed from, if there was one, *)
(* is still that of its document's text; if not, it was pending.           *)
OwnDocumentCurrent ==
  [][\A r \in Requests : answer[r] = "open" /\ answer'[r] = "result" =>
       requests[r].seen[requests[r].uri] \in {0, docs[requests[r].uri].text}]_vars

(* After the shutdown all the work ends, unless the client exits first.    *)
Drains ==
  phase = "ShuttingDown" ~> \/ ~Up
                            \/ Threads = {} /\ Outstanding = {} /\ queue = <<>>
=============================================================================
