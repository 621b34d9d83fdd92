-------------------------- MODULE LspRequestsProofs --------------------------
(***************************************************************************)
(* For any number of documents, requests and permits and any bound: every  *)
(* read request is answered as RequestService allows, a result is only     *)
(* sent while the text it was computed from is that of its document, no    *)
(* permit is lost, the queue holds exactly those who still wait, and after *)
(* shutdown each step of the server leaves less to do.                     *)
(***************************************************************************)
EXTENDS LspRequests, TLAPS, FiniteSetTheorems

Types ==
  /\ phase \in Phases
  /\ docs \in [Uris -> Document]
  /\ nextGeneration \in Nat
  /\ cancelled \subseteq Nat
  /\ requests \in [Requests -> Request]
  /\ answer \in [Requests -> {"unsent", "open", "refused"} \cup Outcomes]

(* A generation names one snapshot, and is cancelled with it.              *)
Fresh ==
  /\ \A u \in Uris : /\ docs[u].generation <= nextGeneration
                     /\ docs[u].generation = 0 <=> docs[u].text = 0
                     /\ docs[u].view \in {0, docs[u].text}
                     /\ phase # "ShuttingDown" => docs[u].generation \notin cancelled
  /\ \A u, v \in Uris : docs[u].generation = docs[v].generation => u = v \/ docs[u].generation = 0
  /\ \A g \in cancelled : 0 < g /\ g <= nextGeneration

(* What a request looked at is of the text its document has, unless the    *)
(* token it watches tells otherwise.                                       *)
Current(q) ==
  \/ q.seen[q.uri] = 0
  \/ q.token \in cancelled
  \/ docs[q.uri].generation = q.token /\ docs[q.uri].text = q.seen[q.uri]

(* A request that is still to be answered.                                 *)
Answerable(q) ==
  /\ Current(q)
  /\ q.thread # "cancelled"
  /\ q.thread = "modified" => q.token \in cancelled

Watched(r) ==
  /\ answer[r] = "unsent" => requests[r].token = 0
  /\ answer[r] = "open" => Answerable(requests[r])
  /\ r \in stopped => answer[r] \notin {"unsent", "open"}

Watching == \A r \in Requests : Watched(r)

IInv == Types /\ Fresh /\ Watching

-----------------------------------------------------------------------------
(* The generations given out in one batch. *)

TurnIn(U, u) == CHOOSE i \in DOMAIN SetToSeq(U) : SetToSeq(U)[i] = u

(* SetToSeq lists a batch of documents, each once.                         *)
LEMMA Batch ==
  ASSUME NEW U \in SUBSET Uris
  PROVE  /\ Cardinality(U) \in Nat
         /\ SetToSeq(U) \in [1..Cardinality(U) -> U] /\ IsInjective(SetToSeq(U))
         /\ \A u \in U : \E i \in 1..Cardinality(U) : SetToSeq(U)[i] = u
  <1> DEFINE C == Cardinality(U)
  <1>1. IsFiniteSet(U) /\ C \in Nat /\ ExistsBijection(1..C, U)
    BY RequestAssumption, FS_Subset, FS_CardinalityType
  <1>2. \E f \in [1..C -> U] : IsInjective(f)
    BY <1>1 DEF ExistsBijection, Bijection, Injection
  <1>3. SetToSeq(U) \in [1..C -> U] /\ IsInjective(SetToSeq(U))
    BY <1>2 DEF SetToSeq
  <1>4. SetToSeq(U) \in Injection(1..C, U)
    BY <1>3 DEF Injection
  <1>5. Cardinality(1..C) = C
    BY <1>1, FS_Interval
  <1>6. SetToSeq(U) \in Surjection(1..C, U)
    BY <1>1, <1>4, <1>5, FS_Injection
  <1> QED
    BY <1>1, <1>3, <1>6 DEF Surjection

LEMMA Turns ==
  ASSUME NEW U \in SUBSET Uris
  PROVE  /\ Cardinality(U) \in Nat
         /\ \A u \in U : TurnIn(U, u) \in 1..Cardinality(U) /\ SetToSeq(U)[TurnIn(U, u)] = u
  <1>1. DOMAIN SetToSeq(U) = 1..Cardinality(U)
    BY Batch
  <1> QED
    BY <1>1, Batch DEF TurnIn

LEMMA ClosedType == Closed \in Document /\ Closed.text = 0 /\ Closed.generation = 0 /\ Closed.view = 0
  BY DEF Closed, Document

LEMMA ForgottenType ==
  ASSUME IInv, NEW r \in Requests
  PROVE  /\ Forgotten(r) \in Request /\ Forgotten(r).token = requests[r].token
         /\ Forgotten(r).thread = "none" /\ \A u \in Uris : Forgotten(r).seen[u] = 0
  <1>1. requests[r].token \in Nat /\ requests[r].uri \in Uris
    BY DEF IInv, Types, Request
  <1>2. Unsent.uri \in Uris
    BY <1>1 DEF Unsent
  <1> QED
    BY <1>1, <1>2 DEF Forgotten, Unsent, Request

LEMMA InitIInv == ASSUME Init PROVE IInv
  <1>1. Unsent \in Request /\ Unsent.token = 0
    BY RequestAssumption DEF Unsent, Request
  <1>2. Types
    BY <1>1, ClosedType DEF Init, Types, Phases
  <1>3. Fresh
    BY ClosedType DEF Init, Fresh
  <1>4. Watching
    BY <1>1 DEF Init, Watching, Watched, Answerable, Current
  <1> QED
    BY <1>2, <1>3, <1>4 DEF IInv

-----------------------------------------------------------------------------
(* Notifications. *)

LEMMA Installing ==
  ASSUME IInv, phase = "Ready", NEW d \in [Uris -> Document],
         NEW U \in SUBSET Uris, NEW gone \in SUBSET Uris, Install(d, U, gone),
         \A u \in U : d[u].text # 0, \A u \in gone \ U : d[u] = Closed,
         \A u \in Uris \ (U \cup gone) : d[u] = docs[u]
  PROVE  IInv' /\ cancelled \subseteq cancelled'
  <1> DEFINE turn(u) == nextGeneration + TurnIn(U, u)
             C == Cardinality(U)
  <1>1. docs' = [u \in Uris |->
           IF u \notin U THEN d[u]
           ELSE [text |-> IF d[u].text = docs[u].text THEN d[u].text ELSE turn(u),
                 generation |-> turn(u), view |-> 0]]
    BY DEF Install, TurnIn
  <1>2. /\ nextGeneration' = nextGeneration + C
        /\ cancelled' = cancelled \cup {docs[u].generation : u \in (U \cup gone) \cap Open}
        /\ UNCHANGED <<phase, requests, stopped, withdrawn, answer>>
    BY DEF Install
  <1>3. C \in Nat /\ nextGeneration \in Nat
    BY Turns DEF IInv, Types
  <1>4. \A u \in U : /\ turn(u) \in Nat /\ turn(u) > nextGeneration
                     /\ turn(u) <= nextGeneration + C
    BY <1>3, Turns
  <1>5. \A u, v \in U : turn(u) = turn(v) => u = v
    <2>1. ASSUME NEW u \in U, NEW v \in U, turn(u) = turn(v) PROVE TurnIn(U, u) = TurnIn(U, v)
      BY <1>3, <2>1, Turns
    <2>2. \A u \in U : SetToSeq(U)[TurnIn(U, u)] = u
      BY Turns
    <2>3. ASSUME NEW u \in U, NEW v \in U, turn(u) = turn(v) PROVE u = v
      <3>1. SetToSeq(U)[TurnIn(U, u)] = SetToSeq(U)[TurnIn(U, v)]
        BY <2>1, <2>3
      <3> QED
        BY <2>2, <3>1
    <2> QED
      BY <2>3
  <1> HIDE DEF turn, C
  <1>6. \A u \in Uris : docs[u] \in Document /\ d[u] \in Document
    BY DEF IInv, Types
  <1>7. \A u \in U : /\ docs'[u].generation = turn(u) /\ docs'[u].view = 0
                     /\ docs'[u].text \in Nat /\ docs'[u].text # 0
                     /\ docs'[u] \in Document
    BY <1>1, <1>3, <1>4, <1>6 DEF Document
  <1>8. \A u \in Uris \ U : docs'[u] = IF u \in gone THEN Closed ELSE docs[u]
    BY <1>1
  <1>9. \A u \in Open : docs[u].generation \in Nat /\ 0 < docs[u].generation /\ docs[u].generation <= nextGeneration
    BY <1>3, <1>6 DEF IInv, Fresh, Open, Document
  <1>a. \A g \in cancelled' : g \in Nat /\ 0 < g /\ g <= nextGeneration
    <2>1. ASSUME NEW g \in cancelled' PROVE g \in cancelled \/ \E u \in Open : g = docs[u].generation
      BY <1>2
    <2> QED
      BY <2>1, <1>9, ZenonT(40) DEF IInv, Types, Fresh
  <1>10. Types'
    <2>1. docs' \in [Uris -> Document]
      BY <1>1, <1>6, <1>7, <1>8, ClosedType
    <2>2. cancelled' \subseteq Nat
      BY <1>a
    <2>3. nextGeneration' \in Nat
      BY <1>2, <1>3
    <2> QED
      BY <1>2, <2>1, <2>2, <2>3 DEF IInv, Types
  <1>11. Fresh'
    <2>1. \A g \in cancelled' : 0 < g /\ g <= nextGeneration /\ g <= nextGeneration'
      BY <1>2, <1>3, <1>a
    <2>2. \A u \in Uris : /\ docs'[u].generation <= nextGeneration'
                          /\ docs'[u].generation = 0 <=> docs'[u].text = 0
                          /\ docs'[u].view \in {0, docs'[u].text}
      <3>1. ASSUME NEW u \in U
            PROVE  /\ docs'[u].generation <= nextGeneration'
                   /\ docs'[u].generation = 0 <=> docs'[u].text = 0
                   /\ docs'[u].view \in {0, docs'[u].text}
        BY <1>2, <1>3, <1>4, <1>7
      <3>2. ASSUME NEW u \in Uris \ U
            PROVE  /\ docs'[u].generation <= nextGeneration'
                   /\ docs'[u].generation = 0 <=> docs'[u].text = 0
                   /\ docs'[u].view \in {0, docs'[u].text}
        BY <1>2, <1>3, <1>6, <1>8, ClosedType DEF IInv, Fresh, Document
      <3> QED
        BY <3>1, <3>2
    <2>3. ASSUME NEW u \in Uris PROVE docs'[u].generation \notin cancelled'
      <3>1. CASE u \in U
        BY <1>3, <1>4, <1>7, <2>1, <3>1 DEF Document
      <3>2. CASE u \notin U /\ u \in gone
        BY <1>8, <2>1, <3>2, ClosedType
      <3>3. CASE u \notin U \cup gone
        BY <1>2, <1>8, <1>9, <3>3 DEF IInv, Fresh
      <3> QED
        BY <3>1, <3>2, <3>3
    <2>4. ASSUME NEW u \in Uris, NEW v \in Uris, docs'[u].generation = docs'[v].generation,
                 docs'[u].generation # 0
          PROVE  u = v
      <3>1. \A w \in Uris \ U : docs'[w].generation <= nextGeneration
        BY <1>3, <1>8, ClosedType DEF IInv, Fresh
      <3>2. \A w \in Uris \ U : docs'[w].generation # 0 => docs'[w] = docs[w]
        BY <1>8, ClosedType
      <3>3. \A w \in U : ~(docs'[w].generation <= nextGeneration)
        BY <1>3, <1>4, <1>7
      <3>4. CASE u \in U /\ v \in U
        BY <1>5, <1>7, <2>4, <3>4
      <3>5. CASE u \notin U /\ v \notin U
        BY <2>4, <3>2, <3>5 DEF IInv, Fresh
      <3> QED
        BY <2>4, <3>1, <3>3, <3>4, <3>5
    <2> QED
      BY <2>1, <2>2, <2>3, <2>4 DEF Fresh
  <1>12. Watching'
    <2>1. ASSUME NEW r \in Requests, answer[r] = "open", requests[r].seen[requests[r].uri] # 0,
                 requests[r].token \notin cancelled'
          PROVE  /\ docs'[requests[r].uri].generation = requests[r].token
                 /\ docs'[requests[r].uri].text = requests[r].seen[requests[r].uri]
      <3>1. /\ requests[r].uri \in Uris /\ docs[requests[r].uri].generation = requests[r].token
            /\ docs[requests[r].uri].text = requests[r].seen[requests[r].uri]
        BY <1>2, <2>1 DEF IInv, Watching, Watched, Answerable, Current, Types, Request
      <3>2. requests[r].uri \in Open
        BY <2>1, <3>1 DEF Open
      <3>3. requests[r].uri \notin U \cup gone
        BY <1>2, <2>1, <3>1, <3>2
      <3> QED
        BY <1>8, <3>1, <3>3
    <2> QED
      BY <1>2, <2>1 DEF IInv, Watching, Watched, Answerable, Current
  <1> QED
    BY <1>2, <1>10, <1>11, <1>12 DEF IInv

LEMMA DidOpenOrChangeStep ==
  ASSUME IInv, NEW u \in Uris, DidOpenOrChange(u) PROVE IInv' /\ cancelled \subseteq cancelled'
  <1> DEFINE d == [docs EXCEPT ![u].text = NewText]
             U == {u} \cup Dependents(u)
  <1>1. NewText \in Nat /\ NewText # 0
    BY RequestAssumption DEF NewText, IInv, Types
  <1>2. d \in [Uris -> Document] /\ d[u].text = NewText /\ \A v \in Uris : v # u => d[v] = docs[v]
    BY <1>1 DEF IInv, Types, Document
  <1>3. U \subseteq Uris /\ \A v \in U : v = u \/ docs[v].text # 0
    BY DEF Dependents, Open
  <1>4. phase = "Ready" /\ Install(d, U, {})
    BY DEF DidOpenOrChange
  <1>5. u \in U
    OBVIOUS
  <1> HIDE DEF d, U
  <1> QED
    BY <1>1, <1>2, <1>3, <1>4, <1>5, Installing

LEMMA DidCloseStep ==
  ASSUME IInv, NEW u \in Uris, DidClose(u) PROVE IInv' /\ cancelled \subseteq cancelled'
  <1> DEFINE d == [docs EXCEPT ![u] = Closed]
             U == Dependents(u)
  <1>1. d \in [Uris -> Document] /\ d[u] = Closed /\ \A v \in Uris : v # u => d[v] = docs[v]
    BY ClosedType DEF IInv, Types
  <1>2. U \subseteq Uris /\ u \notin U /\ \A v \in U : docs[v].text # 0
    BY DEF Dependents, Open
  <1>3. phase = "Ready" /\ Install(d, U, {u})
    BY DEF DidClose
  <1> HIDE DEF d, U
  <1> QED
    BY <1>1, <1>2, <1>3, Installing

LEMMA ReanalyseStep ==
  ASSUME IInv, NEW U \in SUBSET Uris, Reanalyse(U) PROVE IInv' /\ cancelled \subseteq cancelled'
  BY Installing DEF Reanalyse, Open, IInv, Types

(* Whatever leaves the documents' snapshots and the requests alone.        *)
LEMMA Bystanding ==
  ASSUME IInv, UNCHANGED <<docs, nextGeneration, requests, answer, stopped>>,
         \/ phase' = "ShuttingDown"
            /\ cancelled' \in {cancelled, cancelled \cup {docs[u].generation : u \in Open}}
         \/ phase' \in Phases /\ phase # "ShuttingDown" /\ cancelled' = cancelled
  PROVE  IInv' /\ cancelled \subseteq cancelled'
  <1>1. cancelled \subseteq cancelled' /\ \A g \in cancelled' : g \in cancelled \/ \E u \in Open : g = docs[u].generation
    OBVIOUS
  <1>2. phase' \in Phases
    BY DEF IInv, Types, Phases
  <1>3. \A u \in Open : docs[u].generation \in Nat /\ 0 < docs[u].generation
                       /\ docs[u].generation <= nextGeneration
    BY DEF IInv, Types, Fresh, Open, Document
  <1>4. \A g \in cancelled' : g \in Nat /\ 0 < g /\ g <= nextGeneration
    BY <1>1, <1>3 DEF IInv, Types, Fresh
  <1>5. Types'
    BY <1>2, <1>4 DEF IInv, Types
  <1>6. \A u \in Uris : phase' # "ShuttingDown" => docs[u].generation \notin cancelled'
    BY DEF IInv, Fresh
  <1>7. Fresh'
    BY <1>4, <1>6 DEF IInv, Fresh
  <1>8. Watching'
    BY <1>1 DEF IInv, Watching, Watched, Answerable, Current
  <1> QED
    BY <1>1, <1>5, <1>7, <1>8 DEF IInv

LEMMA LifecycleStep ==
  ASSUME IInv, Initialize \/ Initialized \/ Shutdown PROVE IInv' /\ cancelled \subseteq cancelled'
  BY Bystanding DEF Initialize, Initialized, Shutdown, LifecycleOnly, documents, Phases

LEMMA ExitStep == ASSUME IInv, Exit PROVE IInv' /\ cancelled \subseteq cancelled'
  <1>1. /\ phase' = "Exited" /\ docs' = [u \in Uris |-> Closed]
        /\ requests' = [r \in Requests |-> Forgotten(r)]
        /\ UNCHANGED <<nextGeneration, cancelled, stopped, answer>>
    BY DEF Exit
  <1>2. Types'
    BY <1>1, ClosedType, ForgottenType DEF IInv, Types, Phases
  <1>3. Fresh'
    BY <1>1, ClosedType DEF IInv, Fresh, Types
  <1>4. \A r \in Requests : /\ requests'[r].token = requests[r].token /\ requests'[r].thread = "none"
                            /\ requests'[r].seen[requests'[r].uri] = 0
    BY <1>1, ForgottenType DEF Request
  <1>5. Watching'
    BY <1>1, <1>4 DEF IInv, Watching, Watched, Answerable, Current
  <1> QED
    BY <1>1, <1>2, <1>3, <1>5 DEF IInv

(* Analyses change nothing but the views.                                  *)
LEMMA AnalysisStep ==
  ASSUME IInv, NEW u \in Uris, StartAnalysis(u) \/ EndAnalysis(u) \/ AnalysisCompleted(u)
  PROVE  IInv' /\ UNCHANGED <<phase, cancelled, requests, answer, withdrawn>>
  <1>1. UNCHANGED <<phase, nextGeneration, cancelled, requests, stopped, withdrawn, answer>>
    BY DEF StartAnalysis, EndAnalysis, AnalysisCompleted, AnalysisOnly
  <1>2. docs' \in {docs, [docs EXCEPT ![u].view = docs[u].text]}
    BY DEF StartAnalysis, EndAnalysis, AnalysisCompleted
  <1>3. docs' \in [Uris -> Document]
    BY <1>2 DEF IInv, Types, Document
  <1>4. \A v \in Uris : /\ docs'[v].text = docs[v].text /\ docs'[v].generation = docs[v].generation
                        /\ docs'[v].view \in {docs[v].view, docs[v].text}
    BY <1>2 DEF IInv, Types, Document
  <1>5. Types'
    BY <1>1, <1>3 DEF IInv, Types
  <1>6. Fresh'
    BY <1>1, <1>4 DEF IInv, Fresh
  <1>7. Watching'
    BY <1>1, <1>4 DEF IInv, Watching, Watched, Answerable, Current, Types, Request
  <1> QED
    BY <1>1, <1>5, <1>6, <1>7 DEF IInv

-----------------------------------------------------------------------------
(* Read requests. *)

(* One request changes in step with its answer.                            *)
LEMMA Requesting ==
  ASSUME IInv, UNCHANGED <<phase, documents>>, NEW r \in Requests, NEW q \in Request,
         NEW a \in {"open", "refused"} \cup Outcomes,
         requests' = [requests EXCEPT ![r] = q], answer' = [answer EXCEPT ![r] = a],
         stopped' \subseteq stopped \cup {r},
         a = "open" => Answerable(q) /\ stopped' \subseteq stopped /\ answer[r] \in {"unsent", "open"}
  PROVE  IInv'
  <1>1. Types'
    BY DEF IInv, Types, documents
  <1>2. Fresh'
    BY DEF IInv, Fresh, documents
  <1>3. /\ requests'[r] = q /\ answer'[r] = a
        /\ \A o \in Requests \ {r} : requests'[o] = requests[o] /\ answer'[o] = answer[o]
    BY DEF IInv, Types
  <1>4. Watching'
    <2>1. UNCHANGED <<docs, cancelled>>
      BY DEF documents
    <2>2. ASSUME NEW o \in Requests \ {r} PROVE Watched(o)'
      BY <1>3, <2>1 DEF IInv, Watching, Watched, Answerable, Current
    <2>3. a = "open" => r \notin stopped'
      BY DEF IInv, Watching, Watched, Answerable, Current
    <2>4. Watched(r)'
      BY <1>3, <2>1, <2>3 DEF Watched, Answerable, Current, Outcomes
    <2> QED
      BY <2>2, <2>4 DEF Watching
  <1> QED
    BY <1>1, <1>2, <1>4 DEF IInv

LEMMA RefuseStep == ASSUME IInv, NEW r \in Requests, Refuse(r) PROVE IInv'
  <1>1. requests' = [requests EXCEPT ![r] = requests[r]] /\ requests[r] \in Request
    BY DEF Refuse, IInv, Types
  <1> QED
    BY <1>1, Requesting DEF Refuse, RequestsOnly

LEMMA ReceiveStep ==
  ASSUME IInv, NEW r \in Requests, NEW u \in Uris, Receive(r, u)
  PROVE  IInv' /\ requests'[r].token = docs[u].generation /\ docs[u].generation \notin cancelled
  <1> DEFINE q == [uri |-> u, token |-> docs[u].generation,
                   seen |-> [w \in Uris |-> IF w = u \/ (r \in WholeProject /\ docs[u].view # 0)
                                            THEN docs[w].view ELSE 0],
                   thread |-> "none"]
  <1>1. /\ requests' = [requests EXCEPT ![r] = q] /\ answer' = [answer EXCEPT ![r] = "open"]
        /\ answer[r] = "unsent" /\ phase = "Ready" /\ UNCHANGED <<phase, documents, stopped>>
    BY DEF Receive, RequestsOnly
  <1>2. q \in Request
    BY DEF IInv, Types, Document, Request
  <1>3. q.uri = u /\ q.token = docs[u].generation /\ q.thread = "none" /\ q.seen[u] = docs[u].view
    OBVIOUS
  <1> HIDE DEF q
  <1>4. q.seen[u] = 0 \/ docs[u].text = q.seen[u]
    BY <1>3 DEF IInv, Fresh
  <1>5. IInv'
    BY <1>1, <1>2, <1>3, <1>4, Requesting DEF Answerable, Current
  <1> QED
    BY <1>1, <1>3, <1>5 DEF IInv, Fresh, Types

(* The token a request watches is never replaced once it is answered.      *)
LEMMA Finishing ==
  ASSUME IInv, NEW r \in Requests, NEW a \in Outcomes, Finish(r, a), UNCHANGED <<phase, documents>>
  PROVE  IInv' /\ \A o \in Requests : requests'[o].token = requests[o].token
  <1>1. PICK q \in {requests[r], Forgotten(r)} : requests' = [requests EXCEPT ![r] = q]
    BY DEF Finish
  <1>2. q \in Request /\ q.token = requests[r].token
    BY <1>1, ForgottenType DEF IInv, Types
  <1>3. IInv'
    BY <1>1, <1>2, Requesting DEF Finish, Outcomes
  <1> QED
    BY <1>1, <1>2, <1>3 DEF IInv, Types

(* A step of the thread of a request.                                      *)
LEMMA ThreadStep ==
  ASSUME IInv, NEW r \in Requests, NEW q \in Request, requests' = [requests EXCEPT ![r] = q],
         q.token = requests[r].token, q \in {Forgotten(r)} \/ (q.seen = requests[r].seen /\ q.uri = requests[r].uri),
         answer[r] = "open" => q.thread # "cancelled" /\ (q.thread = "modified" => Modified(r)),
         UNCHANGED <<phase, documents, stopped, answer>>
  PROVE  IInv' /\ \A o \in Requests : requests'[o].token = requests[o].token
  <1>1. requests'[r] = q /\ \A o \in Requests \ {r} : requests'[o] = requests[o]
    BY DEF IInv, Types
  <1>2. answer[r] = "open" => Current(q)
    <2>1. CASE q = Forgotten(r)
      <3>1. q.uri \in Uris
        BY DEF Request
      <3> QED
        BY <2>1, <3>1, ForgottenType DEF Current
    <2>2. CASE q.seen = requests[r].seen /\ q.uri = requests[r].uri
      BY <2>2 DEF IInv, Watching, Watched, Answerable, Current, Answerable, Current
    <2> QED
      BY <2>1, <2>2
  <1>3. Types' /\ Fresh'
    BY DEF IInv, Types, Fresh, documents
  <1>4. Watching'
    BY <1>1, <1>2 DEF IInv, Watching, Watched, Answerable, Current, documents, Modified
  <1> QED
    BY <1>1, <1>3, <1>4 DEF IInv

LEMMA StartStep ==
  ASSUME IInv, NEW r \in Requests, Start(r)
  PROVE  IInv' /\ \A o \in Requests : requests'[o].token = requests[o].token
  <1>1. CASE Modified(r)
    BY <1>1, Finishing DEF Start, RequestsOnly, Outcomes
  <1>2. CASE ~Modified(r)
    <2> DEFINE q == [requests[r] EXCEPT !.thread = "running"]
    <2>1. q \in Request /\ q.token = requests[r].token /\ q.seen = requests[r].seen
          /\ q.uri = requests[r].uri /\ q.thread = "running"
      BY DEF IInv, Types, Request
    <2>2. requests' = [requests EXCEPT ![r] = q] /\ UNCHANGED <<phase, documents, stopped, answer>>
      BY <1>2 DEF Start, RequestsOnly
    <2> HIDE DEF q
    <2> QED
      BY <2>1, <2>2, ThreadStep
  <1> QED
    BY <1>1, <1>2

LEMMA EndThreadStep ==
  ASSUME IInv, NEW r \in Requests, EndThread(r)
  PROVE  IInv' /\ \A o \in Requests : requests'[o].token = requests[o].token
  <1>1. UNCHANGED <<phase, documents, stopped, answer>>
    BY DEF EndThread, RequestsOnly
  <1>2. CASE answer[r] # "open"
    <2>1. requests' = [requests EXCEPT ![r] = Forgotten(r)]
      BY <1>2 DEF EndThread
    <2> QED
      BY <1>1, <1>2, <2>1, ForgottenType, ThreadStep
  <1>3. CASE answer[r] = "open"
    <2>1. PICK o \in Returned(r) : requests' = [requests EXCEPT ![r].thread = o]
      BY <1>3 DEF EndThread
    <2>2. r \notin stopped
      BY <1>3 DEF IInv, Watching, Watched, Answerable, Current
    <2>3. o \in Outcomes /\ o # "cancelled" /\ (o = "modified" => Modified(r))
      BY <2>1, <2>2 DEF Returned, Outcomes
    <2> DEFINE q == [requests[r] EXCEPT !.thread = o]
    <2>4. q \in Request /\ q.token = requests[r].token /\ q.seen = requests[r].seen
          /\ q.uri = requests[r].uri /\ q.thread = o
      BY <2>3 DEF IInv, Types, Request
    <2>5. requests' = [requests EXCEPT ![r] = q]
      BY <2>1
    <2> HIDE DEF q
    <2> QED
      BY <1>1, <2>3, <2>4, <2>5, ThreadStep
  <1> QED
    BY <1>2, <1>3

LEMMA FinishRequestStep ==
  ASSUME IInv, NEW r \in Requests, FinishRequest(r) \/ Drop(r)
  PROVE  IInv' /\ \A o \in Requests : requests'[o].token = requests[o].token
  <1>1. PICK a \in Outcomes : Finish(r, a)
    BY DEF FinishRequest, Drop, Outcomes
  <1>2. UNCHANGED <<phase, documents>>
    BY DEF FinishRequest, Drop, RequestsOnly
  <1> QED
    BY <1>1, <1>2, Finishing

LEMMA CancelStep == ASSUME IInv, NEW r \in Requests, Cancel(r) PROVE IInv'
  BY DEF Cancel, RequestsOnly, documents, IInv, Types, Fresh, Watching, Watched, Answerable, Current

-----------------------------------------------------------------------------
LEMMA StepIInv == IInv /\ [Next]_vars => IInv'
  <1> SUFFICES ASSUME IInv, [Next]_vars PROVE IInv'
    OBVIOUS
  <1>1. CASE Client
    BY <1>1, LifecycleStep, ExitStep, DidOpenOrChangeStep, DidCloseStep, ReanalyseStep, RefuseStep, ReceiveStep,
       CancelStep DEF Client
  <1>2. CASE Server
    BY <1>2, AnalysisStep, StartStep, EndThreadStep, FinishRequestStep DEF Server
  <1>3. CASE UNCHANGED vars
    BY <1>3 DEF vars, documents, IInv, Types, Fresh, Watching, Watched, Answerable, Current
  <1> QED
    BY <1>1, <1>2, <1>3 DEF Next

(* The state the rest follows from: a generation names one snapshot, and a *)
(* request that has seen a view watches the snapshot of the text it is of. *)
THEOREM Invariance == Spec => []IInv
  BY InitIInv, StepIInv, PTL DEF Spec

-----------------------------------------------------------------------------
(* finish_cpu_request sends a result only if the text it was computed from *)
(* is still that of its document, also when the snapshot was replaced      *)
(* while the thread ran.                                                   *)
LEMMA ResultCurrent ==
  ASSUME IInv, [Next]_vars, NEW r \in Requests, answer[r] = "open", answer'[r] = "result"
  PROVE  requests[r].seen[requests[r].uri] \in {0, docs[requests[r].uri].text}
  <1>1. requests[r].token \notin cancelled
    <2>1. answer \in [Requests -> {"unsent", "open", "refused"} \cup Outcomes]
      BY DEF IInv, Types
    <2>2. ASSUME NEW o \in Requests, NEW a, answer' = [answer EXCEPT ![o] = a]
          PROVE  o = r /\ a = "result"
      BY <2>1, <2>2
    <2>3. answer' # answer
      OBVIOUS
    <2>4. CASE \E o \in Requests : FinishRequest(o)
      BY <2>2, <2>4 DEF FinishRequest, Finish, Modified
    <2>5. CASE \E o \in Requests : Start(o)
      BY <2>2, <2>3, <2>5 DEF Start, Finish
    <2>6. CASE \E o \in Requests : Drop(o)
      BY <2>2, <2>6 DEF Drop, Finish
    <2>7. CASE \E o \in Requests : Refuse(o)
      BY <2>2, <2>7 DEF Refuse
    <2>8. CASE \E o \in Requests, u \in Uris : Receive(o, u)
      BY <2>2, <2>8 DEF Receive
    <2> QED
      BY <2>3, <2>4, <2>5, <2>6, <2>7, <2>8
         DEF Next, Client, Server, vars, Initialize, Initialized, Shutdown, Exit, LifecycleOnly, DidOpenOrChange,
             DidClose, Reanalyse, Install, Cancel, StartAnalysis, EndAnalysis, AnalysisCompleted, AnalysisOnly,
             EndThread
  <1> QED
    BY <1>1 DEF IInv, Watching, Watched, Answerable, Current

THEOREM OwnDocument == Spec => OwnDocumentCurrent
  <1>1. IInv /\ [Next]_vars =>
          [\A r \in Requests : answer[r] = "open" /\ answer'[r] = "result" =>
             requests[r].seen[requests[r].uri] \in {0, docs[requests[r].uri].text}]_vars
    BY ResultCurrent
  <1> QED
    BY <1>1, Invariance, PTL DEF Spec, OwnDocumentCurrent

-----------------------------------------------------------------------------
(* RequestService, its fairness apart. *)

Changed == {r \in Requests : requests[r].token \in cancelled}

(* A token is cancelled: the requests that watch it see their document     *)
(* change.                                                                 *)
LEMMA ChangeImplements ==
  ASSUME IInv, Up, Up', UNCHANGED <<answer, withdrawn, requests>>, cancelled \subseteq cancelled', IInv'
  PROVE  RS!Next
  <1>0. PICK R : R = Changed'
    OBVIOUS
  <1>1. R \in SUBSET Requests /\ \A r \in R : answer[r] # "unsent"
    BY <1>0 DEF Changed, IInv, Watching, Watched, Answerable, Current, Types, Fresh
  <1>2. Changed' = Changed \cup R
    BY <1>0 DEF Changed
  <1>3. RS!Change(R)
    BY <1>1, <1>2 DEF RS!Change, Changed
  <1> QED
    BY <1>1, <1>3 DEF RS!Next

LEMMA AnswerImplements ==
  ASSUME IInv, Up, Up', NEW r \in Requests, answer[r] = "open",
         NEW a \in RS!Permitted(r), answer' = [answer EXCEPT ![r] = a],
         UNCHANGED <<withdrawn, cancelled>>, \A o \in Requests : requests'[o].token = requests[o].token
  PROVE  RS!Next
  <1>1. Changed' = Changed
    BY DEF Changed
  <1>2. RS!Answer(r)
    BY <1>1 DEF RS!Answer, Changed
  <1> QED
    BY <1>2 DEF RS!Next

LEMMA StepImplements == IInv /\ [Next]_vars => [RS!Next]_(RS!vars)
  <1> SUFFICES ASSUME IInv, Next PROVE RS!Next \/ UNCHANGED <<answer, withdrawn, Changed, Up>>
    BY DEF vars, documents, RS!vars, Changed, Up
  <1>0. IInv'
    BY StepIInv
  <1>1. CASE Initialize \/ Initialized
    BY <1>1 DEF Initialize, Initialized, LifecycleOnly, documents, Changed, Up
  <1>2. CASE Shutdown
    BY <1>0, <1>2, ChangeImplements, LifecycleStep DEF Shutdown, Up
  <1>3. CASE Exit
    <2>1. Changed' = Changed /\ Up /\ ~Up' /\ UNCHANGED <<answer, withdrawn>>
      BY <1>3, ForgottenType DEF Exit, Changed, Up
    <2>2. RS!Exit
      BY <2>1 DEF RS!Exit, Changed, Up
    <2> QED
      BY <2>2 DEF RS!Next
  <1>4. ASSUME NEW u \in Uris, DidOpenOrChange(u) \/ DidClose(u) PROVE RS!Next
    BY <1>0, <1>4, ChangeImplements, DidOpenOrChangeStep, DidCloseStep DEF DidOpenOrChange, DidClose, Install, Up
  <1>5. ASSUME NEW U \in SUBSET Uris, Reanalyse(U) PROVE RS!Next
    BY <1>0, <1>5, ChangeImplements, ReanalyseStep DEF Reanalyse, Install, Up
  <1>6. ASSUME NEW r \in Requests, Refuse(r) PROVE RS!Next
    <2>1. Up /\ Up' /\ Changed' = Changed
      BY <1>6 DEF Refuse, RequestsOnly, documents, Changed, Up
    <2>2. RS!Receive(r, "refused")
      BY <1>6, <2>1 DEF Refuse, RS!Receive, Changed
    <2> QED
      BY <2>2 DEF RS!Next
  <1>7. ASSUME NEW r \in Requests, NEW u \in Uris, Receive(r, u) PROVE RS!Next
    <2>1. /\ Up /\ Up' /\ answer[r] = "unsent" /\ answer' = [answer EXCEPT ![r] = "open"]
          /\ UNCHANGED <<withdrawn, cancelled>>
          /\ \A o \in Requests \ {r} : requests'[o] = requests[o]
      BY <1>7 DEF Receive, RequestsOnly, documents, Up, IInv, Types
    <2>2. requests[r].token \notin cancelled /\ requests'[r].token \notin cancelled
      BY <1>7, <2>1, ReceiveStep DEF IInv, Fresh, Watching, Watched, Answerable, Current, Types
    <2>3. Changed' = Changed
      BY <2>1, <2>2 DEF Changed
    <2>4. RS!Receive(r, "open")
      BY <2>1, <2>3 DEF RS!Receive, Changed
    <2> QED
      BY <2>4 DEF RS!Next
  <1>8. ASSUME NEW r \in Requests, Cancel(r) PROVE RS!Next
    <2>1. RS!Withdraw(r)
      BY <1>8 DEF Cancel, RequestsOnly, documents, RS!Withdraw, Up
    <2> QED
      BY <2>1 DEF RS!Next
  <1>9. ASSUME NEW u \in Uris, StartAnalysis(u) \/ EndAnalysis(u) \/ AnalysisCompleted(u)
        PROVE  UNCHANGED <<answer, withdrawn, Changed, Up>>
    BY <1>9, AnalysisStep DEF Changed, Up
  <1>10. ASSUME NEW r \in Requests, Start(r)
         PROVE  RS!Next \/ UNCHANGED <<answer, withdrawn, Changed, Up>>
    <2>1. UNCHANGED <<withdrawn, cancelled, phase>> /\ \A o \in Requests : requests'[o].token = requests[o].token
      BY <1>10, StartStep DEF Start, RequestsOnly, documents
    <2>2. CASE answer' = answer
      BY <2>1, <2>2 DEF Changed, Up
    <2>3. CASE answer' # answer
      <3>1. Modified(r) /\ Up /\ r \notin withdrawn /\ answer' = [answer EXCEPT ![r] = "modified"]
        BY <1>10, <2>3 DEF Start, Finish
      <3>2. "modified" \in RS!Permitted(r)
        BY <3>1 DEF RS!Permitted, Modified
      <3>3. Up' /\ answer[r] = "open"
        BY <1>10, <2>1, <3>1 DEF Up, Start, IInv, Types
      <3> QED
        BY <2>1, <3>1, <3>2, <3>3, AnswerImplements
    <2> QED
      BY <2>2, <2>3
  <1>11. ASSUME NEW r \in Requests, EndThread(r) PROVE UNCHANGED <<answer, withdrawn, Changed, Up>>
    BY <1>11, EndThreadStep DEF EndThread, RequestsOnly, documents, Changed, Up
  <1>12. ASSUME NEW r \in Requests, FinishRequest(r) \/ Drop(r) PROVE RS!Next
    <2>1. /\ UNCHANGED <<withdrawn, cancelled, phase>> /\ Up /\ answer[r] = "open"
          /\ \A o \in Requests : requests'[o].token = requests[o].token
      BY <1>12, FinishRequestStep DEF FinishRequest, Drop, RequestsOnly, documents
    <2>2. CASE Drop(r)
      BY <2>1, <2>2, AnswerImplements DEF Drop, Finish, RS!Permitted, Up
    <2>3. CASE FinishRequest(r)
      <3>1. Modified(r) \/ requests[r].thread \in {"result", "failed"}
        BY <2>3 DEF FinishRequest, Outcomes, IInv, Watching, Watched, Answerable, Current, Modified
      <3>2. PICK a \in RS!Permitted(r) : answer' = [answer EXCEPT ![r] = a]
        BY <2>3, <3>1 DEF FinishRequest, Finish, RS!Permitted, Modified
      <3> QED
        BY <2>1, <3>2, AnswerImplements DEF Up
    <2> QED
      BY <1>12, <2>2, <2>3
  <1> QED
    BY <1>1, <1>2, <1>3, <1>4, <1>5, <1>6, <1>7, <1>8, <1>9, <1>10, <1>11, <1>12 DEF Next, Client, Server

(* Requests, changes, cancellations and the shutdown in any order: a       *)
(* request is answered at most once and as RequestService permits.         *)
THEOREM AnswersAsPromised == Spec => RS!Init /\ [][RS!Next]_(RS!vars)
  <1>1. Init => RS!Init
    BY RequestAssumption DEF Init, RS!Init, Up, Unsent
  <1> QED
    BY <1>1, StepImplements, Invariance, PTL DEF Spec
-----------------------------------------------------------------------------
(* The queue and the permits. *)

Waiting ==
  {u \in Uris : tasks[u] \in {"waiting", "queued"}}
    \cup {r \in Requests : answer[r] = "open" /\ requests[r].thread = "none"}

Once(q) == \A i, j \in DOMAIN q : q[i] = q[j] => i = j

QueueTypes ==
  /\ tasks \in [Uris -> Rounds \cup {"none"}]
  /\ stopped \subseteq Requests
  /\ withdrawn \subseteq Requests
  /\ queue \in Seq(Uris \cup Requests)
  /\ available \in Nat

Served == Once(queue) /\ (Up => Range(queue) = Waiting)

(* A request that was not sent has no thread, so that no thread is         *)
(* forgotten when it is received.                                          *)
Unstarted == \A r \in Requests : answer[r] = "unsent" => requests[r].thread # "running"

QInv == IInv /\ QueueTypes /\ Served /\ PermitsConserved /\ Unstarted

(* Leaving the queue keeps the others in it, each once.                    *)
LEMMA Forgetting ==
  ASSUME NEW S, queue \in Seq(S), Once(queue), NEW W
  PROVE  Forget(W) \in Seq(S) /\ Once(Forget(W)) /\ Range(Forget(W)) = Range(queue) \ W
  <1> DEFINE kept == {i \in DOMAIN queue : queue[i] \notin W}
             upTo(i) == {k \in kept : k <= i}
             C == Cardinality(kept)
             place == [i \in kept |-> Cardinality(upTo(i))]
             at(j) == CHOOSE i \in kept : Cardinality(upTo(i)) = j
  <1>1. IsFiniteSet(kept) /\ C \in Nat /\ kept \subseteq Nat
    <2>1. Len(queue) \in Nat /\ kept \subseteq 1..Len(queue) /\ IsFiniteSet(1..Len(queue))
      BY FS_Interval
    <2>2. IsFiniteSet(kept)
      BY <2>1, FS_Subset
    <2> QED
      BY <2>1, <2>2, FS_CardinalityType
  <1>2. Forget(W) = [j \in 1..C |-> queue[at(j)]]
    BY DEF Forget
  <1> HIDE DEF C
  <1>3. \A i \in kept : /\ upTo(i) \subseteq kept /\ IsFiniteSet(upTo(i)) /\ i \in upTo(i)
                        /\ place[i] = Cardinality(upTo(i)) /\ place[i] \in 1..C
    <2> SUFFICES ASSUME NEW i \in kept
                 PROVE  IsFiniteSet(upTo(i)) /\ i \in upTo(i) /\ Cardinality(upTo(i)) \in 1..C
      OBVIOUS
    <2>1. i \in upTo(i) /\ upTo(i) \subseteq kept
      BY <1>1
    <2> HIDE DEF upTo, kept
    <2>2. IsFiniteSet(upTo(i)) /\ Cardinality(upTo(i)) <= C
      BY <1>1, <2>1, FS_Subset DEF C
    <2>3. Cardinality(upTo(i)) \in Nat /\ Cardinality(upTo(i)) # 0
      BY <2>1, <2>2, FS_CardinalityType, FS_EmptySet
    <2> QED
      BY <1>1, <2>1, <2>2, <2>3
  <1>4. ASSUME NEW i \in kept, NEW j \in kept, i < j PROVE place[i] # place[j]
    <2>1. upTo(i) \subseteq upTo(j) /\ j \in upTo(j) /\ j \notin upTo(i)
      BY <1>1, <1>4
    <2> HIDE DEF upTo, place, kept
    <2> QED
      BY <1>3, <2>1, FS_Subset
  <1> HIDE DEF place
  <1>5. \A i, j \in kept : place[i] = place[j] => i = j
    BY <1>1, <1>4
  <1>6. \A j \in 1..C : at(j) \in kept /\ place[at(j)] = j
    <2>1. place \in Injection(kept, 1..C)
      BY <1>3, <1>5 DEF place, Injection, IsInjective
    <2>2. IsFiniteSet(1..C) /\ Cardinality(1..C) = C
      BY <1>1, FS_Interval
    <2>3. place \in Surjection(kept, 1..C)
      BY <2>1, <2>2, FS_Injection DEF C
    <2>4. \A j \in 1..C : \E i \in kept : place[i] = j
      BY <2>3 DEF Surjection
    <2> HIDE DEF kept, upTo
    <2>5. \A j \in 1..C : \E i \in kept : Cardinality(upTo(i)) = j
      BY <1>3, <2>4
    <2>6. \A j \in 1..C : at(j) \in kept /\ Cardinality(upTo(at(j))) = j
      BY <2>5
    <2> QED
      BY <1>3, <2>6
  <1>7. \A i \in kept : at(place[i]) = i
    <2> HIDE DEF kept, upTo, at
    <2> QED
      BY <1>3, <1>5, <1>6
  <1> HIDE DEF at
  <1>8. \A i \in kept : i \in DOMAIN queue /\ queue[i] \notin W /\ queue[i] \in S
    OBVIOUS
  <1>9. \A i \in DOMAIN queue : queue[i] \notin W => i \in kept
    OBVIOUS
  <1> HIDE DEF kept, upTo
  <1>a. Forget(W) \in Seq(S) /\ DOMAIN Forget(W) = 1..C
    <2>1. Forget(W) \in [1..C -> S]
      BY <1>2, <1>6, <1>8
    <2> QED
      BY <1>1, <2>1
  <1>b. Once(Forget(W))
    BY <1>2, <1>6, <1>8, <1>a DEF Once
  <1>c. Range(Forget(W)) = Range(queue) \ W
    BY <1>2, <1>3, <1>6, <1>7, <1>8, <1>9, <1>a DEF Range
  <1> QED
    BY <1>a, <1>b, <1>c

(* Joining the queue at its end, and being served at its head.             *)
LEMMA Joining ==
  ASSUME NEW S, NEW q \in Seq(S), Once(q), NEW w \in S, w \notin Range(q)
  PROVE  Append(q, w) \in Seq(S) /\ Once(Append(q, w)) /\ Range(Append(q, w)) = Range(q) \cup {w}
  <1>1. /\ Append(q, w) \in Seq(S) /\ Len(q) \in Nat /\ DOMAIN q = 1..Len(q)
        /\ DOMAIN Append(q, w) = 1..(Len(q) + 1) /\ Append(q, w)[Len(q) + 1] = w
        /\ \A i \in 1..Len(q) : Append(q, w)[i] = q[i]
    OBVIOUS
  <1>2. Once(Append(q, w))
    BY <1>1 DEF Once, Range
  <1>3. Range(Append(q, w)) = Range(q) \cup {w}
    BY <1>1 DEF Range
  <1> QED
    BY <1>1, <1>2, <1>3

LEMMA Serving ==
  ASSUME NEW S, NEW q \in Seq(S), Once(q), q # <<>>
  PROVE  /\ Tail(q) \in Seq(S) /\ Once(Tail(q)) /\ Range(Tail(q)) = Range(q) \ {Head(q)}
         /\ Head(q) \in Range(q)
  <1>1. /\ Tail(q) \in Seq(S) /\ Len(q) \in Nat /\ Len(q) >= 1 /\ DOMAIN q = 1..Len(q)
        /\ Head(q) = q[1] /\ DOMAIN Tail(q) = 1..(Len(q) - 1)
        /\ \A i \in 1..(Len(q) - 1) : Tail(q)[i] = q[i + 1]
    OBVIOUS
  <1>2. Once(Tail(q))
    BY <1>1 DEF Once
  <1>3. Range(Tail(q)) \subseteq Range(q) \ {Head(q)}
    BY <1>1 DEF Once, Range
  <1>4. ASSUME NEW w \in Range(q) \ {Head(q)} PROVE w \in Range(Tail(q))
    <2>1. PICK i \in 1..Len(q) : q[i] = w
      BY <1>1, <1>4 DEF Range
    <2>2. i - 1 \in 1..(Len(q) - 1) /\ Tail(q)[i - 1] = w
      BY <1>1, <1>4, <2>1
    <2> QED
      BY <1>1, <2>2 DEF Range
  <1>5. Head(q) \in Range(q)
    BY <1>1 DEF Range
  <1> QED
    BY <1>1, <1>2, <1>3, <1>4, <1>5

LEMMA Following ==
  ASSUME NEW S, NEW q \in Seq(S), Once(q), NEW o \in Seq(S), Once(o), Range(q) \cap Range(o) = {}
  PROVE  q \o o \in Seq(S) /\ Once(q \o o) /\ Range(q \o o) = Range(q) \cup Range(o)
  <1>1. /\ q \o o \in Seq(S) /\ Len(q) \in Nat /\ Len(o) \in Nat
        /\ DOMAIN q = 1..Len(q) /\ DOMAIN o = 1..Len(o) /\ DOMAIN (q \o o) = 1..(Len(q) + Len(o))
        /\ \A i \in 1..(Len(q) + Len(o)) : (q \o o)[i] = IF i <= Len(q) THEN q[i] ELSE o[i - Len(q)]
    OBVIOUS
  <1>2. \A i \in 1..(Len(q) + Len(o)) :
          \/ i \in DOMAIN q /\ (q \o o)[i] = q[i] /\ (q \o o)[i] \in Range(q)
          \/ i - Len(q) \in DOMAIN o /\ (q \o o)[i] = o[i - Len(q)] /\ (q \o o)[i] \in Range(o)
    BY <1>1 DEF Range
  <1>3. Once(q \o o)
    <2> SUFFICES ASSUME NEW i \in 1..(Len(q) + Len(o)), NEW j \in 1..(Len(q) + Len(o)),
                        (q \o o)[i] = (q \o o)[j]
                 PROVE  i = j
      BY <1>1 DEF Once
    <2>1. CASE (q \o o)[i] \in Range(q)
      BY <1>2, <2>1 DEF Once
    <2>2. CASE (q \o o)[i] \in Range(o)
      <3>1. i - Len(q) = j - Len(q)
        BY <1>2, <2>2 DEF Once
      <3> QED
        BY <1>1, <3>1
    <2> QED
      BY <1>2, <2>1, <2>2
  <1>4. Range(q \o o) = Range(q) \cup Range(o)
    <2>1. ASSUME NEW w \in Range(q \o o) PROVE w \in Range(q) \cup Range(o)
      BY <1>1, <1>2 DEF Range
    <2>2. ASSUME NEW w \in Range(q) PROVE w \in Range(q \o o)
      BY <1>1 DEF Range
    <2>3. ASSUME NEW w \in Range(o) PROVE w \in Range(q \o o)
      <3>1. PICK i \in 1..Len(o) : o[i] = w
        BY <1>1 DEF Range
      <3>2. Len(q) + i \in 1..(Len(q) + Len(o)) /\ (q \o o)[Len(q) + i] = w
        BY <1>1, <3>1
      <3> QED
        BY <1>1, <3>2 DEF Range
    <2> QED
      BY <2>1, <2>2, <2>3
  <1> QED
    BY <1>1, <1>3, <1>4

-----------------------------------------------------------------------------
LEMMA Counting ==
  ASSUME QInv
  PROVE  /\ IsFiniteSet(Threads) /\ Cardinality(Threads) \in Nat
         /\ IsFiniteSet(Holding(Uris)) /\ Cardinality(Holding(Uris)) \in Nat
         /\ available \in Nat /\ MaxAnalyses \in Nat
         /\ available + Cardinality(Threads) + Cardinality(Holding(Uris)) = MaxAnalyses
  <1>1. Threads \subseteq Requests /\ Holding(Uris) \subseteq Uris
    BY DEF Threads, Holding
  <1>2. IsFiniteSet(Threads) /\ IsFiniteSet(Holding(Uris))
    BY <1>1, RequestAssumption, FS_Subset
  <1> QED
    BY <1>2, RequestAssumption, FS_CardinalityType DEF QInv, QueueTypes, PermitsConserved

LEMMA InitQInv == ASSUME Init PROVE QInv
  <1>1. IInv
    BY InitIInv
  <1>2. QueueTypes /\ Unstarted
    BY RequestAssumption DEF Init, QueueTypes, Unstarted, Unsent
  <1>3. Range(queue) = {} /\ Once(queue) /\ Waiting = {}
    BY DEF Init, Range, Once, Waiting
  <1>4. Threads = {} /\ Holding(Uris) = {}
    BY DEF Init, Threads, Holding, Unsent
  <1>5. PermitsConserved
    BY <1>4, RequestAssumption, FS_EmptySet DEF Init, PermitsConserved
  <1> QED
    BY <1>1, <1>2, <1>3, <1>5 DEF QInv, Served

(* The tasks of W are dropped: their permits come back.                    *)
LEMMA Dropping ==
  ASSUME QInv, NEW W \in SUBSET Uris, available' = available + Cardinality(Holding(W)),
         \A u \in W : tasks'[u] \in {"waiting", "none"},
         \A u \in Uris \ W : tasks'[u] = tasks[u], UNCHANGED requests
  PROVE  available' \in Nat /\ PermitsConserved'
  <1>1. Holding(Uris)' = Holding(Uris) \ Holding(W) /\ Holding(Uris) \cap Holding(W) = Holding(W)
    BY DEF Holding
  <1>2. Threads' = Threads
    BY DEF Threads
  <1>3. Cardinality(Holding(Uris)') = Cardinality(Holding(Uris)) - Cardinality(Holding(W))
    <2>1. \A H, G : IsFiniteSet(H) /\ H \cap G = G => Cardinality(H \ G) = Cardinality(H) - Cardinality(G)
      BY FS_Difference
    <2>2. Cardinality(Holding(Uris) \ Holding(W)) = Cardinality(Holding(Uris)) - Cardinality(Holding(W))
      BY <1>1, <2>1, Counting
    <2> QED
      BY <1>1, <2>2
  <1>4. Cardinality(Holding(W)) \in Nat
    BY <1>1, Counting, FS_Subset, FS_CardinalityType
  <1> QED
    BY <1>2, <1>3, <1>4, Counting DEF PermitsConserved

(* One document's task takes a permit or gives it back.                    *)
LEMMA Tasking ==
  ASSUME QInv, NEW u \in Uris, UNCHANGED requests, NEW t \in Rounds \cup {"none"},
         tasks' = [tasks EXCEPT ![u] = t],
         available' = available + (IF u \in Holding(Uris) THEN 1 ELSE 0)
                                - (IF t \in {"processing", "validating"} THEN 1 ELSE 0),
         t \in {"processing", "validating"} => available > 0
  PROVE  available' \in Nat /\ tasks' \in [Uris -> Rounds \cup {"none"}] /\ PermitsConserved'
  <1> DEFINE Others == Holding(Uris) \ {u}
  <1>1. tasks \in [Uris -> Rounds \cup {"none"}]
    BY DEF QInv, QueueTypes
  <1>2. Holding(Uris)' = IF t \in {"processing", "validating"} THEN Others \cup {u} ELSE Others
    BY <1>1 DEF Holding
  <1>3. IsFiniteSet(Others) /\ Cardinality(Others) \in Nat
        /\ Cardinality(Others) = Cardinality(Holding(Uris)) - (IF u \in Holding(Uris) THEN 1 ELSE 0)
    BY Counting, FS_RemoveElement, FS_CardinalityType
  <1>4. u \notin Others
    OBVIOUS
  <1> HIDE DEF Others
  <1>5. Cardinality(Others \cup {u}) = Cardinality(Others) + 1
    BY <1>3, <1>4, FS_AddElement
  <1>6. Threads' = Threads
    BY DEF Threads
  <1>7. tasks' \in [Uris -> Rounds \cup {"none"}]
    BY <1>1
  <1>8. available' \in Nat
    BY Counting
  <1>9. available' + Cardinality(Threads) + Cardinality(Holding(Uris)') = MaxAnalyses
    <2>1. CASE t \in {"processing", "validating"}
      BY <1>2, <1>3, <1>5, <2>1, Counting
    <2>2. CASE t \notin {"processing", "validating"}
      BY <1>2, <1>3, <2>2, Counting
    <2> QED
      BY <2>1, <2>2
  <1> QED
    BY <1>6, <1>7, <1>8, <1>9 DEF PermitsConserved

(* One request's thread takes a permit or gives it back.                   *)
LEMMA Threading ==
  ASSUME QInv, NEW r \in Requests, UNCHANGED tasks, NEW q \in Request,
         requests' = [requests EXCEPT ![r] = q],
         available' = available + (IF requests[r].thread = "running" THEN 1 ELSE 0)
                                - (IF q.thread = "running" THEN 1 ELSE 0),
         q.thread = "running" => available > 0 \/ requests[r].thread = "running"
  PROVE  available' \in Nat /\ PermitsConserved'
  <1> DEFINE Others == Threads \ {r}
  <1>1. requests'[r] = q /\ \A o \in Requests \ {r} : requests'[o] = requests[o]
    BY DEF QInv, IInv, Types
  <1>2. Threads' = IF q.thread = "running" THEN Others \cup {r} ELSE Others
    BY <1>1 DEF Threads
  <1>3. IsFiniteSet(Others) /\ Cardinality(Others) \in Nat
        /\ Cardinality(Others) = Cardinality(Threads) - (IF requests[r].thread = "running" THEN 1 ELSE 0)
    <2>1. r \in Threads <=> requests[r].thread = "running"
      BY DEF Threads
    <2> QED
      BY <2>1, Counting, FS_RemoveElement, FS_CardinalityType
  <1>4. r \notin Others
    OBVIOUS
  <1> HIDE DEF Others
  <1>5. Cardinality(Others \cup {r}) = Cardinality(Others) + 1
    BY <1>3, <1>4, FS_AddElement
  <1>6. Holding(Uris)' = Holding(Uris)
    BY DEF Holding
  <1>7. available' \in Nat
    BY Counting
  <1>8. available' + Cardinality(Threads') + Cardinality(Holding(Uris)) = MaxAnalyses
    <2>1. CASE q.thread = "running"
      BY <1>2, <1>3, <1>5, <2>1, Counting
    <2>2. CASE q.thread # "running"
      BY <1>2, <1>3, <2>2, Counting
    <2> QED
      BY <2>1, <2>2
  <1> QED
    BY <1>6, <1>7, <1>8 DEF PermitsConserved

LEMMA WhoWaits ==
  ASSUME Uris \cap Requests = {}
  PROVE  /\ Waiting \subseteq Uris \cup Requests
         /\ \A u \in Uris : u \in Waiting <=> tasks[u] \in {"waiting", "queued"}
         /\ \A r \in Requests : r \in Waiting <=> answer[r] = "open" /\ requests[r].thread = "none"
  BY DEF Waiting

LEMMA WhoWaitsNext ==
  ASSUME Uris \cap Requests = {}
  PROVE  /\ Waiting' \subseteq Uris \cup Requests
         /\ \A u \in Uris : u \in Waiting' <=> tasks'[u] \in {"waiting", "queued"}
         /\ \A r \in Requests : r \in Waiting' <=> answer'[r] = "open" /\ requests'[r].thread = "none"
  BY DEF Waiting

QRest == QueueTypes /\ Served /\ PermitsConserved /\ Unstarted

LEMMA BatchOrder ==
  ASSUME NEW U \in SUBSET Uris
  PROVE  /\ SetToSeq(U) \in Seq(Uris \cup Requests) /\ Once(SetToSeq(U))
         /\ Range(SetToSeq(U)) = U
  <1>1. /\ Cardinality(U) \in Nat /\ SetToSeq(U) \in [1..Cardinality(U) -> U]
        /\ IsInjective(SetToSeq(U))
    BY Batch
  <1>2. SetToSeq(U) \in Seq(U)
    BY <1>1
  <1>3. Once(SetToSeq(U))
    BY <1>1 DEF Once, IsInjective
  <1>4. \A u \in U : \E i \in 1..Cardinality(U) : SetToSeq(U)[i] = u
    BY Batch
  <1>5. DOMAIN SetToSeq(U) = 1..Cardinality(U)
    BY <1>1
  <1> QED
    BY <1>1, <1>2, <1>3, <1>4, <1>5 DEF Range

LEMMA InstallQueue ==
  ASSUME QInv, Up, NEW d, NEW U \in SUBSET Uris, NEW gone \in SUBSET Uris, Install(d, U, gone)
  PROVE  QRest'
  <1> DEFINE W == U \cup gone
  <1>1. /\ tasks' = [u \in Uris |-> IF u \in U THEN "waiting" ELSE IF u \in gone THEN "none" ELSE tasks[u]]
        /\ queue' = Forget(W) \o SetToSeq(U)
        /\ available' = available + Cardinality(Holding(W))
        /\ UNCHANGED <<phase, requests, stopped, withdrawn, answer>>
    BY DEF Install
  <1> HIDE DEF W
  <1>2. /\ Forget(W) \in Seq(Uris \cup Requests) /\ Once(Forget(W)) /\ Range(Forget(W)) = Range(queue) \ W
    BY Forgetting DEF QInv, QueueTypes, Served
  <1>3. Range(Forget(W)) \cap Range(SetToSeq(U)) = {}
    BY <1>2, BatchOrder DEF W
  <1>4. /\ queue' \in Seq(Uris \cup Requests) /\ Once(queue')
        /\ Range(queue') = (Range(queue) \ W) \cup U
    BY <1>1, <1>2, <1>3, BatchOrder, Following
  <1>5. tasks' \in [Uris -> Rounds \cup {"none"}]
    BY <1>1 DEF QInv, QueueTypes, Rounds
  <1>6. W \in SUBSET Uris /\ \A u \in W : tasks'[u] \in {"waiting", "none"}
    BY <1>1 DEF W
  <1>7. \A u \in Uris \ W : tasks'[u] = tasks[u]
    BY <1>1 DEF W
  <1>8. available' \in Nat /\ PermitsConserved'
    BY <1>1, <1>6, <1>7, Dropping
  <1>9. Range(queue) = Waiting /\ Uris \cap Requests = {}
    BY RequestAssumption DEF QInv, Served
  <1>10. \A u \in Uris : u \in Waiting' <=> u \in (Waiting \ W) \cup U
    BY <1>1, <1>9, WhoWaits, WhoWaitsNext DEF W
  <1>11. \A r \in Requests : r \in Waiting' <=> r \in (Waiting \ W) \cup U
    BY <1>1, <1>6, <1>9, WhoWaits, WhoWaitsNext
  <1>12. Waiting' = (Waiting \ W) \cup U
    BY <1>9, <1>10, <1>11, WhoWaits, WhoWaitsNext
  <1> QED
    BY <1>1, <1>4, <1>5, <1>8, <1>9, <1>12 DEF QRest, QInv, QueueTypes, Served, Unstarted

LEMMA ShutdownQueue == ASSUME QInv, Shutdown PROVE QRest'
  <1>1. /\ tasks' = [u \in Uris |-> "none"] /\ queue' = Forget(Uris) /\ phase = "Ready"
        /\ available' = available + Cardinality(Holding(Uris))
        /\ UNCHANGED <<requests, stopped, withdrawn, answer>>
    BY DEF Shutdown
  <1>2. /\ queue' \in Seq(Uris \cup Requests) /\ Once(queue') /\ Range(queue') = Range(queue) \ Uris
    BY <1>1, Forgetting DEF QInv, QueueTypes, Served
  <1>3. available' \in Nat /\ PermitsConserved'
    BY <1>1, Dropping
  <1>4. Range(queue) = Waiting /\ Uris \cap Requests = {}
    BY <1>1, RequestAssumption DEF QInv, Served, Up
  <1>5. Waiting' = Waiting \ Uris
    BY <1>1, <1>4, WhoWaits, WhoWaitsNext
  <1> QED
    BY <1>1, <1>2, <1>3, <1>4, <1>5 DEF QRest, QInv, QueueTypes, Served, Unstarted

LEMMA ExitQueue == ASSUME QInv, Exit PROVE QRest'
  <1>1. /\ phase' = "Exited" /\ tasks' = [u \in Uris |-> "none"] /\ queue' = <<>> /\ available' = MaxAnalyses
        /\ requests' = [r \in Requests |-> Forgotten(r)] /\ UNCHANGED <<stopped, withdrawn, answer>>
    BY DEF Exit
  <1>2. Threads' = {}
    BY <1>1, ForgottenType DEF Threads, QInv
  <1>3. Holding(Uris)' = {}
    BY <1>1 DEF Holding
  <1>4. PermitsConserved'
    BY <1>1, <1>2, <1>3, RequestAssumption, FS_EmptySet DEF PermitsConserved
  <1>5. Unstarted'
    BY <1>1, ForgottenType DEF Unstarted, QInv
  <1> QED
    BY <1>1, <1>4, <1>5, RequestAssumption DEF QRest, QInv, QueueTypes, Served, Up, Once

LEMMA AnalysisQueue ==
  ASSUME QInv, NEW u \in Uris, StartAnalysis(u) \/ EndAnalysis(u) \/ AnalysisCompleted(u)
  PROVE  QRest'
  <1>1. UNCHANGED <<phase, requests, stopped, withdrawn, answer>> /\ Up
    BY DEF StartAnalysis, EndAnalysis, AnalysisCompleted, AnalysisOnly
  <1>2. Range(queue) = Waiting /\ Uris \cap Requests = {}
    BY <1>1, RequestAssumption DEF QInv, Served
  <1>3. \A r \in Requests : r \in Waiting' <=> r \in Waiting
    BY <1>1, <1>2, WhoWaits, WhoWaitsNext
  <1>4. /\ tasks \in [Uris -> Rounds \cup {"none"}] /\ queue \in Seq(Uris \cup Requests) /\ Once(queue)
    BY DEF QInv, QueueTypes, Served
  <1>5. SUFFICES /\ available' \in Nat /\ tasks' \in [Uris -> Rounds \cup {"none"}] /\ PermitsConserved'
                 /\ queue' \in Seq(Uris \cup Requests) /\ Once(queue') /\ Range(queue') = Waiting'
    BY <1>1 DEF QRest, QInv, QueueTypes, Served, Unstarted
  <1>6. CASE StartAnalysis(u)
    <2>1. /\ queue # <<>> /\ Head(queue) = u /\ queue' = Tail(queue) /\ available > 0 /\ available' = available - 1
          /\ tasks' = [tasks EXCEPT ![u] = IF tasks[u] = "waiting" THEN "processing" ELSE "validating"]
      BY <1>6 DEF StartAnalysis
    <2>2. /\ queue' \in Seq(Uris \cup Requests) /\ Once(queue') /\ Range(queue') = Range(queue) \ {u}
          /\ u \in Range(queue)
      BY <1>4, <2>1, Serving
    <2>3. tasks[u] \in {"waiting", "queued"}
      BY <1>2, <2>2, WhoWaits
    <2>4. u \notin Holding(Uris)
      BY <2>3 DEF Holding
    <2>5. available' \in Nat /\ tasks' \in [Uris -> Rounds \cup {"none"}] /\ PermitsConserved'
      <3>1. PICK t \in {"processing", "validating"} : tasks' = [tasks EXCEPT ![u] = t]
        BY <2>1
      <3>2. t \in Rounds
        BY DEF Rounds
      <3>3. available' = available + 0 - 1
        BY <2>1, Counting
      <3> QED
        BY <1>1, <2>1, <2>4, <3>1, <3>2, <3>3, Tasking
    <2>6. \A v \in Uris : v \in Waiting' <=> v \in Waiting \ {u}
      BY <1>2, <1>4, <2>1, WhoWaits, WhoWaitsNext
    <2>7. Waiting' = Waiting \ {u}
      BY <1>2, <1>3, <2>6, WhoWaits, WhoWaitsNext
    <2> QED
      BY <1>2, <2>2, <2>5, <2>7
  <1>7. CASE EndAnalysis(u)
    <2>1. /\ u \in Holding(Uris) /\ available' = available + 1 /\ UNCHANGED queue
          /\ tasks' = [tasks EXCEPT ![u] = IF tasks[u] = "processing" THEN "processed" ELSE "validated"]
      BY <1>7 DEF EndAnalysis
    <2>2. PICK t \in {"processed", "validated"} : tasks' = [tasks EXCEPT ![u] = t]
      BY <2>1
    <2>3. t \in Rounds /\ available' = available + 1 - 0
      BY <2>1, Counting DEF Rounds
    <2>4. available' \in Nat /\ tasks' \in [Uris -> Rounds \cup {"none"}] /\ PermitsConserved'
      BY <1>1, <2>1, <2>2, <2>3, Tasking
    <2>5. tasks[u] \notin {"waiting", "queued"}
      BY <2>1 DEF Holding
    <2>6. \A v \in Uris : v \in Waiting' <=> v \in Waiting
      BY <1>2, <1>4, <2>2, <2>5, WhoWaits, WhoWaitsNext
    <2> QED
      BY <1>2, <1>3, <1>4, <2>1, <2>4, <2>6, WhoWaits, WhoWaitsNext
  <1>8. CASE AnalysisCompleted(u)
    <2>1. PICK t \in {"queued", "none"} :
            /\ tasks' = [tasks EXCEPT ![u] = t] /\ tasks[u] \in {"processed", "validated"}
            /\ queue' = IF t = "queued" THEN Append(queue, u) ELSE queue
            /\ UNCHANGED available
      BY <1>8 DEF AnalysisCompleted
    <2>2. t \in Rounds \cup {"none"} /\ u \notin Holding(Uris) /\ available' = available + 0 - 0
      BY <2>1, Counting DEF Rounds, Holding
    <2>3. available' \in Nat /\ tasks' \in [Uris -> Rounds \cup {"none"}] /\ PermitsConserved'
      BY <1>1, <2>1, <2>2, Tasking
    <2>4. u \notin Range(queue)
      BY <1>2, <2>1, WhoWaits
    <2>5. /\ queue' \in Seq(Uris \cup Requests) /\ Once(queue')
          /\ Range(queue') = Range(queue) \cup IF t = "queued" THEN {u} ELSE {}
      BY <1>4, <2>1, <2>4, Joining
    <2>6. \A v \in Uris : v \in Waiting' <=> v \in Waiting \cup IF t = "queued" THEN {u} ELSE {}
      BY <1>2, <1>4, <2>1, WhoWaits, WhoWaitsNext
    <2>7. Waiting' = Waiting \cup IF t = "queued" THEN {u} ELSE {}
      BY <1>2, <1>3, <2>6, WhoWaits, WhoWaitsNext
    <2> QED
      BY <1>2, <2>3, <2>5, <2>7
  <1> QED
    BY <1>6, <1>7, <1>8

(* One request's answer, token or place changes with its thread.           *)
LEMMA RequestQueue ==
  ASSUME QInv, Up, NEW r \in Requests, NEW q \in Request, NEW a \in {"unsent", "open", "refused"} \cup Outcomes,
         UNCHANGED <<phase, tasks, withdrawn>>, stopped' \subseteq stopped \cup {r},
         requests' = [requests EXCEPT ![r] = q], answer' = [answer EXCEPT ![r] = a],
         a = "unsent" => q.thread # "running",
         queue' \in Seq(Uris \cup Requests), Once(queue'),
         Range(queue') = (Range(queue) \ {r}) \cup IF a = "open" /\ q.thread = "none" THEN {r} ELSE {},
         available' = available + (IF requests[r].thread = "running" THEN 1 ELSE 0)
                                - (IF q.thread = "running" THEN 1 ELSE 0),
         q.thread = "running" => available > 0 \/ requests[r].thread = "running"
  PROVE  QRest'
  <1>1. available' \in Nat /\ PermitsConserved'
    BY Threading
  <1>2. /\ requests'[r] = q /\ \A o \in Requests \ {r} : requests'[o] = requests[o]
        /\ answer'[r] = a /\ \A o \in Requests \ {r} : answer'[o] = answer[o]
    BY DEF QInv, IInv, Types
  <1>3. Range(queue) = Waiting /\ Uris \cap Requests = {}
    BY RequestAssumption DEF QInv, Served
  <1>4. \A o \in Requests \ {r} : o \in Waiting' <=> o \in Waiting
    BY <1>2, <1>3, WhoWaits, WhoWaitsNext
  <1>5. \A u \in Uris : u \in Waiting' <=> u \in Waiting
    BY <1>3, WhoWaits, WhoWaitsNext
  <1>6. r \in Waiting' <=> a = "open" /\ q.thread = "none"
    BY <1>2, <1>3, WhoWaitsNext
  <1>7. Range(queue') = Waiting'
    BY <1>3, <1>4, <1>5, <1>6, WhoWaits, WhoWaitsNext
  <1>8. Unstarted'
    BY <1>2 DEF QInv, Unstarted
  <1> QED
    BY <1>1, <1>7, <1>8 DEF QRest, QInv, QueueTypes, Served

LEMMA FinishQueue ==
  ASSUME QInv, Up, NEW r \in Requests, NEW a \in Outcomes, Finish(r, a),
         UNCHANGED <<phase, tasks, withdrawn, available>>
  PROVE  QRest'
  <1>1. /\ answer' = [answer EXCEPT ![r] = a] /\ queue' = Forget({r}) /\ stopped' = stopped \cup {r}
        /\ requests' = [requests EXCEPT ![r] = IF requests[r].thread = "running" THEN requests[r] ELSE Forgotten(r)]
    BY DEF Finish
  <1>2. PICK q \in Request : /\ requests' = [requests EXCEPT ![r] = q]
                             /\ q.thread = "running" <=> requests[r].thread = "running"
    BY <1>1, ForgottenType DEF QInv, IInv, Types
  <1>3. /\ queue' \in Seq(Uris \cup Requests) /\ Once(queue') /\ Range(queue') = Range(queue) \ {r}
    BY <1>1, Forgetting DEF QInv, QueueTypes, Served
  <1>4. a # "open" /\ a # "unsent"
    BY DEF Outcomes
  <1>5. available' = available + (IF requests[r].thread = "running" THEN 1 ELSE 0)
                               - (IF q.thread = "running" THEN 1 ELSE 0)
    BY <1>2, Counting
  <1> QED
    BY <1>1, <1>2, <1>3, <1>4, <1>5, RequestQueue

LEMMA ReceiveQueue ==
  ASSUME QInv, NEW r \in Requests, NEW u \in Uris, Receive(r, u) PROVE QRest'
  <1> DEFINE q == [uri |-> u, token |-> docs[u].generation,
                   seen |-> [w \in Uris |-> IF w = u \/ (r \in WholeProject /\ docs[u].view # 0)
                                            THEN docs[w].view ELSE 0],
                   thread |-> "none"]
  <1>1. /\ requests' = [requests EXCEPT ![r] = q] /\ answer' = [answer EXCEPT ![r] = "open"]
        /\ answer[r] = "unsent" /\ phase = "Ready" /\ queue' = Append(queue, r)
        /\ UNCHANGED <<phase, tasks, withdrawn, stopped, available>>
    BY DEF Receive, RequestsOnly
  <1>2. q \in Request /\ q.thread = "none"
    BY DEF QInv, IInv, Types, Document, Request
  <1> HIDE DEF q
  <1>3. requests[r].thread # "running" /\ Up
    BY <1>1 DEF QInv, Unstarted, Up
  <1>4. r \notin Range(queue)
    BY <1>1, <1>3, RequestAssumption, WhoWaits DEF QInv, Served
  <1>5. queue' \in Seq(Uris \cup Requests) /\ Once(queue') /\ Range(queue') = (Range(queue) \ {r}) \cup {r}
    BY <1>1, <1>4, Joining DEF QInv, QueueTypes, Served
  <1>6. available' = available + 0 - 0
    BY <1>1, Counting
  <1> QED
    BY <1>1, <1>2, <1>3, <1>5, <1>6, RequestQueue

LEMMA StartQueue == ASSUME QInv, NEW r \in Requests, Start(r) PROVE QRest'
  <1>1. /\ Up /\ answer[r] = "open" /\ available > 0 /\ queue # <<>> /\ Head(queue) = r
        /\ UNCHANGED <<phase, tasks, withdrawn>>
    BY DEF Start, RequestsOnly
  <1>2. CASE Modified(r)
    BY <1>1, <1>2, FinishQueue DEF Start, Outcomes
  <1>3. CASE ~Modified(r)
    <2> DEFINE q == [requests[r] EXCEPT !.thread = "running"]
    <2>1. /\ requests' = [requests EXCEPT ![r] = q] /\ queue' = Tail(queue) /\ available' = available - 1
          /\ UNCHANGED <<stopped, answer>>
      BY <1>3 DEF Start
    <2>2. q \in Request /\ q.thread = "running"
      BY DEF QInv, IInv, Types, Request
    <2> HIDE DEF q
    <2>3. /\ queue' \in Seq(Uris \cup Requests) /\ Once(queue') /\ Range(queue') = Range(queue) \ {r}
          /\ r \in Range(queue)
      BY <1>1, <2>1, Serving DEF QInv, QueueTypes, Served
    <2>4. requests[r].thread = "none"
      BY <1>1, <2>3, RequestAssumption, WhoWaits DEF QInv, Served
    <2>5. available' = available + 0 - 1 /\ answer' = [answer EXCEPT ![r] = "open"]
      BY <1>1, <2>1, Counting DEF QInv, IInv, Types
    <2>6. "open" \in {"unsent", "open", "refused"} \cup Outcomes /\ stopped' \subseteq stopped \cup {r}
      BY <2>1
    <2>7. Range(queue') = (Range(queue) \ {r}) \cup IF "open" = "open" /\ q.thread = "none" THEN {r} ELSE {}
      BY <2>2, <2>3
    <2> QED
      BY <1>1, <2>1, <2>2, <2>3, <2>4, <2>5, <2>6, <2>7, RequestQueue
  <1> QED
    BY <1>2, <1>3

LEMMA EndThreadQueue == ASSUME QInv, NEW r \in Requests, EndThread(r) PROVE QRest'
  <1>1. /\ Up /\ requests[r].thread = "running" /\ available' = available + 1
        /\ UNCHANGED <<phase, tasks, withdrawn, stopped, answer, queue>>
    BY DEF EndThread, RequestsOnly
  <1>2. PICK q \in Request : /\ requests' = [requests EXCEPT ![r] = q] /\ q.thread # "running"
                             /\ answer[r] = "open" => q.thread # "none"
    <2>1. CASE answer[r] # "open"
      BY <2>1, ForgottenType DEF EndThread, QInv
    <2>2. CASE answer[r] = "open"
      <3>1. PICK o \in Returned(r) : requests' = [requests EXCEPT ![r].thread = o]
        BY <2>2 DEF EndThread
      <3>2. o \in Outcomes
        BY DEF Returned, Outcomes
      <3>3. [requests[r] EXCEPT !.thread = o] \in Request /\ [requests[r] EXCEPT !.thread = o].thread = o
        BY <3>2 DEF QInv, IInv, Types, Request
      <3>4. o # "running" /\ o # "none"
        BY <3>2 DEF Outcomes
      <3> QED
        BY <3>1, <3>3, <3>4
    <2> QED
      BY <2>1, <2>2
  <1>3. answer' = [answer EXCEPT ![r] = answer[r]] /\ answer[r] \in {"unsent", "open", "refused"} \cup Outcomes
    BY <1>1 DEF QInv, IInv, Types
  <1>4. r \notin Range(queue)
    BY <1>1, RequestAssumption, WhoWaits DEF QInv, Served
  <1>5. queue' \in Seq(Uris \cup Requests) /\ Once(queue') /\ Range(queue') = Range(queue) \ {r}
    BY <1>1, <1>4 DEF QInv, QueueTypes, Served
  <1>6. available' = available + 1 - 0
    BY <1>1, Counting
  <1> QED
    BY <1>1, <1>2, <1>3, <1>5, <1>6, RequestQueue

LEMMA AnswerQueue == ASSUME QInv, NEW r \in Requests, FinishRequest(r) \/ Drop(r) PROVE QRest'
  <1>1. PICK a \in Outcomes : Finish(r, a)
    BY DEF FinishRequest, Drop, Outcomes
  <1>2. Up /\ UNCHANGED <<phase, tasks, withdrawn, available>>
    BY DEF FinishRequest, Drop, RequestsOnly
  <1> QED
    BY <1>1, <1>2, FinishQueue

(* What leaves the queue, the tasks and the threads alone.                 *)
LEMMA AsideQueue ==
  ASSUME QInv, UNCHANGED <<tasks, requests, stopped, queue, available>>, withdrawn' \subseteq Requests,
         \A r \in Requests : answer'[r] \in {answer[r], "refused"} /\ (answer[r] = "open" => answer'[r] = "open"),
         Up
  PROVE  QRest'
  <1>1. Waiting' = Waiting
    BY DEF Waiting
  <1>2. Threads' = Threads /\ Holding(Uris)' = Holding(Uris)
    BY DEF Threads, Holding
  <1>3. PermitsConserved'
    BY <1>2 DEF QInv, PermitsConserved
  <1> QED
    BY <1>1, <1>3 DEF QRest, QInv, QueueTypes, Served, Unstarted

LEMMA StepQInv == QInv /\ [Next]_vars => QInv'
  <1> SUFFICES ASSUME QInv, [Next]_vars PROVE QInv'
    OBVIOUS
  <1>0. IInv' /\ (QRest' => QInv')
    BY StepIInv DEF QInv, QRest
  <1>1. CASE Initialize \/ Initialized
    BY <1>0, <1>1, AsideQueue DEF Initialize, Initialized, LifecycleOnly, Up, QInv, QueueTypes
  <1>2. ASSUME NEW r \in Requests, Refuse(r) \/ Cancel(r) PROVE QRest'
    BY <1>2, AsideQueue DEF Refuse, Cancel, RequestsOnly, Up, QInv, QueueTypes, IInv, Types
  <1>3. ASSUME NEW u \in Uris, DidOpenOrChange(u) \/ DidClose(u) PROVE QRest'
    <2>1. Dependents(u) \in SUBSET Uris /\ {u} \cup Dependents(u) \in SUBSET Uris /\ Up
      BY <1>3 DEF Dependents, Open, DidOpenOrChange, DidClose, Up
    <2> QED
      BY <1>3, <2>1, InstallQueue DEF DidOpenOrChange, DidClose
  <1>4. ASSUME NEW U \in SUBSET Uris, Reanalyse(U) PROVE QRest'
    BY <1>4, InstallQueue DEF Reanalyse, Up
  <1>5. CASE Client
    BY <1>0, <1>1, <1>2, <1>3, <1>4, <1>5, ShutdownQueue, ExitQueue, ReceiveQueue DEF Client
  <1>6. CASE Server
    BY <1>0, <1>6, AnalysisQueue, StartQueue, EndThreadQueue, AnswerQueue DEF Server
  <1>7. CASE UNCHANGED vars
    <2>1. Waiting' = Waiting /\ Threads' = Threads /\ Holding(Uris)' = Holding(Uris)
      BY <1>7 DEF vars, Waiting, Threads, Holding
    <2>2. PermitsConserved'
      BY <1>7, <2>1 DEF vars, QInv, PermitsConserved
    <2> QED
      BY <1>0, <1>7, <2>1, <2>2 DEF vars, QInv, QRest, QueueTypes, Served, Unstarted, Up
  <1> QED
    BY <1>5, <1>6, <1>7 DEF Next

(* Whatever the order of cancellations, superseded documents, panics and   *)
(* the shutdown: the queue holds those who still wait, each once, and the  *)
(* permits that are not available are held by something that runs.         *)
THEOREM QueueInvariance == Spec => []QInv
  BY InitQInv, StepQInv, PTL DEF Spec

(* No permit is lost or given twice.                                       *)
THEOREM Permits == Spec => []PermitsConserved
  <1>1. QInv => PermitsConserved
    BY DEF QInv
  <1> QED
    BY <1>1, QueueInvariance, PTL

(* Nobody waits behind a task or a request that no longer exists, and      *)
(* nobody waits twice.                                                     *)
THEOREM Queue == Spec => []QueueServed
  <1>1. QInv => QueueServed
    <2> SUFFICES ASSUME QInv PROVE QueueServed
      OBVIOUS
    <2>1. TypeOK
      BY DEF QInv, IInv, Types, QueueTypes, TypeOK
    <2>2. Len(queue) \in Nat /\ DOMAIN queue = 1..Len(queue)
      BY DEF QInv, QueueTypes
    <2>3. queue \in [1..Len(queue) -> Range(queue)] /\ \A w \in Range(queue) : \E i \in 1..Len(queue) : queue[i] = w
      BY <2>2 DEF QInv, QueueTypes, Range
    <2>4. queue \in Surjection(1..Len(queue), Range(queue)) /\ queue \in Injection(1..Len(queue), Range(queue))
      BY <2>2, <2>3 DEF QInv, Served, Once, Surjection, Injection, IsInjective
    <2>5. IsFiniteSet(1..Len(queue)) /\ Cardinality(1..Len(queue)) = Len(queue)
      <3>1. \A n \in Nat : IsFiniteSet(1..n) /\ Cardinality(1..n) = n
        BY FS_Interval
      <3> QED
        BY <2>2, <3>1
    <2>6. Len(queue) = Cardinality(Range(queue))
      BY <2>4, <2>5, FS_Surjection
    <2> QED
      BY <2>1, <2>6 DEF QInv, Served, QueueServed, Waiting
  <1> QED
    BY <1>1, QueueInvariance, PTL

-----------------------------------------------------------------------------
(* After the shutdown. *)

Unserved == {r \in Requests : answer[r] = "open" /\ requests[r].thread = "none"}

(* What is left to do: a request is started, its thread ends, and it is    *)
(* answered.                                                               *)
DrainWork == 2 * Cardinality(Unserved) + Cardinality(Threads) + Cardinality(Outstanding)

(* No analysis goes on.                                                    *)
Idle == phase = "ShuttingDown" => \A u \in Uris : tasks[u] = "none"

LEMMA StepIdle == QInv /\ Idle /\ [Next]_vars => Idle'
  <1> SUFFICES ASSUME QInv, Idle, [Next]_vars, phase' = "ShuttingDown"
               PROVE  \A u \in Uris : tasks'[u] = "none"
    BY DEF Idle
  <1>1. CASE Shutdown
    BY <1>1 DEF Shutdown
  <1>2. CASE phase = "ShuttingDown" /\ UNCHANGED tasks
    BY <1>2 DEF Idle
  <1>3. ASSUME NEW u \in Uris, StartAnalysis(u) \/ EndAnalysis(u) \/ AnalysisCompleted(u) PROVE FALSE
    <2>1. phase = "ShuttingDown" /\ Up
      BY <1>3 DEF StartAnalysis, EndAnalysis, AnalysisCompleted, AnalysisOnly
    <2>2. tasks[u] = "none"
      BY <2>1 DEF Idle
    <2>3. ~EndAnalysis(u) /\ ~AnalysisCompleted(u)
      BY <2>2 DEF EndAnalysis, Holding, AnalysisCompleted
    <2>4. CASE StartAnalysis(u)
      <3>1. queue # <<>> /\ Head(queue) = u
        BY <2>4 DEF StartAnalysis
      <3>2. u \in Range(queue)
        BY <3>1, Serving DEF QInv, QueueTypes, Served
      <3> QED
        BY <2>1, <2>2, <3>2, RequestAssumption, WhoWaits DEF QInv, Served
    <2> QED
      BY <1>3, <2>3, <2>4
  <1>4. ASSUME NEW U, NEW d, NEW gone, Install(d, U, gone), phase = "Ready" PROVE FALSE
    BY <1>4 DEF Install
  <1>5. CASE Client
    BY <1>1, <1>2, <1>4, <1>5 DEF Client, Initialize, Initialized, Exit, DidOpenOrChange, DidClose, Reanalyse,
         Refuse, Receive, Cancel, RequestsOnly
  <1>6. CASE Server
    BY <1>2, <1>3, <1>6 DEF Server, Start, EndThread, FinishRequest, Drop, RequestsOnly
  <1>7. CASE UNCHANGED vars
    BY <1>2, <1>7 DEF vars
  <1> QED
    BY <1>5, <1>6, <1>7 DEF Next

LEMMA SpecIdle == Spec => [](QInv /\ Idle)
  <1>1. Init => Idle
    BY DEF Init, Idle
  <1> QED
    BY <1>1, StepIdle, QueueInvariance, PTL DEF Spec

(* Whether one element is in a finite set.                                 *)
LEMMA OneElement ==
  ASSUME NEW S, IsFiniteSet(S), NEW T, NEW r, T \ {r} = S \ {r}
  PROVE  /\ IsFiniteSet(T) /\ Cardinality(S) \in Nat /\ Cardinality(T) \in Nat
         /\ Cardinality(T) = Cardinality(S) - (IF r \in S THEN 1 ELSE 0) + (IF r \in T THEN 1 ELSE 0)
  <1> DEFINE O == S \ {r}
  <1>1. IsFiniteSet(O) /\ Cardinality(O) = Cardinality(S) - (IF r \in S THEN 1 ELSE 0)
    <2>1. IsFiniteSet(O) /\ Cardinality(O) = IF r \in S THEN Cardinality(S) - 1 ELSE Cardinality(S)
      BY FS_RemoveElement
    <2>2. Cardinality(S) \in Nat
      BY FS_CardinalityType
    <2> HIDE DEF O
    <2> QED
      BY <2>1, <2>2
  <1>2. r \notin O /\ T = IF r \in T THEN O \cup {r} ELSE O
    OBVIOUS
  <1> HIDE DEF O
  <1>3. IsFiniteSet(T) /\ Cardinality(T) = Cardinality(O) + (IF r \in T THEN 1 ELSE 0)
    BY <1>1, <1>2, FS_AddElement, FS_CardinalityType
  <1>4. Cardinality(S) \in Nat /\ Cardinality(T) \in Nat /\ Cardinality(O) \in Nat
    BY <1>1, <1>3, FS_CardinalityType
  <1> QED
    BY <1>1, <1>3, <1>4

LEMMA DrainType ==
  /\ IsFiniteSet(Unserved) /\ IsFiniteSet(Threads) /\ IsFiniteSet(Outstanding) /\ DrainWork \in Nat
  <1>1. Unserved \subseteq Requests /\ Threads \subseteq Requests /\ Outstanding \subseteq Requests
    BY DEF Unserved, Threads, Outstanding
  <1>2. IsFiniteSet(Unserved) /\ IsFiniteSet(Threads) /\ IsFiniteSet(Outstanding)
    BY <1>1, RequestAssumption, FS_Subset
  <1>3. Cardinality(Unserved) \in Nat /\ Cardinality(Threads) \in Nat /\ Cardinality(Outstanding) \in Nat
    BY <1>2, FS_CardinalityType
  <1> QED
    BY <1>2, <1>3 DEF DrainWork

LEMMA DrainTypeNext == (DrainWork \in Nat)'
  BY DrainType, PTL

(* What a request that is at thread t with answer a still costs.           *)
Cost(a, t) ==
  (IF a = "open" /\ t = "none" THEN 2 ELSE 0) + (IF t = "running" THEN 1 ELSE 0)
  + (IF a = "open" THEN 1 ELSE 0)

LEMMA Cheaper ==
  ASSUME QInv, NEW r \in Requests, NEW q, NEW a,
         requests' = [requests EXCEPT ![r] = q], answer' = [answer EXCEPT ![r] = a],
         Cost(a, q.thread) < Cost(answer[r], requests[r].thread)
  PROVE  DrainWork' < DrainWork
  <1>1. /\ requests'[r] = q /\ \A o \in Requests \ {r} : requests'[o] = requests[o]
        /\ answer'[r] = a /\ \A o \in Requests \ {r} : answer'[o] = answer[o]
    BY DEF QInv, IInv, Types
  <1>2. /\ Unserved' \ {r} = Unserved \ {r} /\ Threads' \ {r} = Threads \ {r}
        /\ Outstanding' \ {r} = Outstanding \ {r}
    BY <1>1 DEF Unserved, Threads, Outstanding
  <1>3. /\ r \in Unserved <=> answer[r] = "open" /\ requests[r].thread = "none"
        /\ r \in Unserved' <=> a = "open" /\ q.thread = "none"
        /\ r \in Threads <=> requests[r].thread = "running"
        /\ r \in Threads' <=> q.thread = "running"
        /\ r \in Outstanding <=> answer[r] = "open"
        /\ r \in Outstanding' <=> a = "open"
    BY <1>1 DEF Unserved, Threads, Outstanding
  <1>4. /\ Cardinality(Unserved) \in Nat /\ Cardinality(Unserved') \in Nat
        /\ Cardinality(Unserved') = Cardinality(Unserved) - (IF r \in Unserved THEN 1 ELSE 0)
                                                          + (IF r \in Unserved' THEN 1 ELSE 0)
    BY <1>2, DrainType, OneElement
  <1>5. /\ Cardinality(Threads) \in Nat /\ Cardinality(Threads') \in Nat
        /\ Cardinality(Threads') = Cardinality(Threads) - (IF r \in Threads THEN 1 ELSE 0)
                                                        + (IF r \in Threads' THEN 1 ELSE 0)
    BY <1>2, DrainType, OneElement
  <1>6. /\ Cardinality(Outstanding) \in Nat /\ Cardinality(Outstanding') \in Nat
        /\ Cardinality(Outstanding') = Cardinality(Outstanding) - (IF r \in Outstanding THEN 1 ELSE 0)
                                                                + (IF r \in Outstanding' THEN 1 ELSE 0)
    BY <1>2, DrainType, OneElement
  <1>7. DrainWork' = 2 * Cardinality(Unserved') + Cardinality(Threads') + Cardinality(Outstanding')
    BY DEF DrainWork
  <1>8. DrainWork = 2 * Cardinality(Unserved) + Cardinality(Threads) + Cardinality(Outstanding)
    BY DEF DrainWork
  <1> HIDE DEF DrainWork, Unserved, Threads, Outstanding
  <1> QED
    BY <1>3, <1>4, <1>5, <1>6, <1>7, <1>8 DEF Cost

(* A thread does not come back once it has ended.                          *)
LEMMA FinishCheaper ==
  ASSUME QInv, NEW r \in Requests, NEW a \in Outcomes, answer[r] = "open", Finish(r, a)
  PROVE  DrainWork' < DrainWork
  <1>1. PICK q \in Request : /\ requests' = [requests EXCEPT ![r] = q]
                             /\ q.thread = "running" <=> requests[r].thread = "running"
    BY ForgottenType DEF Finish, QInv, IInv, Types
  <1>2. answer' = [answer EXCEPT ![r] = a] /\ a # "open"
    BY DEF Finish, Outcomes
  <1>3. Cost(a, q.thread) < Cost(answer[r], requests[r].thread)
    BY <1>1, <1>2 DEF Cost
  <1> QED
    BY <1>1, <1>2, <1>3, Cheaper

LEMMA ServerDrains ==
  ASSUME QInv, Idle, phase = "ShuttingDown", Server
  PROVE  DrainWork' < DrainWork
  <1>1. \A u \in Uris : tasks[u] = "none"
    BY DEF Idle
  <1>2. ASSUME NEW u \in Uris, StartAnalysis(u) \/ EndAnalysis(u) \/ AnalysisCompleted(u) PROVE FALSE
    <2>1. ~EndAnalysis(u) /\ ~AnalysisCompleted(u)
      BY <1>1 DEF EndAnalysis, Holding, AnalysisCompleted
    <2>2. CASE StartAnalysis(u)
      <3>1. Up /\ u \in Range(queue)
        BY <2>2, Serving DEF StartAnalysis, QInv, QueueTypes, Served
      <3> QED
        BY <1>1, <3>1, RequestAssumption, WhoWaits DEF QInv, Served
    <2> QED
      BY <1>2, <2>1, <2>2
  <1>3. ASSUME NEW r \in Requests, FinishRequest(r) \/ Drop(r) PROVE DrainWork' < DrainWork
    <2>1. PICK a \in Outcomes : Finish(r, a) /\ answer[r] = "open"
      BY <1>3 DEF FinishRequest, Drop, Outcomes
    <2> QED
      BY <2>1, FinishCheaper
  <1>4. ASSUME NEW r \in Requests, Start(r) PROVE DrainWork' < DrainWork
    <2>1. CASE Modified(r)
      BY <1>4, <2>1, FinishCheaper DEF Start, Outcomes
    <2>2. CASE ~Modified(r)
      <3> DEFINE q == [requests[r] EXCEPT !.thread = "running"]
      <3>1. /\ Up /\ answer[r] = "open" /\ queue # <<>> /\ Head(queue) = r /\ requests' = [requests EXCEPT ![r] = q]
            /\ UNCHANGED answer
        BY <1>4, <2>2 DEF Start
      <3>2. q.thread = "running"
        BY DEF QInv, IInv, Types, Request
      <3> HIDE DEF q
      <3>3. r \in Range(queue)
        BY <3>1, Serving DEF QInv, QueueTypes, Served
      <3>4. requests[r].thread = "none"
        BY <3>1, <3>3, RequestAssumption, WhoWaits DEF QInv, Served
      <3>5. answer' = [answer EXCEPT ![r] = "open"]
        BY <3>1 DEF QInv, IInv, Types
      <3>6. Cost("open", q.thread) < Cost(answer[r], requests[r].thread)
        BY <3>1, <3>2, <3>4 DEF Cost
      <3> QED
        BY <3>1, <3>5, <3>6, Cheaper
    <2> QED
      BY <2>1, <2>2
  <1>5. ASSUME NEW r \in Requests, EndThread(r) PROVE DrainWork' < DrainWork
    <2>1. requests[r].thread = "running" /\ UNCHANGED answer
      BY <1>5 DEF EndThread
    <2>2. PICK q \in Request : /\ requests' = [requests EXCEPT ![r] = q] /\ q.thread # "running"
                               /\ answer[r] = "open" => q.thread # "none"
      <3>1. CASE answer[r] # "open"
        BY <1>5, <3>1, ForgottenType DEF EndThread, QInv
      <3>2. CASE answer[r] = "open"
        <4>1. PICK o \in Returned(r) : requests' = [requests EXCEPT ![r].thread = o]
          BY <1>5, <3>2 DEF EndThread
        <4>2. o \in Outcomes /\ o # "running" /\ o # "none"
          BY DEF Returned, Outcomes
        <4>3. [requests[r] EXCEPT !.thread = o] \in Request /\ [requests[r] EXCEPT !.thread = o].thread = o
          BY <4>2 DEF QInv, IInv, Types, Request
        <4> QED
          BY <4>1, <4>2, <4>3
      <3> QED
        BY <3>1, <3>2
    <2>3. answer' = [answer EXCEPT ![r] = answer[r]]
      BY <2>1 DEF QInv, IInv, Types
    <2>4. Cost(answer[r], q.thread) < Cost(answer[r], requests[r].thread)
      BY <2>1, <2>2 DEF Cost
    <2> QED
      BY <2>2, <2>3, <2>4, Cheaper
  <1> QED
    BY <1>2, <1>3, <1>4, <1>5 DEF Server

(* A client that is still heard adds nothing: it is refused.               *)
LEMMA ClientDrains ==
  ASSUME phase = "ShuttingDown", Client
  PROVE  phase' = "Exited" \/ (phase' = phase /\ DrainWork' = DrainWork)
  <1>1. Exit \/ \E r \in Requests : Refuse(r)
    BY DEF Client, Initialize, Initialized, Shutdown, DidOpenOrChange, DidClose, Reanalyse, Receive, Cancel
  <1>2. ASSUME NEW r \in Requests, Refuse(r) PROVE phase' = phase /\ DrainWork' = DrainWork
    <2>1. /\ answer[r] = "unsent" /\ answer' = [answer EXCEPT ![r] = "refused"]
          /\ UNCHANGED <<phase, requests>>
      BY <1>2 DEF Refuse, RequestsOnly
    <2>2. \A o \in Requests : answer'[o] = "open" <=> answer[o] = "open"
      BY <2>1
    <2>3. Unserved' = Unserved /\ Threads' = Threads /\ Outstanding' = Outstanding
      BY <2>1, <2>2 DEF Unserved, Threads, Outstanding
    <2> QED
      BY <2>1, <2>3 DEF DrainWork
  <1> QED
    BY <1>1, <1>2 DEF Exit

Drained == Threads = {} /\ Outstanding = {} /\ queue = <<>>

(* A step of the server is due: a thread may return, a request that was    *)
(* cancelled or whose thread has ended is polled, or the one at the head   *)
(* of the queue gets a permit.                                             *)
ServerReady ==
  \E r \in Requests :
    \/ requests[r].thread = "running"
    \/ answer[r] = "open" /\ (r \in withdrawn \/ requests[r].thread \in Outcomes)
    \/ answer[r] = "open" /\ available > 0 /\ queue # <<>> /\ Head(queue) = r

LEMMA WorkIsReady ==
  ASSUME QInv, Idle, phase = "ShuttingDown", ~Drained
  PROVE  ServerReady
  <1>1. Up /\ \A u \in Uris : tasks[u] = "none"
    BY DEF Idle, Up
  <1>2. CASE Threads # {}
    BY <1>2 DEF Threads, ServerReady
  <1>3. CASE Threads = {} /\ \E r \in Requests : answer[r] = "open" /\ requests[r].thread \in Outcomes
    BY <1>3 DEF ServerReady
  <1>4. CASE Threads = {} /\ \A r \in Requests : answer[r] = "open" => requests[r].thread \notin Outcomes
    <2>1. \A r \in Requests : answer[r] = "open" => requests[r].thread = "none"
      BY <1>4 DEF Threads, QInv, IInv, Types, Request
    <2>2. Holding(Uris) = {}
      BY <1>1 DEF Holding
    <2>3. available > 0
      BY <1>4, <2>2, FS_EmptySet, RequestAssumption DEF QInv, QueueTypes, PermitsConserved
    <2>4. queue # <<>>
      <3>1. CASE Outstanding # {}
        <4>1. PICK r \in Requests : answer[r] = "open"
          BY <3>1 DEF Outstanding
        <4>2. r \in Range(queue)
          BY <1>1, <2>1, <4>1, RequestAssumption, WhoWaits DEF QInv, Served
        <4> QED
          BY <4>2 DEF Range
      <3> QED
        BY <1>4, <3>1 DEF Drained
    <2>5. Head(queue) \in Range(queue)
      BY <2>4, Serving DEF QInv, QueueTypes, Served
    <2>6. Head(queue) \in Requests /\ answer[Head(queue)] = "open"
      BY <1>1, <2>5, RequestAssumption, WhoWaits DEF QInv, Served
    <2> QED
      BY <2>3, <2>4, <2>6 DEF ServerReady
  <1> QED
    BY <1>2, <1>3, <1>4

(* After the shutdown no step adds work, each step of the server leaves    *)
(* less of it, and until there is none such a step is due: a permit that   *)
(* a dropped request or an abandoned analysis had never stays away.        *)
THEOREM ShutdownDrains ==
  Spec => /\ [](phase = "ShuttingDown" => DrainWork \in Nat /\ (Drained \/ ServerReady))
          /\ [][phase = "ShuttingDown" =>
                  \/ phase' = "Exited"
                  \/ phase' = phase /\ DrainWork' <= DrainWork /\ (Server => DrainWork' < DrainWork)]_vars
  <1>1. QInv /\ Idle => (phase = "ShuttingDown" => DrainWork \in Nat /\ (Drained \/ ServerReady))
    BY WorkIsReady, DrainType
  <1>2. ASSUME QInv, Idle, Next, phase = "ShuttingDown"
        PROVE  \/ phase' = "Exited"
               \/ phase' = phase /\ DrainWork' <= DrainWork /\ (Server => DrainWork' < DrainWork)
    <2>1. DrainWork \in Nat /\ DrainWork' \in Nat
      BY DrainType, DrainTypeNext
    <2>2. CASE Server
      <3>1. phase' = phase
        BY <2>2 DEF Server, StartAnalysis, EndAnalysis, AnalysisCompleted, AnalysisOnly, Start, EndThread,
             FinishRequest, Drop, RequestsOnly
      <3> QED
        BY <1>2, <2>1, <2>2, <3>1, ServerDrains
    <2> QED
      BY <1>2, <2>1, <2>2, ClientDrains DEF Next
  <1>3. QInv /\ Idle /\ [Next]_vars =>
          [phase = "ShuttingDown" =>
             \/ phase' = "Exited"
             \/ phase' = phase /\ DrainWork' <= DrainWork /\ (Server => DrainWork' < DrainWork)]_vars
    BY <1>2
  <1> QED
    BY <1>1, <1>3, SpecIdle, PTL DEF Spec
=============================================================================
