----------------------------- MODULE LspSession -----------------------------
(***************************************************************************)
(* The language server's session: DocumentStore (state.rs), Session        *)
(* (service.rs) and the analysis scheduling of Backend (backend.rs).       *)
(*                                                                         *)
(* Backend's handlers run one at a time on the main loop, so each is one   *)
(* action.  What they hand to the runtime is concurrent with them and with *)
(* each other: an async wrapper per scheduled analysis, which waits for a  *)
(* permit, and the blocking thread it starts, which reads the file system  *)
(* one resource at a time and reports with an event.  Files on disk change *)
(* at any moment; the client's watcher reports the change some time later. *)
(*                                                                         *)
(* A definition under "Altered:" is a plausible mistake in the one that    *)
(* follows it.  The specification does not use it: it is there to show     *)
(* that a property of the runs would notice.                               *)
(***************************************************************************)
EXTENDS Integers, FiniteSets

CONSTANTS
  Uris,           \* document URIs, numbered in the order of the BTreeMaps they key
  NonFile,        \* those whose scheme is not file:
  Texts,          \* the contents a file or an editor buffer can have
  Missing,        \* what is observed of a file that does not exist
  Unread,         \* what a request that has not read a file knows of it
  Includes,       \* Includes[t]: the documents that text t includes
  Broken,         \* the texts that are not a valid project configuration
  Bodies,         \* Bodies[f]: the contents this instance lets file f have on disk
  Edits,          \* Edits[u]: the texts this instance lets the editor give document u
  Settings,       \* values of the client's enabledRules setting
  MaxAnalyses,    \* MAX_CONCURRENT_ANALYSES
  StrictClient,   \* TRUE: the client never opens an open or closes a closed document
  MaxGeneration,  \* bound on the generations handed out in one behaviour
  OpenVersions,   \* the versions this instance lets the client open a document with
  MaxVersion      \* bound on the version a client gives a document

Config == 0                            \* the project's .adocweave.toml
DocFiles == Uris \ NonFile
Files == DocFiles \cup {Config}
Contents == Texts \cup {Missing, Unread}

ASSUME SessionAssumption ==
  /\ Uris \subseteq Nat \ {Config} /\ IsFiniteSet(Uris)
  /\ NonFile \subseteq Uris
  /\ Missing \notin Texts /\ Unread \notin Texts /\ Missing # Unread
  /\ Includes \in [Texts -> SUBSET DocFiles]
  /\ Broken \subseteq Texts
  /\ Settings # {}
  /\ Bodies \in [Files -> SUBSET (Texts \cup {Missing})]
  /\ Edits \in [Uris -> SUBSET Texts]
  /\ MaxAnalyses \in Nat \ {0}
  /\ StrictClient \in BOOLEAN
  /\ MaxGeneration \in Nat /\ MaxVersion \in Nat /\ OpenVersions \subseteq 1..MaxVersion

VARIABLES
  docs,            \* DocumentStore::documents
  nextGeneration,  \* DocumentStore::next_generation
  cancelled,       \* the generations whose CancellationToken is cancelled
  observations,    \* Session::project_observations
  pending,         \* Session::pending_project_observations
  settings,        \* Session::settings.enabled_rules
  workers,         \* Backend::analysis_workers: the generation whose task is held, or 0
  jobs,            \* the analyses under way: tasks, their threads and queued events
  abandoned,       \* number of blocking threads whose task was aborted
  running,         \* the protocol is up: neither shut down nor stopped
  disk,            \* what is on disk
  unwatched,       \* changed files the client has not reported yet
  shown            \* shown[u]: the roots whose diagnostics the client displays at u

session == <<docs, nextGeneration, cancelled, observations, pending, settings>>
vars == <<session, workers, jobs, abandoned, running, disk, unwatched, shown>>

-----------------------------------------------------------------------------
(* State. *)

Nothing == [f \in Files |-> Unread]
NoVersions == [u \in Uris |-> 0]

(* DocumentState; a view is the contents it was computed from (read), the  *)
(* editor versions among them (held, 0 for a file read from disk) and the  *)
(* settings in force.                                                      *)
Document ==
  [open : BOOLEAN, version : Nat, text : Texts \cup {Unread}, generation : Nat,
   status : {"pending", "view", "problem"}, read : [Files -> Contents],
   held : [Uris -> Nat], settings : Settings, published : SUBSET Uris]

Closed ==
  [open |-> FALSE, version |-> 0, text |-> Unread, generation |-> 0,
   status |-> "pending", read |-> Nothing, held |-> NoVersions,
   settings |-> CHOOSE s \in Settings : TRUE, published |-> {}]

Pending == [generation : Nat, uris : SUBSET (Uris \cup {Config})]
NoPending == [generation |-> 0, uris |-> {}]

(* ProjectSourceState of an open document captured by a request.           *)
Revision == [version : Nat, generation : Nat, text : Texts \cup {Unread}]
NoRevision == [version |-> 0, generation |-> 0, text |-> Unread]

(* ProjectAnalysisSnapshot with its PreparedProjectRequest, from the       *)
(* moment it is scheduled to the moment its last event is handled.         *)
Stages == {"waiting", "processing", "processed", "queued", "validating", "validated"}
Job ==
  [uri : Uris, version : Nat, generation : Nat, settings : Settings,
   previous : SUBSET Uris, captured : [Uris -> Revision],
   read : [Files -> Contents], stage : Stages,
   unchecked : SUBSET Files, valid : BOOLEAN]

TypeOK ==
  /\ docs \in [Uris -> Document]
  /\ nextGeneration \in Nat
  /\ cancelled \subseteq Nat
  /\ observations \in [Uris -> SUBSET (Uris \cup {Config})]
  /\ pending \in [Uris -> Pending]
  /\ settings \in Settings
  /\ workers \in [Uris -> Nat]
  /\ jobs \subseteq Job /\ IsFiniteSet(jobs)
  /\ abandoned \in Nat
  /\ running \in BOOLEAN
  /\ disk \in [Files -> Texts \cup {Missing}]
  /\ unwatched \subseteq Files
  /\ shown \in [Uris -> SUBSET Uris]

Init ==
  /\ docs = [u \in Uris |-> Closed]
  /\ nextGeneration = 0
  /\ cancelled = {}
  /\ observations = [u \in Uris |-> {}]
  /\ pending = [u \in Uris |-> NoPending]
  /\ settings = Closed.settings
  /\ workers = [u \in Uris |-> 0]
  /\ jobs = {}
  /\ abandoned = 0
  /\ running = TRUE
  /\ disk \in {d \in [Files -> Texts \cup {Missing}] : \A f \in Files : d[f] \in Bodies[f]}
  /\ unwatched = {}
  /\ shown = [u \in Uris |-> {}]

-----------------------------------------------------------------------------
(* What a request reads. *)

(* A captured buffer takes the place of the file (Processor::read_fixed_   *)
(* from_scoped looks in memory_sources first).                             *)
Known(j, f) == IF f \in Uris /\ j.captured[f].generation # 0
               THEN j.captured[f].text ELSE j.read[f]

IncludedBy(t) == IF t \in Texts THEN Includes[t] ELSE {}

(* The documents reached from the root through the includes known so far.  *)
Needed(j) ==
  {u \in DocFiles :
     \A S \in SUBSET DocFiles :
        (j.uri \in S /\ \A w \in S : IncludedBy(Known(j, w)) \subseteq S) => u \in S}

ConfigFailed(j) == j.read[Config] \in Broken

Rejected(j) == j.uri \in NonFile

(* What is to be read next: the configuration, then every reached file.    *)
Frontier(j) ==
  IF Rejected(j) \/ ConfigFailed(j) THEN {}
  ELSE IF j.read[Config] = Unread THEN {Config}
  ELSE {u \in Needed(j) : Known(j, u) = Unread}

(* completion_observation_uris *)
Observed(j) == IF Rejected(j) THEN {}
               ELSE IF ConfigFailed(j) THEN {Config} ELSE Needed(j) \cup {Config}

(* The files read from disk: candidates of project_observations_are_current *)
Candidates(j) == {f \in Observed(j) : f = Config \/ j.captured[f].generation = 0}

-----------------------------------------------------------------------------
(* Questions the session asks of its documents. *)

OpenDocs(d) == {u \in Uris : d[u].open}

SnapshotIsCurrent(j) ==
  /\ docs[j.uri].open
  /\ docs[j.uri].version = j.version
  /\ docs[j.uri].generation = j.generation
  /\ j.generation \notin cancelled

(* Altered: a buffer is taken to be the captured one if its version is.    *)
RevisionHasVersion(u, r) == docs[u].open /\ docs[u].version = r.version

RevisionIsCurrent(u, r) ==
  docs[u].open /\ docs[u].version = r.version /\ docs[u].generation = r.generation

(* ProjectSourceIndex::retain: a successful result keeps what it named, a  *)
(* failed one keeps every captured buffer.                                 *)
Retained(j) ==
  {u \in Uris : j.captured[u].generation # 0 /\ (ConfigFailed(j) \/ u \in Needed(j))}

SourcesAreCurrent(j) == \A u \in Retained(j) : RevisionIsCurrent(u, j.captured[u])

(* Altered: an analysis under validation does not observe anything yet.    *)
ObservingByResult(f) == {u \in Uris : f \in observations[u]}

ObservingDocuments(f) == {u \in Uris : f \in observations[u] \/ f \in pending[u].uris}

(* Session::diagnostics: the roots whose diagnostics are part of what is   *)
(* published for u.  A root's findings in another document count only      *)
(* while the version they were computed for is the current one.            *)
Contributions(d, u) ==
  {r \in OpenDocs(d) :
     \/ r = u /\ d[r].status # "pending"
     \/ /\ r # u /\ u \in DocFiles
        /\ d[r].status = "view" /\ d[r].read[u] \in Texts
        /\ d[r].held[u] = IF d[u].open THEN d[u].version ELSE 0}

(* Altered: diagnostics are published for open documents only.             *)
PublishOpen(d, U) ==
  shown' = [u \in Uris |-> IF u \in U \cap OpenDocs(d) THEN Contributions(d, u)
                           ELSE shown[u]]

Publish(d, U) ==
  shown' = [u \in Uris |-> IF u \in U THEN Contributions(d, u) ELSE shown[u]]

-----------------------------------------------------------------------------
(* Installing new snapshots.  P holds at most the document the client      *)
(* changed, whose snapshot is prepared first; the documents of U follow in *)
(* URI order.  Each snapshot takes the next generation and captures the    *)
(* open documents as they are at its turn.                                 *)

Turn(P, U, u) == IF u \in P THEN 1 ELSE Cardinality(P) + Cardinality({w \in U : w <= u})

(* new_snapshot and install_snapshot *)
Installed(d, P, U) ==
  [u \in Uris |->
     IF u \in P \cup U
     THEN [d[u] EXCEPT !.generation = nextGeneration + Turn(P, U, u),
                       !.status = "pending", !.read = Nothing, !.held = NoVersions,
                       !.settings = Closed.settings]
     ELSE d[u]]

(* Altered: a request captures no buffer but that of its document.         *)
CapturedAlone(d, P, U, u) ==
  [w \in Uris |->
     IF w # u \/ u \in NonFile THEN NoRevision
     ELSE [version |-> d[u].version, text |-> d[u].text,
           generation |-> nextGeneration + Turn(P, U, u)]]

(* prepare_project_request *)
Captured(d, P, U, u) ==
  [w \in Uris |->
     IF u \in NonFile \/ w \in NonFile \/ ~d[w].open THEN NoRevision
     ELSE [version |-> d[w].version, text |-> d[w].text,
           generation |-> IF w \in P \cup U /\ Turn(P, U, w) <= Turn(P, U, u)
                          THEN nextGeneration + Turn(P, U, w) ELSE d[w].generation]]

Snapshot(d, P, U, u, s) ==
  [uri |-> u, version |-> d[u].version, generation |-> nextGeneration + Turn(P, U, u),
   settings |-> s,
   previous |-> IF docs[u].open THEN docs[u].published \cup {u} ELSE {},
   captured |-> Captured(d, P, U, u), read |-> Nothing, stage |-> "waiting",
   unchecked |-> {}, valid |-> FALSE]

(* cancel_analysis for the documents of U: aborting a task drops it and    *)
(* releases its permit; a blocking thread it had started runs on, with     *)
(* nobody to report to.  An event already sent is not recalled.            *)
Aborted(U) == {j \in jobs : /\ j.uri \in U /\ workers[j.uri] = j.generation
                            /\ j.stage \notin {"processed", "validated"}}
Threads(J) == {j \in J : j.stage \in {"processing", "validating"}}

(* d is documents with the client's own change applied.                    *)
Install(d, P, U) ==
  /\ nextGeneration + Cardinality(P \cup U) <= MaxGeneration
  /\ docs' = Installed(d, P, U)
  /\ nextGeneration' = nextGeneration + Cardinality(P \cup U)
  /\ cancelled' = cancelled \cup
       {docs[u].generation : u \in {w \in OpenDocs(docs) : w \in P \cup U \/ ~d[w].open}}
  /\ pending' = [u \in Uris |->
       IF u \in P \cup U \/ ~d[u].open THEN NoPending ELSE pending[u]]

(* schedule_analysis_with_delay for every snapshot; done is the event      *)
(* being handled, if any.                                                  *)
Schedule(done, d, P, U, s) ==
  /\ jobs' = (jobs \ (done \cup Aborted(P \cup U)))
               \cup {Snapshot(d, P, U, u, s) : u \in P \cup U}
  /\ abandoned' = abandoned + Cardinality(Threads(Aborted(P \cup U)))
  /\ workers' = [u \in Uris |-> IF u \in P \cup U THEN nextGeneration + Turn(P, U, u)
                                ELSE workers[u]]

-----------------------------------------------------------------------------
(* Notifications from the client. *)

Dependents(u) == (ObservingDocuments(u) \cap OpenDocs(docs)) \ {u}

DidOpen(u, v, t) ==
  LET opened == [docs EXCEPT ![u] =
                   [Closed EXCEPT !.open = TRUE, !.version = v, !.text = t,
                                  !.published = {u}]]
      U == IF u \in NonFile THEN {} ELSE Dependents(u)
  IN  /\ running
      /\ StrictClient => ~docs[u].open
      /\ Install(opened, {u}, U)
      /\ Schedule({}, opened, {u}, U, settings)
      /\ UNCHANGED <<observations, settings, running, disk, unwatched, shown>>

(* A change with a version that is not newer is ignored.                   *)
DidChange(u, v, t) ==
  LET changed == [docs EXCEPT ![u].version = v, ![u].text = t]
      U == IF u \in NonFile THEN {} ELSE Dependents(u)
  IN  /\ running
      /\ docs[u].open /\ v > docs[u].version
      /\ Install(changed, {u}, U)
      /\ Schedule({}, changed, {u}, U, settings)
      /\ UNCHANGED <<observations, settings, running, disk, unwatched, shown>>

DidSave(u) ==
  /\ running
  /\ StrictClient => docs[u].open
  /\ Publish(docs, {u})
  /\ UNCHANGED <<session, workers, jobs, abandoned, running, disk, unwatched>>

(* Closing re-analyses the observers; if the document was not open the     *)
(* handler returns before it schedules what Session::close prepared.       *)
DidClose(u) ==
  LET closed == [docs EXCEPT ![u] = Closed]
      U == Dependents(u)
  IN  /\ running
      /\ StrictClient => docs[u].open
      /\ Install(closed, {}, U)
      /\ observations' = [observations EXCEPT ![u] = {}]
      /\ IF docs[u].open
         THEN /\ jobs' = (jobs \ Aborted(U \cup {u}))
                           \cup {Snapshot(closed, {}, U, w, settings) : w \in U}
              /\ abandoned' = abandoned + Cardinality(Threads(Aborted(U \cup {u})))
              /\ workers' = [w \in Uris |-> IF w = u THEN 0
                                            ELSE IF w \in U THEN nextGeneration + Turn({}, U, w)
                                            ELSE workers[w]]
              /\ Publish(docs', docs[u].published \cup {u})
         ELSE /\ jobs' = jobs \ Aborted({u})
              /\ abandoned' = abandoned + Cardinality(Threads(Aborted({u})))
              /\ workers' = [workers EXCEPT ![u] = 0]
              /\ UNCHANGED shown
      /\ UNCHANGED <<settings, running, disk, unwatched>>

OpenObservers(F) == {u \in OpenDocs(docs) : \E f \in F : u \in ObservingDocuments(f)}

(* handle_workspace_files_changed; a batch over the watch limits           *)
(* re-analyses every open document.                                        *)
DidChangeWatchedFiles(F) ==
  \E U \in {OpenObservers(F), OpenDocs(docs)} :
    /\ running
    /\ Install(docs, {}, U)
    /\ Schedule({}, docs, {}, U, settings)
    /\ unwatched' = unwatched \ F
    /\ UNCHANGED <<observations, settings, running, disk, shown>>

(* Altered: new settings apply to the next analysis only.                  *)
DidChangeConfigurationLazily(s) ==
  /\ running
  /\ s # settings
  /\ settings' = s
  /\ UNCHANGED <<docs, nextGeneration, cancelled, observations, pending, workers, jobs,
                 abandoned, running, disk, unwatched, shown>>

DidChangeConfiguration(s) ==
  LET U == OpenDocs(docs)
  IN  /\ running
      /\ s # settings
      /\ settings' = s
      /\ Install(docs, {}, U)
      /\ Schedule({}, docs, {}, U, s)
      /\ UNCHANGED <<observations, running, disk, unwatched, shown>>

(* shutdown and exit: cancel_all_analysis                                  *)
Shutdown ==
  /\ running
  /\ running' = FALSE
  /\ cancelled' = cancelled \cup {docs[u].generation : u \in OpenDocs(docs)}
  /\ pending' = [u \in Uris |-> NoPending]
  /\ jobs' = jobs \ Aborted(Uris)
  /\ abandoned' = abandoned + Cardinality(Threads(Aborted(Uris)))
  /\ workers' = [u \in Uris |-> 0]
  /\ UNCHANGED <<docs, nextGeneration, observations, settings, disk, unwatched, shown>>

-----------------------------------------------------------------------------
(* Tasks and blocking threads. *)

Permits == MaxAnalyses - Cardinality(Threads(jobs))
Advance(j, k) == jobs' = (jobs \ {j}) \cup {k}
TaskOnly == UNCHANGED <<session, workers, abandoned, running, disk, unwatched, shown>>

(* The wrapper obtains a permit; it gives up if its token is cancelled.    *)
StartProcessing(j) ==
  /\ j.stage = "waiting" /\ Permits > 0
  /\ IF j.generation \in cancelled THEN jobs' = jobs \ {j}
     ELSE Advance(j, [j EXCEPT !.stage = "processing"])
  /\ TaskOnly

ReadResource(j, f) ==
  /\ j.stage = "processing" /\ f \in Frontier(j)
  /\ Advance(j, [j EXCEPT !.read[f] = disk[f]])
  /\ TaskOnly

(* The thread returns when nothing is left to read, or at any poll after   *)
(* its token was cancelled, and the wrapper emits the event.               *)
FinishProcessing(j) ==
  /\ j.stage = "processing" /\ (Frontier(j) = {} \/ j.generation \in cancelled)
  /\ Advance(j, [j EXCEPT !.stage = "processed"])
  /\ TaskOnly

StartValidation(j) ==
  /\ j.stage = "queued" /\ Permits > 0
  /\ IF j.generation \in cancelled THEN jobs' = jobs \ {j}
     ELSE Advance(j, [j EXCEPT !.stage = "validating", !.unchecked = Candidates(j)])
  /\ TaskOnly

CheckObservation(j, f) ==
  /\ j.stage = "validating" /\ f \in j.unchecked
  /\ disk[f] = j.read[f]
  /\ Advance(j, [j EXCEPT !.unchecked = @ \ {f}])
  /\ TaskOnly

FinishValidation(j) ==
  /\ j.stage = "validating"
  /\ \E valid \in BOOLEAN :
       /\ IF valid THEN j.unchecked = {}
          ELSE \/ \E f \in j.unchecked : disk[f] # j.read[f]
               \/ j.generation \in cancelled
       /\ Advance(j, [j EXCEPT !.stage = "validated", !.unchecked = {}, !.valid = valid])
  /\ TaskOnly

(* What an abandoned thread computes is dropped: all that is left of it is *)
(* the CPU it uses until it returns.                                       *)
AbandonedReturn ==
  /\ abandoned > 0 /\ abandoned' = abandoned - 1
  /\ UNCHANGED <<session, workers, jobs, running, disk, unwatched, shown>>

-----------------------------------------------------------------------------
(* Their events, handled on the main loop. *)

(* Altered: whichever task the document has is taken for the ended one.    *)
CompleteAny(j) == workers' = [workers EXCEPT ![j.uri] = 0]

Complete(j) == workers' = [workers EXCEPT ![j.uri] = IF @ = j.generation THEN 0 ELSE @]

Ignore(j) ==
  /\ jobs' = jobs \ {j}
  /\ Complete(j)
  /\ UNCHANGED <<docs, nextGeneration, cancelled, observations, settings, abandoned, running,
                 disk, unwatched, shown>>

(* Altered: a superseded result is dropped and not computed again.         *)
RetryNothing(j) == Ignore(j) /\ UNCHANGED pending

(* retry_completion, then schedule_analysis_immediately                    *)
Retry(j) ==
  /\ Install(docs, {}, {j.uri})
  /\ Schedule({j}, docs, {}, {j.uri}, settings)
  /\ UNCHANGED <<observations, settings, running, disk, unwatched, shown>>

(* Altered: whatever was observed, the configuration too, is published.    *)
AdoptedPublishingObserved(j) ==
  LET kept == IF Rejected(j) \/ ConfigFailed(j) THEN {} ELSE Needed(j)
  IN  [docs[j.uri] EXCEPT
         !.status = IF Rejected(j) \/ ConfigFailed(j) THEN "problem" ELSE "view",
         !.read = [f \in Files |-> IF f = Config THEN j.read[f]
                                   ELSE IF f \in kept THEN Known(j, f) ELSE Unread],
         !.held = [u \in Uris |-> IF u \in kept THEN j.captured[u].version ELSE 0],
         !.settings = j.settings,
         !.published = Observed(j) \cup {j.uri}]

(* adopted_project_result, adopted_problem                                 *)
Adopted(j) ==
  LET kept == IF Rejected(j) \/ ConfigFailed(j) THEN {} ELSE Needed(j)
  IN  [docs[j.uri] EXCEPT
         !.status = IF Rejected(j) \/ ConfigFailed(j) THEN "problem" ELSE "view",
         !.read = [f \in Files |-> IF f = Config THEN j.read[f]
                                   ELSE IF f \in kept THEN Known(j, f) ELSE Unread],
         !.held = [u \in Uris |-> IF u \in kept THEN j.captured[u].version ELSE 0],
         !.settings = j.settings,
         !.published = {u \in kept : Known(j, u) \in Texts} \cup {j.uri}]

(* Altered: only the root's own diagnostics are published, or what the     *)
(* analysis observed is not recorded.                                      *)
AdoptPublishingRoot(j) ==
  /\ docs' = [docs EXCEPT ![j.uri] = Adopted(j)]
  /\ observations' = [observations EXCEPT ![j.uri] = Observed(j)]
  /\ jobs' = jobs \ {j}
  /\ Complete(j)
  /\ Publish(docs', {j.uri})
  /\ UNCHANGED <<nextGeneration, cancelled, settings, abandoned, running, disk, unwatched>>
AdoptUnobserved(j) ==
  /\ docs' = [docs EXCEPT ![j.uri] = Adopted(j)]
  /\ jobs' = jobs \ {j}
  /\ Complete(j)
  /\ Publish(docs', j.previous \cup docs'[j.uri].published)
  /\ UNCHANGED <<nextGeneration, cancelled, observations, settings, abandoned, running, disk,
                 unwatched>>

(* DocumentStore::complete_analysis, then publish_diagnostics_for_job      *)
Adopt(j) ==
  /\ docs' = [docs EXCEPT ![j.uri] = Adopted(j)]
  /\ observations' = [observations EXCEPT ![j.uri] = Observed(j)]
  /\ jobs' = jobs \ {j}
  /\ Complete(j)
  /\ Publish(docs', j.previous \cup docs'[j.uri].published)
  /\ UNCHANGED <<nextGeneration, cancelled, settings, abandoned, running, disk, unwatched>>

ProjectProcessingCompleted(j) ==
  /\ j.stage = "processed"
  /\ \/ ~SnapshotIsCurrent(j) /\ Ignore(j) /\ UNCHANGED pending
     \/ SnapshotIsCurrent(j) /\ ~SourcesAreCurrent(j) /\ Retry(j)
     \/ /\ SnapshotIsCurrent(j) /\ SourcesAreCurrent(j)
        /\ Rejected(j) /\ Adopt(j) /\ UNCHANGED pending
     \/ /\ SnapshotIsCurrent(j) /\ SourcesAreCurrent(j) /\ ~Rejected(j)
        /\ pending' = [pending EXCEPT ![j.uri] =
                         [generation |-> j.generation, uris |-> Observed(j)]]
        /\ Advance(j, [j EXCEPT !.stage = "queued"])
        /\ workers' = [workers EXCEPT ![j.uri] = j.generation]
        /\ UNCHANGED <<docs, nextGeneration, cancelled, observations, settings, abandoned,
                       running, disk, unwatched, shown>>

ClearPending(j) ==
  pending' = [pending EXCEPT ![j.uri] = IF @.generation = j.generation THEN NoPending ELSE @]

ProjectValidationCompleted(j) ==
  /\ j.stage = "validated"
  /\ \/ ~SnapshotIsCurrent(j) /\ Ignore(j) /\ ClearPending(j)
     \/ SnapshotIsCurrent(j) /\ ~(SourcesAreCurrent(j) /\ j.valid) /\ Retry(j)
     \/ SnapshotIsCurrent(j) /\ SourcesAreCurrent(j) /\ j.valid /\ Adopt(j) /\ ClearPending(j)

-----------------------------------------------------------------------------
(* The file system. *)

WriteFile(f, c) ==
  /\ running /\ c # disk[f]
  /\ disk' = [disk EXCEPT ![f] = c]
  /\ unwatched' = unwatched \cup {f}
  /\ UNCHANGED <<session, workers, jobs, abandoned, running, shown>>

Client ==
  \/ \E u \in Uris, v \in OpenVersions, t \in Texts : t \in Edits[u] /\ DidOpen(u, v, t)
  \/ \E u \in Uris, v \in 1..MaxVersion, t \in Texts : t \in Edits[u] /\ DidChange(u, v, t)
  \/ \E u \in Uris : DidSave(u)
  \/ \E u \in Uris : DidClose(u)
  \/ \E F \in SUBSET unwatched \ {{}} : DidChangeWatchedFiles(F)
  \/ \E s \in Settings : DidChangeConfiguration(s)
  \/ Shutdown

Runtime ==
  \/ \E j \in jobs : StartProcessing(j)
  \/ \E j \in jobs, f \in Files : ReadResource(j, f)
  \/ \E j \in jobs : FinishProcessing(j)
  \/ \E j \in jobs : StartValidation(j)
  \/ \E j \in jobs, f \in Files : CheckObservation(j, f)
  \/ \E j \in jobs : FinishValidation(j)
  \/ AbandonedReturn
  \/ \E j \in jobs : ProjectProcessingCompleted(j)
  \/ \E j \in jobs : ProjectValidationCompleted(j)

Environment == \E f \in Files, c \in Texts \cup {Missing} : c \in Bodies[f] /\ WriteFile(f, c)

Next == Client \/ Runtime \/ Environment

Spec == Init /\ [][Next]_vars
-----------------------------------------------------------------------------
(* What the client may rely on, as SessionService sees it: what the editor *)
(* shows, ...                                                              *)
EditorTexts == [u \in Uris |-> IF docs[u].open THEN docs[u].text ELSE Unread]

(* ... what the server knows of a document, ...                            *)
NoResult ==
  [status |-> "pending", read |-> Nothing, settings |-> Closed.settings, used |-> {}]
Result(e) ==
  [status |-> e.status, read |-> e.read, settings |-> e.settings,
   used |-> {u \in Uris : e.held[u] # 0}]
Results ==
  [r \in Uris |-> IF docs[r].open /\ docs[r].status # "pending" THEN Result(docs[r]) ELSE NoResult]

(* ... and the open documents that its analysis has not captured.          *)
Overlooked ==
  [r \in Uris |->
     {u \in DocFiles :
        /\ r \in DocFiles /\ docs[r].open /\ docs[u].open
        /\ \E j \in jobs : /\ j.uri = r /\ j.generation = docs[r].generation
                           /\ j.captured[u].generation = 0}]

Service == INSTANCE SessionService
             WITH text <- EditorTexts, unreported <- unwatched, result <- Results, late <- Overlooked

-----------------------------------------------------------------------------
(* Properties. *)

Analysed(r) == docs[r].open /\ docs[r].status = "view"

(* Nothing is under way and no file change is still to be reported.        *)
Quiescent == running /\ jobs = {} /\ unwatched = {}

(* An adopted view never outlives the editor text it was computed from:    *)
(* every open document it used is still open, at the version and with the  *)
(* text used.  (Session::diagnostics publishes a root's findings in        *)
(* another document by comparing versions alone; generations, retries and  *)
(* the re-analysis of observers are there to make that sound.)             *)
ViewMatchesEditor ==
  \A r \in Uris : Analysed(r) => \A u \in Uris :
    docs[r].held[u] # 0 =>
      docs[u].open /\ docs[u].version = docs[r].held[u] /\ docs[u].text = docs[r].read[u]

(* What makes the comparison of versions and generations sound.  Every     *)
(* open document has a generation that was handed out, and an analysis     *)
(* captured only such generations.                                         *)
GenerationsHandedOut ==
  /\ \A u \in Uris : docs[u].generation <= nextGeneration
  /\ \A u \in OpenDocs(docs) : docs[u].generation > 0
  /\ \A j \in jobs :
       /\ j.generation <= nextGeneration
       /\ \A u \in Uris :
            /\ j.captured[u].generation <= nextGeneration
            /\ j.captured[u].generation = 0 => j.captured[u].version = 0

(* A generation names one text: a buffer captured at the generation its    *)
(* document still has is what the editor shows.                            *)
GenerationsNameTexts ==
  \A j \in jobs : \A u \in OpenDocs(docs) :
    docs[u].generation = j.captured[u].generation =>
      docs[u].version = j.captured[u].version /\ docs[u].text = j.captured[u].text

(* ... and one set of rules.                                               *)
GenerationsNameSettings ==
  \A j \in jobs :
    docs[j.uri].open /\ docs[j.uri].generation = j.generation => j.settings = settings

(* A view that used an editor's text is among those observing it, so a     *)
(* change of that text replaces the view in the same step.                 *)
ViewObservesEditors ==
  \A r \in Uris : Analysed(r) => \A u \in Uris :
    docs[r].held[u] # 0 => u \in DocFiles \cap observations[r]

Consistent ==
  /\ GenerationsHandedOut
  /\ GenerationsNameTexts
  /\ GenerationsNameSettings
  /\ ViewObservesEditors

(* A view never shows the findings of rules that are not the enabled ones. *)
ViewUsesCurrentSettings == \A r \in Uris : Analysed(r) => docs[r].settings = settings

(* An open document without a result always has an analysis under way that *)
(* is not superseded: no document is forgotten between an aborted task, a  *)
(* retry and a validation.                                                 *)
AnalysisOwed ==
  running => \A u \in OpenDocs(docs) : docs[u].status = "pending" =>
    \E j \in jobs : j.uri = u /\ SnapshotIsCurrent(j)

(* Whatever the interleaving of file writes, reads, validation and watch   *)
(* notifications, a result that rests on file content no longer on disk is *)
(* only ever adopted while the notification that will replace it is still  *)
(* to come.                                                                *)
DiskChangeAnnounced ==
  running => \A r \in OpenDocs(docs) : \A f \in Files :
    /\ docs[r].status # "pending" /\ docs[r].read[f] # Unread
    /\ (f = Config \/ docs[r].held[f] = 0)
    /\ docs[r].read[f] # disk[f]
    => f \in unwatched

(* The client never displays diagnostics of a root that is closed, or at a *)
(* URI the root would not publish to again, where nothing would ever clear *)
(* them.                                                                   *)
DiagnosticsOwned ==
  \A u \in Uris : \A r \in shown[u] :
    docs[r].open /\ u \in docs[r].published \cup {r}

(* When everything has been handled, what the client displays is what the  *)
(* documents now say, in included documents too.                           *)
DiagnosticsSettle ==
  Quiescent => \A u \in Uris : shown[u] = Contributions(docs, u)

(* Edits do not accumulate tasks: a document has at most one whose result  *)
(* somebody waits for.                                                     *)
OneTaskPerDocument ==
  \A u \in Uris :
    Cardinality({j \in jobs : j.uri = u /\ j.stage \notin {"processed", "validated"}}) <= 1

(* However edits, file changes, captures, validations and retries          *)
(* interleave, a result is what one analysis of the present workspace      *)
(* gives, and only what it rests on takes it away.                         *)
Implements == Service!Spec

(* What the server knows of a document never falls behind: after any       *)
(* number of edits, file changes and reports it is still the result of one *)
(* analysis of the editors' texts and files of this moment, under the      *)
(* settings of this moment, with the includes followed exactly as far as   *)
(* these texts lead.  (There is no such check in the code: it follows from *)
(* what is observed, compared and analysed again.)                         *)
ResultsAreCurrent == Service!Current
=============================================================================
