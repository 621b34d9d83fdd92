# A TLA+ model of AdocWeave

This directory holds a model of AdocWeave, an AsciiDoc toolchain written in Rust with a language
server, a live preview, a command line and a WebAssembly package. The modules cover the parts that
run concurrently, are suspended and resumed, or share limits; they are checked with TLC on small
instances and proved about with TLAPS. `PROJECT.json` maps every definition to the lines it models
and lists components, runs, mutants, the finding, hazards and theorems.

## 1. The system

| Component | State | Operations | What makes it correct | Modules |
|---|---|---|---|---|
| LSP session (`adocweave-lsp/src/{service,state,backend}.rs`) | open documents with version, generation and adopted view; observed URIs per document; settings; the task of each document | the client's notifications; processing, validation and adoption of analyses | a view is adopted only while everything it was computed from is current; no document is forgotten; displayed diagnostics have an owner | `LspSession`, `SessionService`, `LspConvergence` |
| LSP read requests (`backend.rs`, `cancellation.rs`), lifecycle (`lifecycle.rs`) | permits, queue, threads, tokens; protocol phase | hover, definition, rename, …; `$/cancelRequest`; initialize, shutdown, exit | one answer per request, of the right kind; no permit lost; all work ends after shutdown | `LspRequests`, `RequestService` |
| LSP projections (`diagnostics.rs`, `navigation.rs`, …) | none | view → LSP response | pure functions | – |
| Project processing (`adocweave-project/src/process.rs`, `config.rs`, `selection.rs`) | one request's files, sources and findings | resolve the configuration, read what the root reaches, analyse | open buffers come before files; everything that could change the result is observed | parts of `LspSession`, `Expansion`, `RequestState` |
| Request budgets (`request_state.rs`) | what was read and found; bytes and files counted per request and per configuration | read, inspect, reserve, charge | every byte counts once, limits hold, a target never hears two things of one file | `RequestState` |
| File system authority (`filesystem/`) | directory handles | open, read, probe, compare and replace inside a root | no escape from the root | the replacement, in `ManagedBundle` |
| Managed bundle (`bundle.rs`) | a directory with a manifest | save, open, copy into a snapshot | a served snapshot is one generation; overlapping savers do not both win; a person's files survive | `ManagedBundle` |
| Preview rebuild loop (`adocweave/src/preview.rs`) | last build, dependency fingerprints, build thread | poll, debounce, rebuild, cancel, verify, adopt | a change on disk is shown in the end; a failed build does not lose good slides | `PreviewServer` |
| Preview HTTP workers (`preview/http.rs`) and page | a bounded queue of connections | serve the snapshot | reads one snapshot, changes nothing | – |
| WebAssembly client (`packages/wasm/client.mjs`, `worker.mjs`) | active call, current worker, ready promise, request ID | analyze, abort, dispose; worker messages | one answer per call, its own; no worker outlives its use | `WasmClient`, `WasmAnalyzer` |
| Slides helper (`adocweave/src/slides/helper/`) | a child process and its pipes | run, time out, cancel | bounded time and output, whole responses only, no process left | `SlidesHelper` |
| Preprocessor (`adocweave-core/src/preprocessor/`) | cursors, conditions, attributes, answers, source map | suspend at an include, resume with its answer | the same text as the recursive definition of inclusion, within the limits | `Expansion`, `ExpansionReference` |
| Parser, renderers, lint; command line; wire formats; editor extensions | none across calls | sequential computation | conformance tests of the repository | – |

How they interact: the editor's notifications reach `Backend` on one main loop, which calls
`Session` and hands snapshots to tokio tasks; a task waits for a permit of a semaphore shared with
the read requests, runs `process_project` on a blocking thread and emits an event, which the main
loop handles like a notification. Project processing resolves a configuration, reads the disk
through the file system authority under the request's budgets, answers the includes the
preprocessor suspends at, and tells the session what it observed, so that a notification of the
client's file watcher can be matched with the documents it concerns. The preview runs the same
project processing in a loop of its own, and for slides starts the helper and saves a managed
bundle. The browser client talks to a Web Worker by messages.

The hard behaviours are: results that arrive after what they were computed from has changed; file
changes between a read, its validation and the watcher's report; retries that invalidate each other;
tasks that are dropped while their threads run on; promise continuations that run after their call
was superseded; processes that die between two renames; pipes that fill up; limits shared by files
that are one file under two names. `PROJECT.json` lists them at their lines under `hazards`.

## 2. The modules

| Module | Stands for |
|---|---|
| `SessionService` | what a client may rely on for the results of its documents |
| `LspSession`, `MCLspSession` | the session, the analysis tasks, the file system and the watcher; implements `SessionService`; the workspaces of its runs |
| `LspSessionProofs` | that an adopted view is of the current texts and settings, and what the session promises its client: one task per document, none forgotten, diagnostics that have an owner and settle, changes on disk noticed, and that it implements `SessionService` |
| `LspConvergence`, `MCLspConvergence` | the retries after the last notification, without a bound on them |
| `RequestService` | what a client may rely on for a read request |
| `LspRequests`, `MCLspRequests` | the protocol gate, read requests and the permits they share with analyses; implements `RequestService` |
| `LspRequestsProofs` | the safety part of that refinement, that results are of the current text, and that permits and queue are in order |
| `RequestState`, `MCRequestState`, `RequestStateProofs` | reading and accounting within one project request |
| `Expansion`, `MCExpansion` | the resumable preprocessor and the loop that answers it |
| `ExpansionProofs` | that each include gets the file it names, and that the limits hold |
| `ExpansionReference` | inclusion by recursion, which `Expansion` must agree with (recursive; only for TLC) |
| `ManagedBundle`, `MCManagedBundle`, `ManagedBundleProofs` | saving, opening and copying a bundle, with crashes and an editor |
| `PreviewServer`, `MCPreviewServer`, `PreviewServerProofs` | the preview's rebuild loop, its build thread and the files they look at |
| `WasmAnalyzer` | what the browser client promises a page |
| `WasmClient`, `MCWasmClient`, `WasmClientProofs` | the client, its workers and the messages between them; implements `WasmAnalyzer` |
| `SlidesHelper`, `SlidesHelperProofs` | one run of the helper process |

A definition under "Altered:" is a mutant: a plausible mistake in the definition that follows it,
used by nothing else. `PROJECT.json` pairs each with the property that it breaks.

### LspSession

State. `docs` is `DocumentStore::documents`, with the revision (version, generation) that
`snapshot_is_current` and `revision_is_current` compare. A document's view is represented by what it
was computed from: `read`, the contents of the files it used, `held`, the editor versions among
them, and the settings. `observations` and `pending` are the two maps of `Session`; `workers` is
`Backend::analysis_workers`; `cancelled` is the set of generations whose token is cancelled. A *job*
is a `ProjectAnalysisSnapshot` from the moment it is scheduled until its last event is handled; its
`stage` says whether it waits for a permit, runs on a blocking thread, or is an event in the queue.
`shown` is what the client displays.

Actions. A handler of the main loop is one action, since `async-lsp` runs them one at a time:
`DidOpen`, `DidChange`, `DidSave`, `DidClose`, `DidChangeWatchedFiles`, `DidChangeConfiguration`,
`Shutdown`, `ProjectProcessingCompleted`, `ProjectValidationCompleted`. What runs beside it takes
smaller steps: `StartProcessing`, `ReadResource` (one file), `FinishProcessing`, `StartValidation`,
`CheckObservation` (one file), `FinishValidation`, `AbandonedReturn`. `WriteFile` changes the disk
at any moment and leaves a notification outstanding; the client may deliver any set of them.

Three details decide most properties, and are kept as the code has them:

* Snapshots made in one handler are taken one after the other. `Turn` gives each its generation, and
  `Captured` shows it the generations of the earlier ones, and the old ones of the later ones, which
  will make it retry.
* Aborting a task frees its permit at once and drops a result that has not been emitted; a blocking
  thread cannot be aborted and goes on (`abandoned`), and an event already emitted arrives.
* `didClose` of a document that is not open returns before scheduling what `Session::close` made.

Abstractions. A text is a model value with the set of documents it includes; what a request reads is
the closure of these includes, which open buffers answer before the disk does. Findings are not
represented: for a displayed URI the model keeps the set of roots that contribute. Debounce is part
of the time a job waits. `workspace/didChangeWorkspaceFolders` re-analyses the documents whose root
changes, as a settings change re-analyses all; the roots themselves are not modelled. Reading
budgets, panics and invalid incremental ranges are left out.

`SessionService` knows nothing of tasks, generations, captured buffers, observations or validation. An
analysis is one step (`Show`): it takes open documents from the editor and the rest from the disk,
follows the includes, and what it gives is the result of the document. Results go in the step that
changes what they rest on (`Edit`, `Report`, `Reconfigure`), and only then; retries, cancellations and
the work of tasks are invisible (`Restart`). It grants the server two things. A file whose change
the watcher has not reported (`unreported`) may be taken with any content, since it was read at some
moment in between. And a document opened while an analysis is under way may be missing from it
(`late`, see section 4). The refinement mapping computes the texts from `docs` and the results from
the adopted views; `late` are the open documents that a current job has not captured. That is what a
result may be when it comes; `Current` (`ResultsAreCurrent` in `LspSession`) says that it stays so:
after any later edit, file change, report or change of settings, a result the server still holds is
one that an analysis could give now.

### LspConvergence

Retries give new generations, so `LspSession` can only be explored up to a bound on them, which says
nothing of whether they end. `LspConvergence` starts after the last notification, with a fresh job
for every open document, and records of a captured generation only whether it is still current,
which is all that is ever asked. Its state space is finite without a bound. Of what a document
captured it only looks at the documents it keeps, since `ProjectSourceIndex::retain` drops the others
before anything is compared (`HoldsOn`). That these are the steps of `LspSession` is a theorem
(`QuietSessionConverges`, section 5).

### LspRequests and RequestService

State. `phase` is `ProtocolLifecycle::state`. Of a document only what requests look at is left: the
generation of its snapshot (the token a request watches), the generation at which its text was set,
and the text of its adopted view. `tasks` says how far an analysis is, as far as it holds or waits
for a permit. `requests` are the futures of `cpu_request` with the outcome of their blocking thread;
`queue` and `available` are tokio's semaphore, which serves its waiters in order.

Actions. The client's messages pass the gate (`Initialize` … `Exit`, `Refuse`, `Receive`,
`Cancel`); `Start`, `EndThread` and `FinishRequest` are the three parts of `run_cpu_request`; `Drop`
is what the concurrency layer does with a withdrawn future, wherever it is. A thread that is
running keeps the permit that was moved into it, also when its future is gone. The two tokens are
asked at the places where the code asks them: before the thread, inside it, and after it.

`RequestService` knows nothing of queues, threads or permits: a request is refused or open; an open
one is answered once, with a result or a failure only while its document is unchanged and it is not
withdrawn, and in the end. The refinement mapping takes `changed` to be the requests whose token is
cancelled.

### RequestState

One action per call of `process.rs`, whole: `Read` reserves, asks for an allowance, reads or finds
what is kept, charges what was observed, then charges the body; `ReadConfig` and `Inspect` likewise.
Files change at any time, so a call finds any content (`found`) at a path. A scope is a
configuration, shared by the targets that resolve to it. `Real` names what a path resolves to, so
that two paths can be one file.

Some details that a reader of the code may not expect are kept: `read_allowance` takes the request's
limit less the bytes read, without what the buffers took; a refusal that is the scope's own is not
kept for other scopes (`specific`); what was missing or unreadable may be refused later for a limit,
never loaded; a body is refused only by the call that weighs it. Left out: several authorities for
one source ID, and the separate budget of inspections, which only keeps `Inspect` from being called.

### Expansion and ExpansionReference

`Expansion` is `PreprocessMachine` with its stack of cursors, conditions, attributes, fences,
position in the header, limits, table of answers and suspension, and the loop of `analyze_target`
that answers it from the file system. A line is a record of its kind and of what a directive in it
names. The reference is a recursion over the same files without suspension, table, stack of
conditions or limits; `ExpandsAsReference` compares results, errors and the measure of each limit.
Left out: switched-off includes, level offsets, negative indentation, encodings and targets that are
URIs, the values of `ifeval`, comment lines, and the fallback of `resolve_lookup_path`, which this
loop never reaches.

### ManagedBundle

Every system call of `save_managed_bundle` that reads or changes the directory is a step: the checks
before the first change, per file the creation of a temporary file, its filling, the comparison of
the target and the rename, then stale files, directories, and the check of the result. A saver may
fail at any step; `temps` is what a crash leaves. A reader opens, verifies and copies; an editor
writes or deletes any file. Contents stand for digests, and the manifest's content is the generation
it describes. Path validation and size limits are data.

### PreviewServer

State. `pc` is where `run` is; `known` is `State::dependencies` with their fingerprints, `next` those
of a build that is being verified, `served` what the `HttpSnapshot` was made of (`read`) and, for
slides, which complete build is still shown (`shown`). `build` is the thread of `run_build`.

Actions. Everything that looks at the disk does so one file at a time, between which files may
change: a build (`BuildRead`) and each of the seven places where `run` calls
`refresh_dependencies` (`poll`, `prepare`, `monitor`, `check`, `verify`, `drop`, `fail`), which
differ in what follows (`PollDone` … `FailDone`). A fingerprint is the content. A build reads the
configuration, then the document and what it includes; a broken configuration ends it at once, and a
file over its size limit carries no observation (`Dependencies`). A cancelled build may give up at
any step or come to its end, as the cancellation is cooperative.

Time is left out: a poll or the end of the debounce may come at any moment, so the model has more
behaviours than the code. `Unrenderable` texts stand for the only error the build callback returns
without being cancelled (`preview_diagnostics`); `NoChangeMissed` and `Settles` do not speak of what
is served after it, since `replace_failure` keeps the old dependencies and refreshes their
fingerprints. Panics of the build and errors of `accept`, which end the program, are left out.

### WasmClient and WasmAnalyzer

State: the private fields of `AdocWeaveClient`, each call's promise and request ID, the ready
promise of every worker, the continuations not yet run, and for every worker its state and the two
message queues. Page actions (`Refuse`, the three `Analyze…`, `Abort`, `Dispose`) may come between
any two microtasks; a message is delivered only when no continuation can run (`Runnable = {}`), as
the event loop guarantees. A terminated worker takes no further step and its messages are not
delivered. The worker can fail to be constructed, to be posted to, to initialize, and at any moment
afterwards.

`WasmAnalyzer` is the abstract specification: a call is answered at once or becomes the one pending
call; a pending call is settled once, in the end; after `dispose()` the only answer is "disposed".
The refinement mapping is the identity on `answer` and `disposed`; the worker, its messages and the
continuations are hidden.

### SlidesHelper

`execute` on Unix: the four futures of its `try_join` (`WriteInput`, two `ReadOutput`, `WaitChild`)
in any order, raced with the time limit and the cancellation, then `Conclude` or, on failure,
`KillGroup` and `Reap`. The environment is a helper that either answers (possibly writing before it
has read) or does anything, and something it has started, inside or outside its process group, which
may hold the pipes open. Only failure kills the group: a descendant that closed its pipes survives a
run whose helper ended by itself, whatever its status. Finding the executable, the contents of the
response and the Windows job are left out.

## 3. Runs

Deadlock is checked for `RequestState`; the other runs switch it off because the systems may stop:
the server after exit or at the bound on generations, the savers when they have ended, the expansion
when it is complete.

| Run | Instance | Shows |
|---|---|---|
| `LspSession` | documents 1 and 2, 1 includes 2; both edited, closed, reopened; 1 permit, 4 generations | `TypeOK`, `Consistent`, `ViewMatchesEditor`, `AnalysisOwed`, `DiagnosticsOwned`, `DiagnosticsSettle`, `OneTaskPerDocument`, `Implements` |
| `LspDisk` | document 1 open; the file it includes changes, disappears, returns; 2 permits | `DiskChangeAnnounced` |
| `LspConfig` | the configuration breaks and is repaired; settings change; document 3 is untitled; 3 generations | `ResultsAreCurrent` |
| `LspConvergence` | 4 documents, acyclic inclusion, 2 permits | `Converges` |
| `LspRequests` | 2 requests (one looks at the whole project), 2 documents, one observing the other, 1 permit, 2 generations | `PermitsConserved`, `QueueServed`, `Implements`, `OwnDocumentCurrent`, `Drains` |
| `PreviewServer` | slides; configuration absent or broken, include plain, too large or unrenderable | `NoChangeMissed`, `Settles`, `SlidesKept` |
| `WasmClient` | 3 calls, request IDs start over after 2 | `OwnResult`, `WorkIsWanted`, `NoWorkerLeaked`, `Implements` |
| `ManagedBundle` | 2 savers of different generations over a third, an empty or a full directory, a reader, one edit | `TypeOK`, `ServedIsWhole`, `OneWinner`, `UndisturbedAccepted`, `SavedIsComplete`, `UnknownFilesKept` |
| `RequestState` | a document, a link to it, a buffer and a configuration; a narrow and a wide scope | `PhysicalReadsLimited`, `ScopeAccounted`, `FilesWithinScope`, `AnswersStay` |
| `Expansion` | every document of up to 3 lines of 7 kinds and some longer ones, with 9 second and 5 third files, missing, unreadable and cyclic ones, an empty target, a link in the same directory | `ExpandsAsReference`, `IncludesFromTheirBase`, `Terminates` |
| `ExpansionLinks` | a file and a symbolic link beside it that include one name | violates `IncludesFromTheirBase` (section 4) |
| `SlidesHelper` | pipes of 1 unit, a request of 2, a response of 3, 1 unit of noise | `NothingLeftBehind`, `ResultIsWhole`, `Terminates`, `Converses` |

The type invariant of `Expansion`, `SlidesHelper`, `RequestState`, `LspRequests`, `PreviewServer` and
`WasmClient` is the first conjunct of `ExpandsAsReference`, `ResultIsWhole`, `ScopeAccounted`,
`QueueServed`, `NoChangeMissed` and `WorkIsWanted`.

Bounds, and why they are enough. `MaxGeneration` bounds the snapshots of one behaviour and so every
other counter; in `LspSession` four are enough for an open, a second open, a change that supersedes
both and a retry. Two documents suffice for every comparison, since each relates one root and one
other document; a third is used where one is not a file (`LspConfig`). `MaxVersion = 2` lets a version
repeat after a reopen. One permit makes jobs wait, two make them overlap. In `LspRequests` one permit
is contended by two requests and two analyses; the second generation cancels the token of the first.
In `WasmClient` the third call's ID equals the first one's, which is the shortest wrap-around.
`PreviewServer` needs no bound: files change for ever among six combinations of contents, with which
a build is complete, fails at the configuration, fails at a file it cannot depend on, or returns an
error. Three files are the configuration, a file that is read whatever it says, and one that is read
only if an earlier file could be. In `ManagedBundle` one generation lacks a file and a directory of
the base and the other keeps a file unchanged, so that writing, removing, pruning and keeping all
occur. `RequestState` has sizes on both sides of every limit of both scopes and of the request, and
needs no bound either. The limits of `Expansion` are small enough for each to be exceeded by some
document and for most documents to complete. The pipes of `SlidesHelper` hold less than the request
and the response, which is what a deadlock needs.

Fairness. `LspSession`, `ManagedBundle` and `RequestState` state safety only. In `LspConvergence`,
threads return and events are handled (weak fairness; also those of superseded analyses, which hold
permits of the session for a while and which it does not see); starting is strongly fair because tokio's
semaphore serves its waiters in order. `LspRequests` has that order itself (`queue`), so weak
fairness of what the runtime does is enough; nothing is assumed of the client. In `WasmClient` the
page's event loop and a running worker make progress, so initialization and an analysis are assumed
to end; nothing is assumed of the page's calls nor of failures. In `PreviewServer` the loop and the
build thread make progress; the end of the debounce and of a build are strongly fair, because every
turn of the loop and of `run_build` looks for them, between polls that disable them for a moment.
Files need not stop changing: `Settles` supposes it. `Expansion` has one thread, which goes on. In
`SlidesHelper` a future that is ready is polled, and a time limit that has passed is noticed; only a
helper that answers is assumed to go on reading and writing, and only `Converses` is about it.

Every property of a passing run has a mutant with which TLC finds the property violated under the
same configuration.

## 4. Where the code and its documentation differ

**`ExpansionLinks` / `IncludesFromTheirBase`.** The machine and `FixedLookup` remember an answer under
the logical target of an include, while the host resolves it from the real directory of the file
that includes. A file and a symbolic link beside it share a logical directory and not a real one, so
the second is given the file next to the first (`machine.rs:404`, `process.rs:1359`);
`architecture.adoc:118` says that the base of an include is a verified path of the operating system.

The following were observed while modelling and are described here only; the models behave as the
code does.

* The permit of an analysis is held by the async wrapper (`backend.rs:341`). Aborting the wrapper
  frees it while the thread still runs, so superseding analyses exceed the limit that
  `language-server.adoc:61` states; for read requests the permit moves into the thread.
* A document opened while the first analysis of a root that includes it has already read it from disk
  is not preferred (`service.rs:916`, `language-server.adoc:101`): validation finds the file unchanged,
  and nothing analyses the root again until one of the two is edited. `Implements` of `LspSession`
  says that a result misses an open document in no other way.
* Diagnostics of an unopened document read by two roots are converted with the text the first root
  read, whichever root found them (`state.rs:233`, `service.rs:1289`).
* A failed request keeps all captured buffers and each retry gives its document a new generation, so
  two open documents under a broken configuration, or two that include each other, can invalidate
  each other for ever (`service.rs:1050`, `language-server.adoc:98`). It ends as soon as one is adopted
  between the other's snapshot and its completion. `Converges` supposes acyclic inclusion.
* A file over the size limit of one resource carries no observation (`request_state.rs:964`): if an
  include is over it when the preview starts, shrinking it changes nothing on the page
  (`command-line.adoc:360`). `Settles` excepts it.
* A rename watches the token of the requested document only, although it looks at every document
  (`language-server.adoc:66`). `OwnDocumentCurrent` is about that one document.
* A body that was charged once is not compared with a narrower limit again, and the memory path
  ignores a limit kept in the observation (`request_state.rs:754`, `process.rs:1891`); hence
  `FilesWithinScope` is about files, not buffers.
* `bundle.rs:647` promises that a file changed meanwhile is not overwritten; between the comparison
  and the rename (`filesystem/mod.rs:421`) it can be. `UnknownFilesKept` and `OneWinner` say what holds
  all the same.
* In a verbatim block the preprocessor stacks delimiters it sees inside, so a second kind of fence
  inside an open one delays the end of the first; the reference does the same.

## 5. Proofs

Each module of proofs has an inductive invariant, one lemma per action (or per group of actions with
the same reason), and theorems that follow with `PTL`. Except where stated, they hold for every value
of the constants that the component's own `ASSUME` allows.

**`LspSessionProofs`** (`TypeCorrect`, `ComparisonsSound`, `ViewsMatchEditors`,
`ViewsUseCurrentSettings`). `ViewMatchesEditor` is not inductive: adopting a result compares versions
and generations, not texts, so it needs that a generation names one text, which needs that
generations are handed out once. And a change of a text must reach every view that used it, so a view
must be among the observers of every buffer it holds: the handler that changes the text then
re-analyses the view's document in the same step. Settings travel with the snapshot in the same way.
These four facts are `Consistent`, which TLC checks too. `DependentsCover` is the central lemma.

The second part of the module (`OneTask`, `NoneForgotten`, `ShownIsOwned`, `DiskChangesNoticed`,
`DiagnosticsSettled`) builds on that invariant. Every handler that changes documents is first shown to
be a renewal (`Renews`, `Watches`): it gives some documents new generations, starts their tasks,
aborts or cancels the older ones and leaves the rest alone. Each of four invariants then has to
survive only a renewal, a step of one task and the handling of an event:

* `Tasks`: generations tell tasks apart, the workers hold the newest task of each document, which is
  the only one that can still be aborted, and what was cancelled is never what an open document waits
  for. `OneTaskPerDocument` and `AnalysisOwed` follow.
* `Covers`: the task whose result a document waits for remembers at least where the document has
  published, so the handler of the result publishes again at all of it. It contains `DiagnosticsOwned`.
* `Watched`: a result observes every file it read, and so does an analysis once it is queued for
  validation; a file that a validation found unchanged still is, or its report is still to come. It
  contains `DiskChangeAnnounced`.
* `Settled`: for a document that has its result, what is shown is what the document contributes.
  `DiagnosticsSettle` follows, since by `AnalysisOwed` nothing is pending once there are no tasks.

`OneTask` and `DiskChangesNoticed` hold for every client. `NoneForgotten`, `ShownIsOwned` and
`DiagnosticsSettled` hold for a client that keeps
to the protocol (`StrictClient`): closing a document that is not open leaves its observers' snapshots
without tasks (`backend.rs:137`), and opening one that is open forgets where it has published.

`SessionAsPromised` is the refinement of `SessionService`, whole, since that states safety only, and for
every client. It rests on `Inv`, `Tasks`, `Watched` and two more invariants: a document has no result
while its current task exists, a thread that has returned without being cancelled has read everything
it needs, and after shutdown nothing is adopted (`Owing`); an open document has a text (`Written`). A
renewal is a `Withdraw` of the same documents: new snapshots capture every open document, so they
overlook none, and whoever rests on what changed observes it, so nobody keeps a result (`Edit`,
`Report`). Adopting is a `Show`. Every file the analysis needs has, in the adopted view, the content it
has in the workspace now: a captured buffer because its generation is current, a file because validation
found it unchanged or its report is to come. The files reached depend on the contents of those files
alone (`NeededReached`, without induction: each closure is a set closed under the other's includes), so
an analysis of the present workspace reaches the same ones.

`ResultsStayCurrent`, again for every client, says what the refinement leaves to its reader: a result is
right not only when it comes but for as long as it is held (`ResultsAreCurrent`). A step of
`SessionService` keeps it: an edit withdraws the results that rest on the edited document
(`EditKeepsCurrent`), a write makes the file one that may have any content (`WriteKeepsCurrent`), and
its report withdraws what rests on it (`ReportKeepsCurrent`). The lemma behind these is `SameAnalysis`: two
analyses that agree on what the first one rests on are equal, since what a root reaches depends on the
contents of what it reaches alone (`ReachedBy`).

The last part of the module shows that `LspConvergence` is the session after a notification that gives
every open document a new snapshot. `RestartsBeginAnalyses`: after such a notification (`RestartsAll`) each
document waits for an analysis that captured all of them, and superseded in it are exactly the
generations of the documents whose turn came later, which is `LspConvergence`'s initial state (`Begun`).
`QuietSessionConverges`: while only the runtime moves from there on, every step of the session is a step of
`LspConvergence` over the documents open then, or one it does not see (steps of superseded analyses and of
documents without a file, reading and checking one file). The invariant (`Calm`) is that every analysis
somebody waits for is `Undisturbed`: it captured the texts and has read the files as they are now, so that
it finds, whenever it ends, what its document keeps in the end (`Keeping`, `RetainedKept`), and validates.
Then the only reason to retry is a superseded generation among the kept ones. With permits held by other
analyses the session may have to wait where `LspConvergence` need not, never the reverse (`PermitsLeft`).
`QuietSessionMovesOn` adds why the retries end: each step takes one document forward, and a retry, which
leaves its document with nothing superseded, costs only those that keep it. Order the documents so that
none keeps a later one: the stages and superseded captures then decrease lexicographically. That last
step, and that the session goes on at all, is `Converges`, which TLC checks under the fairness of section 3.

**`LspRequestsProofs`** (`Invariance`, `OwnDocument`, `AnswersAsPromised`). The invariant says that a
generation names one snapshot and is cancelled when the snapshot is replaced (`Fresh`), and that what
a request has seen is of its document's text unless the token it watches is cancelled (`Current`).
`FinishRequest` asks the token in the same step as it answers, so a result is of the current text.
With it every step maps to a step or a stutter of `RequestService`; the theorem is the safety part of
`Implements`.

`Permits` and `Queue` have an invariant of their own. A task that is dropped leaves the queue wherever
it stands (`Forget`), so the proof first shows what is left of a sequence without repetitions when a
set of its members goes: a sequence without repetitions of the others. Then every handler is one of a
few changes of queue, permits and threads together: to join, to leave, to be served, to return.
`Permits` needs that a thread keeps its permit whatever happens to its request, and `Queue` that who
waits is exactly who has neither a permit nor an answer.

`ShutdownDrains` is the arithmetic of `Drains`. After shutdown there is no analysis (`Idle`), so what is
left is to start a request, to end its thread and to answer it (`DrainWork`). Only exit leaves the
phase, no step adds to that work, each step of the server takes from it, and while something is left
one of the server's steps is ready (`ServerReady`): if no thread runs, a permit is free for the head
of the queue.

**`RequestStateProofs`** (`TypeCorrect`, `ReadsLimited`, `AnswersKept`). The bytes a request reads
stay within its limit plus the byte that tells a file is too large. This needs that an allowance never
exceeds what is left, and that a read which does exceed it ends all later ones, whatever the scope. It
rests on `BuffersFit`, the check of `Processor::new` that refuses a request whose buffers alone are too
large. That an answer stays follows from an invariant that gives each answer its reason: the content
kept of the file, or a refusal that does not go away (`Explained`, `Refused`). It rests on
`LimitsPositive`, which `config.rs:861` enforces: under a limit of zero an empty file would be given
once and refused afterwards.

`ScopesAccounted` and `GivenWithinScope` relate a counter to a sum over all files. What a sum over a
finite set becomes when one summand changes is proved for the library's `SumFunction` by taking a
smallest counterexample among the subsets (`WFMin`), which needs no induction rule with an operator
parameter. Then each call of the budget changes the summand of the one file it is about by what it adds
to the counter (`Balanced`). That a scope's files fit its limits also where another scope had read them
needs `Fitting`: a file that was given has been weighed, its body counts its size, and that is within
the limit.

**`ExpansionProofs`** (`IncludesFound`, `LimitsKept`, `ExpansionDescends`). The machine counts a resource's key from the
directory of the root, and the host a path from the directory of the file that includes. `Agreeing`
says of everything the machine holds, the suspended include and the remembered answers too, that the
two name the same file. It is preserved because an answer remembered by key is one for the same file as
long as no link leads to another directory; that is the hypothesis of `IncludesFound`
(`LinksStayBeside`), and run `ExpansionLinks` shows what happens without it. `LimitsKept` holds for
every file system: depth, includes, nodes, segments and bytes stay within their limits through every
suspension. A cursor on the stack was entered under the limit of the depth, and the sources active in
it are as many as it is deep (`Limited`). What the output comes to in bytes is a fold, whose value
for one more segment is derived by counting the units of the sum instead of induction.
`ExpansionDescends` is why expansion ends even where files include each other: a step takes from the
includes that may still be made; or else goes from suspended to running; or leaves a source; or reads a
line; or is the cancellation. These five, in this order, are a lexicographic order of tuples of
numbers, which is well-founded, and each action descends in it.

**`ManagedBundleProofs`** (`TypeCorrect`, `SnapshotsWhole`, `UnknownFilesSurvive`, `NoneRefusedAlone`,
`SavesComplete`, `OneWinnerOfTwo`). The strengthening says for each place of a saver what its file and
its work list are about (`Working`): a file being replaced or removed is of the base, which is what
`UnknownFilesKept` needs, and what the reader has copied is of the generation it opened (`Copied`).
While nobody else changes anything, the directory is where the saver believes it to be (`InStep`): the
names it has not dealt with yet (`OldNames`) are as in the base, all others as in the new generation;
so no check of its own refuses it, and what is left in the end is its generation. `OneWinnerOfTwo` is
about two savers, either of which may be anywhere (`Race`): one that is about to rename its manifest
still finds the base there, unless the other has published; so the second to publish had written all
its files before the first one did, from then on no file changes, and the last checks of both look at
the same files. It assumes what it says, two savers (`AtMostTwo`; a third could put the old manifest
back) and generations that differ in some file (`DistinctBundles`).

**`PreviewServerProofs`** (`ChangesNoticed`, `SlidesSurvive`, `QuietPreviewSettles`). A build under way is remembered by the
debounce until it is adopted or dropped (`UnderWay`); in `verify`, if nothing was noticed so far, the
fingerprints in `next` are those of what the build has read (`Agree`). `Adopt` carries that over to
`known` and `served`, and every scan of the known dependencies either finds them unchanged or leads to
a rebuild. `QuietPreviewSettles` is about steps that change no file and no shutdown flag. It gives the
loop a distance from rest: settled, in the last build, a rebuild due, polling, anything else. No such
step increases it; a poll begun since the last change that notices nothing is rest; a rebuild prepared
since then reads what is on disk, is never superseded, dropped or refused by its verification, and its
adoption is rest (`LastBuildStep`); and at rest what is served is of what is on disk, with the
exceptions `Settles` names. It needs that a scan looks only at dependencies (`Looking`).

**`WasmClientProofs`** (`TypeCorrect`, `ResultsAreOwn`, `NoneLeaks`, `WorkersServeTheCall`,
`KeepsPromise`, `EffortRunsOut`, `CallsAreAttended`). The invariant describes the whole conversation with the current worker: it is either
starting, with no call posted, or serving, and then at most one message is under way, which carries
the ID and the call that is pending (`Starting`, `Serving`). Everything else follows; `KeepsPromise`
is the safety part of `Implements`. It needs finitely many calls, each of which makes at most one
worker. The last two are what its liveness part rests on: every step leaves less `Effort` (calls not
yet asked, continuations, what the worker has before it, and what may still be given up), and while a
call waits, its continuation or the current worker can go on (`ClientReady`), because a call that is
not posted has a continuation whose promise is settled or that of a worker still starting
(`Attended`).

**`SlidesHelperProofs`** (`NoProcessLeft`, `ResponsesWhole`, `RunsAreFinite`,
`NeitherWaitsForTheOther`, `AnswersAreUsed`). What was written to stdout has been read or is in the
pipe (`Accounted`), the end of a stream is final once nobody can write to it (`Ended`), and a process
group that was killed has no member left. The other three are the arithmetic of `Terminates` and
`Converses`, for pipes of any capacity: each step leaves less `Work` (units not yet written or read,
and how far the host, the child, its descendant and the streams are from their ends); while a helper
that answers runs, the host has something ready or the helper can read, write or end; and such a run
ends in its answer or in a failure that is not the helper's. `Answering` is the invariant behind the
last two: an answering helper starts nothing, writes only its response to stdout, and ends by itself
after all of it, so that a broken stdin or an early end of the child has a cause. `HostReady` and
`HelperReady` are the guards of the steps, written out, since the prover does not reason about
`ENABLED`.

Only model-checked, and why:

* liveness and fairness: `Converges`, `Terminates` of `SlidesHelper` and of `Expansion`, `Converses`,
  `Drains`, `Settles`, and the liveness part of `Implements` in `LspRequests` and `WasmClient`. The
  arithmetic of most of them is proved: the measure that each step lowers (`QuietSessionMovesOn`,
  `RunsAreFinite`, `ExpansionDescends`, `ShutdownDrains`, `EffortRunsOut`), what is ready meanwhile
  (`NeitherWaitsForTheOther`, `ShutdownDrains`, `CallsAreAttended`) or the stages the system does not
  fall back from (`QuietPreviewSettles`). That readiness is `ENABLED`, and that fairness then gives the
  step, stays with TLC; of read requests before shutdown, and of how long a preview's poll or build
  goes on, nothing of the kind is proved;
* `ExpandsAsReference` compares with a recursion over the depth of inclusion; its first conjunct, the
  limits, is proved.

## 6. Not modelled, and the plan

Not modelled: the parser, renderers, text lint and lint rules (pure functions over text, with
conformance tests in the repository; they are most of its lines and have no state that a model
checker would reach better than their tests); projections of a view to LSP responses, wire formats
and glue; path resolution and directory handles of the file system authority, whose correctness is
that of operating system calls; the preview's HTTP workers and page, which read one snapshot and
change nothing; packaging and the editor extensions. Within modelled components, what is left out is
said in section 2.

What would come next, in this order:

1. The bounded worker pool of `preview/http.rs` with its shutdown, and the page that polls the
   generation of what `PreviewServer` serves.
2. Targets and selection rules of one project request (`lib.rs`, `selection.rs`) over `RequestState`.
