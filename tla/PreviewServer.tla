---------------------------- MODULE PreviewServer ----------------------------
(***************************************************************************)
(* The live preview (preview.rs, commands/preview.rs): a loop that polls   *)
(* the files the last build depends on and builds again when one changed,  *)
(* on a thread of its own, while files go on changing.                     *)
(*                                                                         *)
(* A scan of the dependencies looks at one file at a time; so does a       *)
(* build.  The time a poll or the debounce waits is not modelled: either   *)
(* may end at any moment.                                                  *)
(*                                                                         *)
(* A definition under "Altered:" is a plausible mistake in the one that    *)
(* follows it, and is used by no other definition.                         *)
(***************************************************************************)
EXTENDS Integers, FiniteSets

CONSTANTS
  Files,         \* the files a build can read
  Config, Root,  \* the project configuration and the previewed document
  Texts,         \* the contents a file can have
  Missing,       \* what is observed of a file that does not exist
  Unread,        \* what a build that has not read a file knows of it
  Includes,      \* Includes[t]: the files that text t includes
  Broken,        \* texts that are not a valid configuration
  Faulty,        \* texts that are read and make the build fail
  Unobserved,    \* texts over the size limit of one file, which no dependency records
  Unrenderable,  \* texts whose diagnostics cannot be rendered in a slide build
  Bodies,        \* Bodies[f]: the contents this instance lets file f have
  Slides         \* TRUE: preview --to revealjs

Contents == Texts \cup {Missing, Unread}

ASSUME PreviewAssumption ==
  /\ IsFiniteSet(Files) /\ Config \in Files /\ Root \in Files \ {Config}
  /\ Missing \notin Texts /\ Unread \notin Texts /\ Missing # Unread
  /\ Includes \in [Texts -> SUBSET (Files \ {Config})]
  /\ Broken \subseteq Texts /\ Faulty \subseteq Texts
  /\ Unobserved \subseteq Texts /\ Unrenderable \subseteq Texts
  /\ Bodies \in [Files -> SUBSET (Texts \cup {Missing})]
  /\ Slides \in BOOLEAN

VARIABLES
  disk,        \* what is on disk
  pc,          \* where the loop of run() is; the name of a scan while it is under way
  unseen,      \* files the scan has still to look at
  noticed,     \* the scan found a difference
  known,       \* State::dependencies with their fingerprints; Unread: no dependency
  next,        \* dependencies of the build being verified
  served,      \* the HttpSnapshot: what the last build made of what it read
  debouncing,  \* ChangeDebounce::changed_at is set
  build,       \* the build thread: what it has read and its result
  superseded,  \* the build under way has been cancelled
  shutdown     \* the shutdown flag

vars == <<disk, pc, unseen, noticed, known, next, served, debouncing, build, superseded,
          shutdown>>

Nothing == [f \in Files |-> Unread]
Scans == {"poll", "prepare", "monitor", "check", "verify", "drop", "fail"}

(* Every variable has its type, and a cancelled build is gone before the   *)
(* loop goes on: it is neither verified nor made an error.                 *)
TypeOK ==
  /\ disk \in [Files -> Texts \cup {Missing}]
  /\ pc \in Scans \cup {"first", "idle", "building", "stopped"}
  /\ unseen \subseteq Files
  /\ noticed \in BOOLEAN /\ debouncing \in BOOLEAN
  /\ known \in [Files -> Contents] /\ next \in [Files -> Contents]
  /\ served \in [outcome : {"none", "ready", "failed", "error"}, read : [Files -> Contents],
                 shown : [Files -> Contents]]
  /\ build \in [read : [Files -> Contents], result : {"none", "ok", "err"}]
  /\ superseded \in BOOLEAN /\ shutdown \in BOOLEAN
  /\ superseded => pc \notin {"idle", "poll", "prepare", "verify", "fail"}

Fresh == [read |-> Nothing, result |-> "none"]

Init ==
  /\ disk \in {d \in [Files -> Texts \cup {Missing}] : \A f \in Files : d[f] \in Bodies[f]}
  /\ pc = "first"
  /\ unseen = {} /\ noticed = FALSE
  /\ known = Nothing /\ next = Nothing
  /\ served = [outcome |-> "none", read |-> Nothing, shown |-> Nothing]
  /\ debouncing = FALSE
  /\ build = Fresh
  /\ superseded = FALSE /\ shutdown = FALSE

-----------------------------------------------------------------------------
(* A build: build_with_slides. *)

IncludedBy(t) == IF t \in Texts \ Unobserved THEN Includes[t] ELSE {}

(* The configuration is read first, then the document and what it includes. *)
Frontier(read) ==
  IF read[Config] = Unread THEN {Config}
  ELSE IF read[Config] \in Broken \cup Unobserved THEN {}
  ELSE {f \in {Root} \cup UNION {IncludedBy(read[g]) : g \in Files \ {Config}} :
          read[f] = Unread}

(* Altered: only the configuration is a dependency.                        *)
DependenciesConfig(read) == [f \in Files |-> IF f = Config THEN read[f] ELSE Unread]

(* The resources that carry an observation, or the error's repair candidate. *)
Dependencies(read) == [f \in Files |-> IF read[f] \in Unobserved THEN Unread ELSE read[f]]

Fails(read) ==
  \/ read[Config] \in Broken
  \/ read[Root] = Missing
  \/ \E f \in Files : read[f] \in Faulty \cup Unobserved

Building == pc \in {"first", "building", "monitor"} /\ build.result = "none"

BuildRead(f) ==
  /\ Building /\ f \in Frontier(build.read)
  /\ build' = [build EXCEPT !.read[f] = disk[f]]
  /\ UNCHANGED <<disk, pc, unseen, noticed, known, next, served, debouncing, superseded,
                 shutdown>>

(* A cancelled build gives up at its next check, or comes to its end.      *)
BuildEnds ==
  /\ Building
  /\ \E r \in {"ok", "err"} :
       /\ build' = [build EXCEPT !.result = r]
       /\ \/ superseded /\ r = "err"
          \/ /\ Frontier(build.read) = {}
             /\ r = "err" <=> /\ Slides /\ ~Fails(build.read)
                              /\ \E f \in Files : build.read[f] \in Unrenderable
  /\ UNCHANGED <<disk, pc, unseen, noticed, known, next, served, debouncing, superseded,
                 shutdown>>

-----------------------------------------------------------------------------
(* Scans: refresh_dependencies, one dependency at a time. *)

Keys(map) == {f \in Files : map[f] # Unread}

Scan(name, map) == pc' = name /\ unseen' = Keys(map) /\ noticed' = FALSE
Rest == pc' = "idle" /\ unseen' = {} /\ noticed' = FALSE

(* Altered: the latest fingerprint is compared and not stored.             *)
LookOnly(f) ==
  /\ pc \in Scans /\ f \in unseen
  /\ unseen' = unseen \ {f}
  /\ noticed' = (noticed \/ (IF pc = "verify" THEN next ELSE known)[f] # disk[f])
  /\ UNCHANGED <<disk, pc, known, next, served, debouncing, build, superseded, shutdown>>

Look(f) ==
  /\ pc \in Scans /\ f \in unseen
  /\ unseen' = unseen \ {f}
  /\ noticed' = (noticed \/ (IF pc = "verify" THEN next ELSE known)[f] # disk[f])
  /\ IF pc = "verify" THEN next' = [next EXCEPT ![f] = disk[f]] /\ UNCHANGED known
                      ELSE known' = [known EXCEPT ![f] = disk[f]] /\ UNCHANGED next
  /\ UNCHANGED <<disk, pc, served, debouncing, build, superseded, shutdown>>

Scanned(name) == pc = name /\ unseen = {}

-----------------------------------------------------------------------------
(* The loop of run(). *)

Halt == pc' = "stopped" /\ UNCHANGED <<unseen, noticed, known, next, served, debouncing>>

(* Altered: a failed build replaces the slides it could not update.        *)
SnapshotOfFailure(read) ==
  IF Fails(read) THEN [outcome |-> "failed", read |-> read, shown |-> Nothing]
  ELSE [outcome |-> "ready", read |-> read, shown |-> read]

(* State::adopt: only slides survive a failed build.                       *)
Snapshot(read) ==
  IF Fails(read)
  THEN [outcome |-> "failed", read |-> read, shown |-> IF Slides THEN served.shown ELSE Nothing]
  ELSE [outcome |-> "ready", read |-> read, shown |-> read]

FirstBuilt ==
  /\ pc = "first" /\ build.result # "none"
  /\ IF shutdown \/ build.result = "err" THEN Halt
     ELSE /\ Rest
          /\ served' = Snapshot(build.read)
          /\ known' = Dependencies(build.read)
          /\ UNCHANGED <<next, debouncing>>
  /\ build' = Fresh
  /\ UNCHANGED <<disk, superseded, shutdown>>

Poll ==
  /\ pc = "idle" /\ ~shutdown
  /\ Scan("poll", known)
  /\ UNCHANGED <<disk, known, next, served, debouncing, build, superseded, shutdown>>

PollDone ==
  /\ Scanned("poll")
  /\ Rest
  /\ debouncing' = (debouncing \/ noticed)
  /\ UNCHANGED <<disk, known, next, served, build, superseded, shutdown>>

(* The debounce is over.                                                   *)
Prepare ==
  /\ pc = "idle" /\ ~shutdown /\ debouncing
  /\ Scan("prepare", known)
  /\ UNCHANGED <<disk, known, next, served, debouncing, build, superseded, shutdown>>

StartBuild ==
  /\ Scanned("prepare")
  /\ pc' = "building" /\ build' = Fresh /\ superseded' = FALSE
  /\ UNCHANGED <<disk, unseen, noticed, known, next, served, debouncing, shutdown>>

(* run_build's monitor; without a poll it only looks at the shutdown flag. *)
Monitor ==
  /\ pc = "building" /\ build.result = "none"
  /\ Scan("monitor", known)
  /\ UNCHANGED <<disk, known, next, served, debouncing, build, superseded, shutdown>>

MonitorDone ==
  /\ Scanned("monitor")
  /\ pc' = "building"
  /\ superseded' = (superseded \/ noticed \/ shutdown)
  /\ UNCHANGED <<disk, unseen, noticed, known, next, served, debouncing, build, shutdown>>

MonitorFirst ==
  /\ pc = "first" /\ shutdown /\ ~superseded
  /\ superseded' = TRUE
  /\ UNCHANGED <<disk, pc, unseen, noticed, known, next, served, debouncing, build, shutdown>>

Built ==
  /\ pc = "building" /\ build.result # "none"
  /\ Scan("check", known)
  /\ UNCHANGED <<disk, known, next, served, debouncing, build, superseded, shutdown>>

(* retain_dependencies_from                                                *)
Retaining(read) ==
  [f \in Files |-> IF Fails(read) /\ Dependencies(read)[f] = Unread THEN known[f]
                   ELSE Dependencies(read)[f]]

CheckDone ==
  /\ Scanned("check")
  /\ \/ shutdown /\ Halt
     \/ /\ ~shutdown /\ (noticed \/ superseded)
        /\ Scan("drop", known)
        /\ UNCHANGED <<known, next, served, debouncing>>
     \/ /\ ~shutdown /\ ~noticed /\ ~superseded /\ build.result = "ok"
        /\ next' = Retaining(build.read)
        /\ Scan("verify", next')
        /\ UNCHANGED <<known, served, debouncing>>
     \/ /\ ~shutdown /\ ~noticed /\ ~superseded /\ build.result = "err"
        /\ served' = [outcome |-> "error", read |-> Nothing,
                      shown |-> IF Slides THEN served.shown ELSE Nothing]
        /\ Scan("fail", known)
        /\ UNCHANGED <<known, next, debouncing>>
  /\ UNCHANGED <<disk, build, superseded, shutdown>>

(* Altered: the result of the last look at the dependencies is not used.   *)
AdoptUnverified ==
  /\ Scanned("verify")
  /\ Rest
  /\ served' = Snapshot(build.read) /\ known' = next /\ debouncing' = FALSE
  /\ next' = Nothing /\ build' = Fresh
  /\ UNCHANGED <<disk, superseded, shutdown>>

Adopt ==
  /\ Scanned("verify") /\ ~noticed
  /\ Rest
  /\ served' = Snapshot(build.read) /\ known' = next /\ debouncing' = FALSE
  /\ next' = Nothing /\ build' = Fresh
  /\ UNCHANGED <<disk, superseded, shutdown>>

VerifyFails ==
  /\ Scanned("verify") /\ noticed
  /\ Scan("drop", known)
  /\ next' = Nothing
  /\ UNCHANGED <<disk, known, served, debouncing, build, superseded, shutdown>>

DropDone ==
  /\ Scanned("drop")
  /\ Rest /\ debouncing' = TRUE
  /\ build' = Fresh /\ superseded' = FALSE
  /\ UNCHANGED <<disk, known, next, served, shutdown>>

(* replace_failure has refreshed the dependencies.                         *)
FailDone ==
  /\ Scanned("fail")
  /\ Rest /\ debouncing' = FALSE
  /\ build' = Fresh
  /\ UNCHANGED <<disk, known, next, served, superseded, shutdown>>

Stop ==
  /\ pc = "idle" /\ shutdown /\ Halt
  /\ UNCHANGED <<disk, build, superseded, shutdown>>

-----------------------------------------------------------------------------
WriteFile(f, c) ==
  /\ pc # "stopped" /\ c # disk[f]
  /\ disk' = [disk EXCEPT ![f] = c]
  /\ UNCHANGED <<pc, unseen, noticed, known, next, served, debouncing, build, superseded,
                 shutdown>>

Interrupt ==
  /\ pc # "stopped" /\ ~shutdown /\ shutdown' = TRUE
  /\ UNCHANGED <<disk, pc, unseen, noticed, known, next, served, debouncing, build, superseded>>

BuildStep == (\E f \in Files : BuildRead(f)) \/ BuildEnds
EndOfScan == PollDone \/ StartBuild \/ MonitorDone \/ CheckDone \/ Adopt \/ VerifyFails
               \/ DropDone \/ FailDone

Next ==
  \/ \E f \in Files : BuildRead(f)
  \/ BuildEnds
  \/ \E f \in Files : Look(f)
  \/ FirstBuilt \/ MonitorFirst \/ Poll \/ Prepare \/ Monitor \/ Built \/ Stop
  \/ PollDone \/ StartBuild \/ MonitorDone \/ CheckDone \/ Adopt \/ VerifyFails
  \/ DropDone \/ FailDone
  \/ \E f \in Files, c \in Texts \cup {Missing} : c \in Bodies[f] /\ WriteFile(f, c)
  \/ Interrupt

(* The loop and the build thread make progress.  Every turn of the loop    *)
(* looks whether the debounce is over, and every turn of run_build whether *)
(* the build is finished, so these cannot be missed for ever.              *)
Fairness ==
  /\ WF_vars(BuildStep) /\ WF_vars(\E f \in Files : Look(f)) /\ WF_vars(EndOfScan)
  /\ WF_vars(FirstBuilt) /\ WF_vars(Poll) /\ WF_vars(Monitor) /\ WF_vars(MonitorFirst)
  /\ WF_vars(Stop)
  /\ SF_vars(Prepare) /\ SF_vars(Built)

Spec == Init /\ [][Next]_vars /\ Fairness

-----------------------------------------------------------------------------
(* Properties. *)

AtRest == pc = "idle" /\ ~debouncing

(* No change is absorbed without a rebuild: when none is due, the          *)
(* fingerprints that later polls compare with are those of the contents    *)
(* the served build was made of, however many changes came while it ran.   *)
NoChangeMissed ==
  /\ TypeOK
  /\ AtRest /\ served.outcome # "error" =>
       \A f \in Keys(Dependencies(served.read)) : known[f] = served.read[f]

Stable == <>[][disk' = disk]_disk
Reflected == \A f \in Keys(served.read) : served.read[f] = disk[f]

(* Once files stop changing, the server comes to rest, and what it serves  *)
(* is a build of what is on disk; unless reading a file failed without     *)
(* leaving a dependency, or the build callback returned an error.          *)
Settles ==
  Stable => <>[]( \/ pc = "stopped"
                  \/ shutdown
                  \/ /\ pc \in {"idle", "poll"} /\ ~debouncing
                     /\ \/ served.outcome = "error"
                        \/ \E f \in Files : served.read[f] \in Unobserved
                        \/ Reflected )

(* A failed build keeps the last complete slides (slides.adoc).            *)
SlidesKept ==
  [][Slides /\ served.shown # Nothing /\ served'.outcome # "ready"
       => served'.shown = served.shown]_served
=============================================================================
