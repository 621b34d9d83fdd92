------------------------- MODULE PreviewServerProofs -------------------------
(***************************************************************************)
(* For any files, texts and includes, and whatever changes while a scan or *)
(* a build is under way: the preview's state keeps its types, no change of *)
(* a dependency is absorbed without a rebuild, slides that were served     *)
(* survive every failed build, and once files stop changing every step     *)
(* leaves the preview as near to rest as it was, or nearer.                *)
(***************************************************************************)
EXTENDS PreviewServer, TLAPS

Result == {"none", "ok", "err"}
Snapshots == [outcome : {"none", "ready", "failed", "error"}, read : [Files -> Contents],
              shown : [Files -> Contents]]

(* What the fingerprints of map say of the files a build depends on is     *)
(* what the build has read of them.                                        *)
Agree(map, read) == \A f \in Keys(Dependencies(read)) : map[f] = read[f]

(* From the end of the debounce until the build is adopted or dropped, the *)
(* change that caused it is remembered.                                    *)
UnderWay == {"prepare", "building", "monitor", "check", "verify", "drop", "fail"}

IInv ==
  /\ TypeOK
  /\ pc \in UnderWay => debouncing
  /\ pc = "first" /\ superseded => shutdown
  /\ pc = "fail" => served.outcome = "error"
  /\ pc = "verify" /\ ~noticed => Agree(next, build.read)
  /\ pc \in {"idle", "poll"} /\ ~debouncing /\ ~(pc = "poll" /\ noticed) /\ served.outcome # "error" =>
       Agree(known, served.read)

LEMMA Kinds ==
  /\ Missing \in Contents /\ Unread \in Contents /\ Texts \subseteq Contents
  /\ Missing # Unread /\ Unread \notin Texts
  /\ Nothing \in [Files -> Contents]
  /\ Config \in Files /\ Root \in Files
  BY PreviewAssumption DEF Contents, Nothing

LEMMA DiskType == TypeOK => \A f \in Files : disk[f] \in Contents /\ disk[f] # Unread
  BY Kinds DEF TypeOK

LEMMA DependenciesType ==
  ASSUME NEW read \in [Files -> Contents]
  PROVE  Dependencies(read) \in [Files -> Contents]
  BY Kinds DEF Dependencies

LEMMA RetainingType ==
  ASSUME NEW read \in [Files -> Contents], known \in [Files -> Contents]
  PROVE  Retaining(read) \in [Files -> Contents] /\ Agree(Retaining(read), read)
  <1>1. Dependencies(read) \in [Files -> Contents]
    BY DependenciesType
  <1>2. \A f \in Files : Dependencies(read)[f] # Unread => Dependencies(read)[f] = read[f]
    BY DEF Dependencies
  <1>3. Retaining(read) \in [Files -> Contents]
    BY <1>1 DEF Retaining
  <1>4. \A f \in Files : Dependencies(read)[f] # Unread => Retaining(read)[f] = Dependencies(read)[f]
    BY DEF Retaining
  <1> QED
    BY <1>2, <1>3, <1>4 DEF Agree, Keys

LEMMA SnapshotType ==
  ASSUME served \in Snapshots, NEW read \in [Files -> Contents]
  PROVE  Snapshot(read) \in Snapshots /\ Snapshot(read).read = read /\ Snapshot(read).outcome # "error"
  BY Kinds DEF Snapshot, Snapshots

LEMMA FreshType == Fresh \in [read : [Files -> Contents], result : Result]
  BY Kinds DEF Fresh, Result

LEMMA InitIInv == Init => IInv
  <1> SUFFICES ASSUME Init PROVE IInv
    OBVIOUS
  <1>1. disk \in [Files -> Texts \cup {Missing}]
    BY DEF Init
  <1>2. served \in Snapshots
    BY Kinds DEF Init, Snapshots
  <1>3. TypeOK
    BY <1>1, <1>2, Kinds, FreshType DEF Init, TypeOK, Snapshots, Result
  <1> QED
    BY <1>3 DEF Init, IInv, UnderWay

-----------------------------------------------------------------------------
(* The build thread and scans. *)

LEMMA BuildReadStep == ASSUME IInv, NEW f \in Files, BuildRead(f) PROVE IInv'
  <1>1. /\ build' = [build EXCEPT !.read[f] = disk[f]] /\ pc # "verify"
        /\ UNCHANGED <<disk, pc, unseen, noticed, known, next, served, debouncing, superseded, shutdown>>
    BY DEF BuildRead, Building
  <1>2. build' = [read |-> [build.read EXCEPT ![f] = disk[f]], result |-> build.result]
    BY <1>1 DEF IInv, TypeOK
  <1>3. build' \in [read : [Files -> Contents], result : Result]
    BY <1>2, DiskType DEF IInv, TypeOK, Result
  <1>4. TypeOK'
    BY <1>1, <1>3 DEF IInv, TypeOK, Result
  <1> QED
    BY <1>1, <1>4 DEF IInv, UnderWay, Agree, Keys, Dependencies

LEMMA BuildEndsStep == ASSUME IInv, BuildEnds PROVE IInv'
  <1>1. /\ \E r \in {"ok", "err"} : build' = [build EXCEPT !.result = r]
        /\ pc # "verify"
        /\ UNCHANGED <<disk, pc, unseen, noticed, known, next, served, debouncing, superseded, shutdown>>
    BY DEF BuildEnds, Building
  <1>2. TypeOK'
    BY <1>1 DEF IInv, TypeOK
  <1> QED
    BY <1>1, <1>2 DEF IInv, UnderWay, Agree, Keys, Dependencies

LEMMA LookStep == ASSUME IInv, NEW f \in Files, Look(f) PROVE IInv'
  <1>1. /\ pc \in Scans /\ unseen' = unseen \ {f}
        /\ noticed' = (noticed \/ (IF pc = "verify" THEN next ELSE known)[f] # disk[f])
        /\ UNCHANGED <<disk, pc, served, debouncing, build, superseded, shutdown>>
    BY DEF Look
  <1>2. CASE pc = "verify"
    <2>1. next' = [next EXCEPT ![f] = disk[f]] /\ known' = known
      BY <1>2 DEF Look
    <2>2. TypeOK'
      BY <1>1, <2>1, DiskType DEF IInv, TypeOK
    <2>3. ~noticed' => ~noticed /\ next' = next
      BY <1>1, <1>2, <2>1 DEF IInv, TypeOK
    <2> QED
      BY <1>1, <1>2, <2>1, <2>2, <2>3 DEF IInv, Agree, Keys, Dependencies, UnderWay
  <1>3. CASE pc # "verify"
    <2>1. known' = [known EXCEPT ![f] = disk[f]] /\ next' = next
      BY <1>3 DEF Look
    <2>2. TypeOK'
      BY <1>1, <2>1, DiskType DEF IInv, TypeOK
    <2>3. ~noticed' => ~noticed /\ known' = known
      BY <1>1, <1>3, <2>1 DEF IInv, TypeOK
    <2> QED
      BY <1>1, <1>3, <2>1, <2>2, <2>3 DEF IInv, Agree, Keys, Dependencies, UnderWay, Scans
  <1> QED
    BY <1>2, <1>3

-----------------------------------------------------------------------------
(* The loop. *)

LEMMA ScanType ==
  ASSUME NEW name \in Scans, NEW map, Scan(name, map)
  PROVE  pc' = name /\ unseen' \subseteq Files /\ noticed' = FALSE
  BY DEF Scan, Keys

LEMMA FirstBuiltStep == ASSUME IInv, FirstBuilt PROVE IInv'
  <1>1. build' = Fresh /\ UNCHANGED <<disk, superseded, shutdown>> /\ pc = "first"
    BY DEF FirstBuilt
  <1>2. CASE shutdown \/ build.result = "err"
    <2>1. Halt
      BY <1>2 DEF FirstBuilt
    <2>2. TypeOK'
      BY <1>1, <2>1, FreshType DEF Halt, IInv, TypeOK, Result
    <2> QED
      BY <2>1, <2>2 DEF Halt, IInv, UnderWay
  <1>3. CASE ~(shutdown \/ build.result = "err")
    <2>1. Rest /\ served' = Snapshot(build.read) /\ known' = Dependencies(build.read)
          /\ UNCHANGED <<next, debouncing>>
      BY <1>3 DEF FirstBuilt
    <2>2. build.read \in [Files -> Contents] /\ served \in Snapshots
      BY DEF IInv, TypeOK, Snapshots
    <2>3. served' \in Snapshots /\ served'.read = build.read
      BY <2>1, <2>2, SnapshotType
    <2>4. known' \in [Files -> Contents]
      BY <2>1, <2>2, DependenciesType
    <2>5. ~superseded
      BY <1>1, <1>3 DEF IInv
    <2>6. TypeOK'
      BY <1>1, <2>1, <2>3, <2>4, <2>5, FreshType DEF Rest, IInv, TypeOK, Snapshots, Result
    <2>7. \A f \in Keys(Dependencies(build.read)) : known'[f] = build.read[f]
      BY <2>1, <2>2 DEF Keys, Dependencies
    <2>8. Agree(known, served.read)'
      BY <2>3, <2>7 DEF Agree, Keys, Dependencies
    <2> QED
      BY <2>1, <2>6, <2>8 DEF Rest, IInv, UnderWay
  <1> QED
    BY <1>2, <1>3

(* A scan begins, and nothing else changes but what a build leaves.        *)
LEMMA PollStep == ASSUME IInv, Poll \/ Prepare \/ Monitor \/ Built PROVE IInv'
  <1>1. PICK name \in {"poll", "prepare", "monitor", "check"} :
          /\ Scan(name, known)
          /\ name \in {"poll", "prepare"} => pc = "idle"
          /\ name \in {"monitor", "check"} => pc = "building"
          /\ name = "prepare" => debouncing
    BY DEF Poll, Prepare, Monitor, Built
  <1>2. UNCHANGED <<disk, known, next, served, debouncing, build, superseded, shutdown>>
    BY DEF Poll, Prepare, Monitor, Built
  <1>3. pc' = name /\ unseen' \subseteq Files /\ noticed' = FALSE
    BY <1>1, ScanType DEF Scans
  <1>4. TypeOK'
    BY <1>1, <1>2, <1>3 DEF IInv, TypeOK, Scans
  <1> QED
    BY <1>1, <1>2, <1>3, <1>4 DEF IInv, Agree, Keys, Dependencies, UnderWay

LEMMA PollDoneStep == ASSUME IInv, PollDone PROVE IInv'
  <1>1. TypeOK'
    BY DEF PollDone, Rest, Scanned, IInv, TypeOK
  <1> QED
    BY <1>1 DEF PollDone, Rest, Scanned, IInv, TypeOK, Agree, Keys, Dependencies, UnderWay

LEMMA StartBuildStep == ASSUME IInv, StartBuild PROVE IInv'
  <1>1. TypeOK'
    BY FreshType DEF StartBuild, Scanned, IInv, TypeOK, Result
  <1> QED
    BY <1>1 DEF StartBuild, Scanned, IInv, UnderWay

LEMMA MonitorDoneStep == ASSUME IInv, MonitorDone PROVE IInv'
  <1>1. TypeOK'
    BY DEF MonitorDone, Scanned, IInv, TypeOK
  <1> QED
    BY <1>1 DEF MonitorDone, Scanned, IInv, UnderWay

LEMMA MonitorFirstStep == ASSUME IInv, MonitorFirst PROVE IInv'
  <1>1. TypeOK'
    BY DEF MonitorFirst, IInv, TypeOK
  <1> QED
    BY <1>1 DEF MonitorFirst, IInv, UnderWay

LEMMA CheckDoneStep == ASSUME IInv, CheckDone PROVE IInv'
  <1>1. pc = "check" /\ debouncing /\ UNCHANGED <<disk, build, superseded, shutdown>>
    BY DEF CheckDone, Scanned, IInv, UnderWay
  <1>2. known \in [Files -> Contents] /\ build.read \in [Files -> Contents] /\ served \in Snapshots
    BY DEF IInv, TypeOK, Snapshots
  <1>3. CASE Halt
    <2>1. TypeOK'
      BY <1>1, <1>3 DEF Halt, IInv, TypeOK
    <2> QED
      BY <1>3, <2>1 DEF Halt, IInv, UnderWay
  <1>4. CASE Scan("drop", known) /\ UNCHANGED <<known, next, served, debouncing>>
    <2>1. pc' = "drop" /\ unseen' \subseteq Files /\ noticed' = FALSE
      BY <1>4, ScanType DEF Scans
    <2>2. TypeOK'
      BY <1>1, <1>4, <2>1 DEF IInv, TypeOK, Scans
    <2> QED
      BY <1>1, <1>4, <2>1, <2>2 DEF IInv, UnderWay
  <1>5. CASE /\ ~superseded /\ next' = Retaining(build.read) /\ Scan("verify", next')
             /\ UNCHANGED <<known, served, debouncing>>
    <2>1. pc' = "verify" /\ unseen' \subseteq Files /\ noticed' = FALSE
      BY <1>5, ScanType DEF Scans
    <2>2. next' \in [Files -> Contents] /\ Agree(Retaining(build.read), build.read)
      BY <1>2, <1>5, RetainingType
    <2>3. TypeOK'
      BY <1>1, <1>5, <2>1, <2>2 DEF IInv, TypeOK, Scans
    <2>4. Agree(next, build.read)'
      BY <1>1, <1>5, <2>2 DEF Agree, Keys, Dependencies
    <2> QED
      BY <1>1, <1>5, <2>1, <2>3, <2>4 DEF IInv, UnderWay
  <1>6. CASE /\ ~superseded /\ Scan("fail", known) /\ UNCHANGED <<known, next, debouncing>>
             /\ served' = [outcome |-> "error", read |-> Nothing,
                           shown |-> IF Slides THEN served.shown ELSE Nothing]
    <2>1. pc' = "fail" /\ unseen' \subseteq Files /\ noticed' = FALSE
      BY <1>6, ScanType DEF Scans
    <2>2. served' \in Snapshots /\ served'.outcome = "error"
      BY <1>2, <1>6, Kinds DEF Snapshots
    <2>3. TypeOK'
      BY <1>1, <1>6, <2>1, <2>2 DEF IInv, TypeOK, Scans, Snapshots
    <2> QED
      BY <1>1, <1>6, <2>1, <2>2, <2>3 DEF IInv, UnderWay
  <1> QED
    BY <1>3, <1>4, <1>5, <1>6 DEF CheckDone

LEMMA AdoptStep == ASSUME IInv, Adopt PROVE IInv'
  <1>1. /\ pc = "verify" /\ ~noticed /\ Rest /\ served' = Snapshot(build.read) /\ known' = next
        /\ debouncing' = FALSE /\ next' = Nothing /\ build' = Fresh
        /\ UNCHANGED <<disk, superseded, shutdown>>
    BY DEF Adopt, Scanned
  <1>2. build.read \in [Files -> Contents] /\ served \in Snapshots
    BY DEF IInv, TypeOK, Snapshots
  <1>3. served' \in Snapshots /\ served'.read = build.read
    BY <1>1, <1>2, SnapshotType
  <1>4. TypeOK'
    BY <1>1, <1>3, FreshType, Kinds DEF Rest, IInv, TypeOK, Snapshots, Result
  <1>5. Agree(known, served.read)'
    BY <1>1, <1>3 DEF IInv, Agree, Keys, Dependencies
  <1> QED
    BY <1>1, <1>4, <1>5 DEF Rest, IInv, UnderWay

LEMMA VerifyFailsStep == ASSUME IInv, VerifyFails PROVE IInv'
  <1>1. /\ pc = "verify" /\ Scan("drop", known) /\ next' = Nothing
        /\ UNCHANGED <<disk, known, served, debouncing, build, superseded, shutdown>>
    BY DEF VerifyFails, Scanned
  <1>2. pc' = "drop" /\ unseen' \subseteq Files /\ noticed' = FALSE
    BY <1>1, ScanType DEF Scans
  <1>3. TypeOK'
    BY <1>1, <1>2, Kinds DEF IInv, TypeOK, Scans
  <1> QED
    BY <1>1, <1>2, <1>3 DEF IInv, UnderWay

LEMMA DroppedStep == ASSUME IInv, DropDone \/ FailDone PROVE IInv'
  <1>1. CASE DropDone
    <2>1. /\ Rest /\ debouncing' = TRUE /\ build' = Fresh /\ superseded' = FALSE
          /\ UNCHANGED <<disk, known, next, served, shutdown>>
      BY <1>1 DEF DropDone
    <2>2. TypeOK'
      BY <2>1, FreshType, Kinds DEF Rest, IInv, TypeOK, Result
    <2> QED
      BY <2>1, <2>2 DEF Rest, IInv, UnderWay
  <1>2. CASE FailDone
    <2>1. /\ pc = "fail" /\ Rest /\ debouncing' = FALSE /\ build' = Fresh
          /\ UNCHANGED <<disk, known, next, served, superseded, shutdown>>
      BY <1>2 DEF FailDone, Scanned
    <2>2. ~superseded
      BY <2>1 DEF IInv, TypeOK
    <2>3. TypeOK'
      BY <2>1, <2>2, FreshType, Kinds DEF Rest, IInv, TypeOK, Result
    <2> QED
      BY <2>1, <2>3 DEF Rest, IInv, UnderWay
  <1> QED
    BY <1>1, <1>2

LEMMA StopStep == ASSUME IInv, Stop PROVE IInv'
  <1>1. TypeOK'
    BY DEF Stop, Halt, IInv, TypeOK
  <1> QED
    BY <1>1 DEF Stop, Halt, IInv, UnderWay

LEMMA OutsideStep ==
  ASSUME IInv, Interrupt \/ \E f \in Files, c \in Texts \cup {Missing} : WriteFile(f, c) PROVE IInv'
  <1>1. disk' \in [Files -> Texts \cup {Missing}] /\ shutdown' \in BOOLEAN /\ (shutdown => shutdown')
    <2>1. CASE Interrupt
      BY <2>1 DEF Interrupt, IInv, TypeOK
    <2>2. ASSUME NEW f \in Files, NEW c \in Texts \cup {Missing}, WriteFile(f, c)
          PROVE  disk' \in [Files -> Texts \cup {Missing}] /\ UNCHANGED shutdown
      BY <2>2 DEF WriteFile, IInv, TypeOK
    <2> QED
      BY <2>1, <2>2 DEF IInv, TypeOK
  <1>2. UNCHANGED <<pc, unseen, noticed, known, next, served, debouncing, build, superseded>>
    BY DEF Interrupt, WriteFile
  <1>3. TypeOK'
    BY <1>1, <1>2 DEF IInv, TypeOK
  <1> QED
    BY <1>1, <1>2, <1>3 DEF IInv, Agree, Keys, Dependencies, UnderWay

-----------------------------------------------------------------------------
LEMMA StepIInv == IInv /\ [Next]_vars => IInv'
  <1> SUFFICES ASSUME IInv, [Next]_vars PROVE IInv'
    OBVIOUS
  <1>1. CASE Next
    BY <1>1, BuildReadStep, BuildEndsStep, LookStep, FirstBuiltStep, PollStep, PollDoneStep, StartBuildStep,
       MonitorDoneStep, MonitorFirstStep, CheckDoneStep, AdoptStep, VerifyFailsStep, DroppedStep, StopStep,
       OutsideStep DEF Next
  <1>2. CASE UNCHANGED vars
    BY <1>2 DEF vars, IInv, TypeOK, Agree, Keys, Dependencies, UnderWay
  <1> QED
    BY <1>1, <1>2

(* run() absorbs no change: the fingerprints later polls compare with are  *)
(* those of what the served build has read, however many files change      *)
(* during a scan, a build or its verification.                             *)
THEOREM ChangesNoticed == Spec => []NoChangeMissed
  <1>1. IInv => NoChangeMissed
    BY DEF IInv, NoChangeMissed, AtRest, Agree
  <1> QED
    BY <1>1, InitIInv, StepIInv, PTL DEF Spec

(* State::adopt and replace_failure: slides once served are replaced only  *)
(* by the slides of a build that succeeded.                                *)
THEOREM SlidesSurvive == Spec => SlidesKept
  <1>1. [Next]_vars => [Slides /\ served.shown # Nothing /\ served'.outcome # "ready"
                          => served'.shown = served.shown]_served
    <2> SUFFICES ASSUME [Next]_vars, served' # served, Slides, served'.outcome # "ready"
                 PROVE  served'.shown = served.shown
      OBVIOUS
    <2>1. FirstBuilt \/ CheckDone \/ Adopt
      BY DEF Next, vars, BuildRead, BuildEnds, Look, MonitorFirst, Poll, Prepare, Monitor, Built, Stop, Halt,
             PollDone, StartBuild, MonitorDone, VerifyFails, DropDone, FailDone, WriteFile, Interrupt
    <2>2. CASE FirstBuilt \/ Adopt
      <3>1. served' = Snapshot(build.read)
        BY <2>2 DEF FirstBuilt, Halt, Adopt
      <3> QED
        BY <3>1 DEF Snapshot
    <2>3. CASE CheckDone
      BY <2>3 DEF CheckDone, Halt
    <2> QED
      BY <2>1, <2>2, <2>3
  <1> QED
    BY <1>1, PTL DEF Spec, SlidesKept
-----------------------------------------------------------------------------
(* How the preview comes to rest once files stop changing. *)

(* What a map of fingerprints, or a build, says of files is what is on disk. *)
UpToDate(map, fs) == \A f \in Keys(map) \ fs : map[f] = disk[f]

(* Nothing is left to be noticed.                                          *)
Settled ==
  /\ pc \in {"idle", "poll"} /\ ~debouncing /\ (pc = "poll" => ~noticed)
  /\ UpToDate(known, {})

(* The build that is the last one unless a file changes: it began when all *)
(* fingerprints were new, and has read nothing but what is there still.    *)
LastBuild ==
  \/ pc = "prepare" /\ UpToDate(known, unseen)
  \/ /\ pc \in {"building", "monitor", "check"} /\ ~superseded /\ (pc # "building" => ~noticed)
     /\ UpToDate(known, {}) /\ UpToDate(build.read, {})
  \/ pc = "verify" /\ ~noticed /\ UpToDate(next, {}) /\ UpToDate(build.read, {})
  \/ pc = "fail" /\ UpToDate(known, {})

(* A rebuild is due.                                                       *)
Due == pc \in {"idle", "poll"} /\ (debouncing \/ (pc = "poll" /\ noticed))

(* A poll that has looked at its files since they last changed.            *)
Searching == pc = "poll" /\ UpToDate(known, unseen)

(* How far the preview is from rest.                                       *)
Distance ==
  IF Settled THEN 0 ELSE IF LastBuild THEN 1 ELSE IF Due THEN 2 ELSE IF Searching THEN 3 ELSE 4

(* What Settles asks of a preview at rest.                                 *)
Shown ==
  \/ served.outcome = "error"
  \/ \E f \in Files : served.read[f] \in Unobserved
  \/ Reflected

Quiet == ~shutdown /\ UNCHANGED <<disk, shutdown>>

ComesToRest ==
  Quiet =>
    /\ Distance' <= Distance
    /\ Poll => Distance' <= 3
    /\ PollDone /\ Distance = 3 => Distance' = 0
    /\ DropDone => Distance' = 2
    /\ Prepare => Distance' = 1
    /\ Distance = 1 => Distance' = IF Adopt \/ FailDone THEN 0 ELSE 1

LEMMA Apart ==
  /\ ~(Settled /\ LastBuild) /\ ~(Settled /\ Due) /\ ~(LastBuild /\ Due) /\ ~(LastBuild /\ Searching)
  BY DEF Settled, LastBuild, Due, Searching

LEMMA Distances ==
  /\ Distance \in 0..4
  /\ (Distance = 0 <=> Settled) /\ (Distance = 1 <=> LastBuild) /\ (Distance = 2 <=> Due)
  /\ Distance <= 3 <=> Settled \/ LastBuild \/ Due \/ Searching
  BY Apart DEF Distance

LEMMA DistancesNext ==
  (/\ Distance \in 0..4
   /\ (Distance = 0 <=> Settled) /\ (Distance = 1 <=> LastBuild) /\ (Distance = 2 <=> Due)
   /\ Distance <= 3 <=> Settled \/ LastBuild \/ Due \/ Searching)'
  BY Distances, PTL

(* A scan looks at dependencies only, and looking at one that has not      *)
(* changed leaves everything as it is.                                     *)
Looking == pc \in Scans => unseen \subseteq Keys(IF pc = "verify" THEN next ELSE known)

LEMMA StepLooking == IInv /\ Looking /\ [Next]_vars => Looking'
  <1> SUFFICES ASSUME IInv, Looking, [Next]_vars PROVE Looking'
    OBVIOUS
  <1>1. CASE UNCHANGED <<pc, unseen, known, next>>
    BY <1>1 DEF Looking
  <1>2. ASSUME pc' \notin Scans PROVE Looking'
    BY <1>2 DEF Looking
  <1>3. ASSUME NEW f \in Files, Look(f) PROVE Looking'
    <2>1. /\ pc' = pc /\ unseen' = unseen \ {f}
          /\ IF pc = "verify" THEN next' = [next EXCEPT ![f] = disk[f]] /\ known' = known
                              ELSE known' = [known EXCEPT ![f] = disk[f]] /\ next' = next
      BY <1>3 DEF Look
    <2>2. known \in [Files -> Contents] /\ next \in [Files -> Contents]
      BY DEF IInv, TypeOK
    <2> QED
      BY <2>1, <2>2 DEF Looking, Keys
  <1>4. ASSUME NEW name \in Scans \ {"verify"}, Scan(name, known), UNCHANGED known PROVE Looking'
    BY <1>4 DEF Scan, Looking
  <1>5. CASE Poll \/ Prepare \/ Monitor \/ Built
    BY <1>4, <1>5 DEF Poll, Prepare, Monitor, Built, Scans
  <1>6. CASE CheckDone
    <2>1. CASE Scan("verify", next')
      BY <2>1 DEF Scan, Looking
    <2> QED
      BY <1>2, <1>4, <1>6, <2>1 DEF CheckDone, Halt, Scans
  <1>7. CASE VerifyFails
    BY <1>4, <1>7 DEF VerifyFails, Scans
  <1>8. CASE FirstBuilt \/ PollDone \/ StartBuild \/ MonitorDone \/ Adopt \/ DropDone \/ FailDone \/ Stop
    BY <1>2, <1>8 DEF FirstBuilt, PollDone, StartBuild, MonitorDone, Adopt, DropDone, FailDone, Stop, Rest, Halt,
       Scans
  <1>9. CASE MonitorFirst \/ Interrupt \/ BuildEnds \/ \E f \in Files : BuildRead(f)
    BY <1>1, <1>9 DEF MonitorFirst, Interrupt, BuildEnds, BuildRead
  <1>10. CASE \E f \in Files, c \in Texts \cup {Missing} : WriteFile(f, c)
    BY <1>1, <1>10 DEF WriteFile
  <1> QED
    BY <1>1, <1>3, <1>5, <1>6, <1>7, <1>8, <1>9, <1>10 DEF Next, vars

LEMMA SpecLooking == Spec => [](IInv /\ Looking)
  <1>1. Init => Looking
    BY DEF Init, Looking, Scans
  <1> QED
    BY <1>1, InitIInv, StepIInv, StepLooking, PTL DEF Spec

(* What can happen while no file changes.                                  *)
LEMMA QuietSteps ==
  ASSUME IInv, Next, Quiet
  PROVE  \/ BuildEnds \/ \E f \in Files : BuildRead(f) \/ Look(f)
         \/ FirstBuilt \/ Poll \/ Prepare \/ Monitor \/ Built
         \/ PollDone \/ StartBuild \/ MonitorDone \/ CheckDone \/ Adopt \/ VerifyFails \/ DropDone \/ FailDone
  <1>1. ASSUME NEW f \in Files, NEW c, WriteFile(f, c) PROVE FALSE
    BY <1>1 DEF WriteFile, Quiet, IInv, TypeOK
  <1>2. ~Interrupt /\ ~Stop /\ ~MonitorFirst
    BY DEF Interrupt, Stop, MonitorFirst, Quiet
  <1> QED
    BY <1>1, <1>2 DEF Next

(* Looking at a file leaves known up to date where it was, and there too.  *)
LEMMA LookKeeps ==
  ASSUME IInv, Looking, Quiet, NEW f \in Files, Look(f), pc # "verify", NEW fs, UpToDate(known, fs)
  PROVE  /\ UpToDate(known, fs \ {f})' /\ pc' = pc /\ unseen' = unseen \ {f}
         /\ f \notin fs => noticed' = noticed /\ known' = known
         /\ UNCHANGED <<next, debouncing, build, superseded, served>>
  <1>1. /\ f \in unseen /\ unseen' = unseen \ {f} /\ known' = [known EXCEPT ![f] = disk[f]] /\ pc' = pc /\ pc \in Scans
        /\ noticed' = (noticed \/ known[f] # disk[f]) /\ disk' = disk
        /\ UNCHANGED <<next, debouncing, build, superseded, served>>
    BY DEF Look
  <1>2. known \in [Files -> Contents] /\ f \in Keys(known) /\ noticed \in BOOLEAN
    BY <1>1 DEF Looking, IInv, TypeOK
  <1>3. f \notin fs => known[f] = disk[f]
    BY <1>2 DEF UpToDate
  <1>4. UpToDate(known, fs \ {f})'
    BY <1>1, <1>2 DEF UpToDate, Keys
  <1> QED
    BY <1>1, <1>2, <1>3, <1>4

LEMMA SettledStep == ASSUME IInv, Looking, Settled, Next, Quiet PROVE Settled'
  <1>1. ASSUME NEW f \in Files, Look(f) PROVE Settled'
    <2>1. UpToDate(known, {}) /\ pc # "verify" /\ {} \ {f} = {}
      BY DEF Settled
    <2>2. known' = known /\ pc' = pc /\ noticed' = noticed /\ debouncing' = debouncing
      BY <1>1, <2>1, LookKeeps
    <2>3. UpToDate(known, {})'
      BY <2>1, <2>2 DEF UpToDate, Quiet
    <2> QED
      BY <2>2, <2>3 DEF Settled
  <1>2. CASE Poll \/ PollDone
    <2>1. known' = known /\ disk' = disk /\ UpToDate(known, {})
      BY <1>2 DEF Poll, PollDone, Settled
    <2>2. UpToDate(known, {})'
      BY <2>1 DEF UpToDate
    <2> QED
      BY <1>2, <2>2 DEF Poll, PollDone, Scan, Rest, Scanned, Settled, IInv, TypeOK
  <1>3. ~\E f \in Files : BuildRead(f)
    BY DEF Settled, BuildRead, Building
  <1>4. /\ ~BuildEnds /\ ~FirstBuilt /\ ~Prepare /\ ~Monitor /\ ~Built /\ ~StartBuild /\ ~MonitorDone
        /\ ~CheckDone /\ ~Adopt /\ ~VerifyFails /\ ~DropDone /\ ~FailDone
    BY DEF Settled, BuildEnds, Building, FirstBuilt, Prepare, Monitor, Built, StartBuild, MonitorDone,
       CheckDone, Adopt, VerifyFails, DropDone, FailDone, Scanned
  <1> QED
    BY <1>1, <1>2, <1>3, <1>4, QuietSteps

LEMMA DueStep == ASSUME IInv, Looking, Due, Next, Quiet PROVE Due' \/ (Prepare /\ LastBuild')
  <1>1. ASSUME NEW f \in Files, Look(f) PROVE Due'
    BY <1>1 DEF Look, Due, IInv, TypeOK
  <1>2. CASE Poll \/ PollDone
    BY <1>2 DEF Poll, PollDone, Scan, Rest, Scanned, Due
  <1>3. CASE Prepare
    BY <1>3 DEF Prepare, Scan, LastBuild, UpToDate
  <1>4. ~\E f \in Files : BuildRead(f)
    BY DEF Due, BuildRead, Building
  <1>5. /\ ~BuildEnds /\ ~FirstBuilt /\ ~Monitor /\ ~Built /\ ~StartBuild /\ ~MonitorDone
        /\ ~CheckDone /\ ~Adopt /\ ~VerifyFails /\ ~DropDone /\ ~FailDone
    BY DEF Due, BuildEnds, Building, FirstBuilt, Monitor, Built, StartBuild, MonitorDone,
       CheckDone, Adopt, VerifyFails, DropDone, FailDone, Scanned
  <1> QED
    BY <1>1, <1>2, <1>3, <1>4, <1>5, QuietSteps

LEMMA SearchingStep ==
  ASSUME IInv, Looking, Searching, ~Due, Next, Quiet
  PROVE  IF PollDone THEN Settled' ELSE Searching'
  <1>1. ASSUME NEW f \in Files, Look(f) PROVE Searching'
    BY <1>1, LookKeeps DEF Searching
  <1>2. CASE PollDone
    BY <1>2 DEF PollDone, Rest, Scanned, Searching, Due, Settled, UpToDate
  <1>3. ~\E f \in Files : BuildRead(f)
    BY DEF Searching, BuildRead, Building
  <1>4. /\ ~BuildEnds /\ ~FirstBuilt /\ ~Poll /\ ~Prepare /\ ~Monitor /\ ~Built /\ ~StartBuild /\ ~MonitorDone
        /\ ~CheckDone /\ ~Adopt /\ ~VerifyFails /\ ~DropDone /\ ~FailDone
    BY DEF Searching, BuildEnds, Building, FirstBuilt, Poll, Prepare, Monitor, Built, StartBuild, MonitorDone,
       CheckDone, Adopt, VerifyFails, DropDone, FailDone, Scanned
  <1>5. ASSUME NEW f \in Files, Look(f) PROVE ~PollDone
    BY <1>5 DEF Look, PollDone, Scanned
  <1> QED
    BY <1>1, <1>2, <1>3, <1>4, <1>5, QuietSteps

(* While it reads, checks and verifies, the last build finds what is there *)
(* and nothing to be noticed: it is not superseded, and it is adopted.     *)
LEMMA LastBuildStep ==
  ASSUME IInv, Looking, LastBuild, Next, Quiet
  PROVE  IF Adopt \/ FailDone THEN Settled' ELSE LastBuild'
  <1>0. /\ known \in [Files -> Contents] /\ next \in [Files -> Contents] /\ build.read \in [Files -> Contents]
        /\ noticed \in BOOLEAN /\ disk' = disk /\ ~shutdown
    BY DEF IInv, TypeOK, Quiet
  <1>14. /\ UpToDate(known, {}) /\ known' = known => UpToDate(known, {})'
         /\ UpToDate(build.read, {}) /\ build'.read = build.read => UpToDate(build.read, {})'
         /\ UpToDate(next, {}) /\ next' = next => UpToDate(next, {})'
    BY <1>0 DEF UpToDate
  <1>1. ASSUME NEW f \in Files, BuildRead(f) PROVE LastBuild' /\ pc \notin {"verify", "fail"}
    <2>1. /\ build' = [build EXCEPT !.read[f] = disk[f]] /\ pc \in {"building", "monitor"}
          /\ UNCHANGED <<pc, known, noticed, superseded>>
      BY <1>1 DEF BuildRead, Building, LastBuild
    <2>2. UpToDate(build.read, {})'
      <3>1. build'.read = [build.read EXCEPT ![f] = disk[f]]
        BY <2>1 DEF IInv, TypeOK
      <3>2. UpToDate(build.read, {})
        BY <2>1 DEF LastBuild
      <3> QED
        BY <1>0, <3>1, <3>2 DEF UpToDate, Keys
    <2> QED
      BY <1>14, <2>1, <2>2 DEF LastBuild
  <1>2. ASSUME BuildEnds PROVE LastBuild'
    <2>1. /\ \E r : build' = [build EXCEPT !.result = r] /\ pc \in {"building", "monitor"}
          /\ UNCHANGED <<pc, known, noticed, superseded>>
      BY <1>2 DEF BuildEnds, Building, LastBuild
    <2>2. build'.read = build.read
      BY <2>1 DEF IInv, TypeOK
    <2> QED
      BY <1>14, <2>1, <2>2 DEF LastBuild
  <1>3. ASSUME NEW f \in Files, Look(f) PROVE LastBuild'
    <2>1. CASE pc = "verify"
      <3>1. /\ f \in unseen /\ next' = [next EXCEPT ![f] = disk[f]] /\ noticed' = (noticed \/ next[f] # disk[f])
            /\ UNCHANGED <<pc, build>>
        BY <1>3, <2>1 DEF Look
      <3>2. f \in Keys(next)
        BY <2>1, <3>1 DEF Looking, Scans
      <3>3. next[f] = disk[f] /\ ~noticed
        BY <2>1, <3>2 DEF LastBuild, UpToDate
      <3>4. next' = next /\ ~noticed'
        BY <1>0, <3>1, <3>3
      <3> QED
        BY <1>14, <2>1, <3>1, <3>4 DEF LastBuild
    <2>2. CASE pc = "prepare"
      BY <1>3, <2>2, LookKeeps DEF LastBuild
    <2>3. CASE pc \notin {"verify", "prepare"}
      <3>1. UpToDate(known, {})
        BY <2>3 DEF LastBuild
      <3>2. UNCHANGED <<pc, noticed, known, build, superseded>>
        BY <1>3, <2>3, <3>1, LookKeeps
      <3> QED
        BY <1>14, <2>3, <3>2 DEF LastBuild
    <2> QED
      BY <2>1, <2>2, <2>3
  <1>4. ASSUME Monitor \/ Built PROVE LastBuild'
    <2>1. /\ pc = "building" /\ pc' \in {"monitor", "check"} /\ ~noticed'
          /\ UNCHANGED <<known, build, superseded>>
      BY <1>4 DEF Monitor, Built, Scan
    <2> QED
      BY <1>14, <2>1 DEF LastBuild
  <1>5. ASSUME StartBuild PROVE LastBuild'
    <2>1. UpToDate(known, {})
      BY <1>5 DEF StartBuild, Scanned, LastBuild, UpToDate
    <2>2. build'.read = Nothing
      BY <1>5 DEF StartBuild, Fresh
    <2>3. UpToDate(build.read, {})'
      BY <2>2 DEF UpToDate, Nothing, Keys
    <2> QED
      BY <1>5, <1>14, <2>1, <2>3 DEF StartBuild, LastBuild
  <1>6. ASSUME MonitorDone PROVE LastBuild'
    <2>1. /\ pc = "monitor" /\ pc' = "building" /\ superseded' = (superseded \/ noticed \/ shutdown)
          /\ UNCHANGED <<known, build>>
      BY <1>6 DEF MonitorDone, Scanned
    <2>2. superseded' = FALSE
      BY <1>0, <2>1 DEF LastBuild
    <2> QED
      BY <1>14, <2>1, <2>2 DEF LastBuild
  <1>7. ASSUME CheckDone PROVE LastBuild'
    <2>1. pc = "check" /\ ~noticed /\ ~superseded /\ UpToDate(known, {}) /\ UpToDate(build.read, {})
      BY <1>7 DEF CheckDone, Scanned, LastBuild
    <2>2. CASE next' = Retaining(build.read) /\ Scan("verify", next')
      <3>1. \A f \in Files : Retaining(build.read)[f] \in {known[f], build.read[f], Unread}
        BY <1>0 DEF Retaining, Dependencies
      <3>2. UpToDate(Retaining(build.read), {})
        BY <2>1, <3>1 DEF UpToDate, Keys
      <3>3. UpToDate(next, {})'
        BY <1>0, <2>2, <3>2 DEF UpToDate
      <3>4. build' = build
        BY <1>7 DEF CheckDone
      <3> QED
        BY <1>14, <2>1, <2>2, <3>3, <3>4 DEF Scan, LastBuild
    <2>3. CASE Scan("fail", known) /\ known' = known
      BY <1>14, <2>1, <2>3 DEF Scan, LastBuild
    <2> QED
      BY <1>0, <1>7, <2>1, <2>2, <2>3 DEF CheckDone
  <1>8. CASE Adopt
    BY <1>0, <1>8 DEF Adopt, Scanned, Rest, LastBuild, Settled, UpToDate
  <1>9. CASE FailDone
    BY <1>0, <1>9 DEF FailDone, Scanned, Rest, LastBuild, Settled, UpToDate
  <1>10. /\ ~FirstBuilt /\ ~Poll /\ ~Prepare /\ ~PollDone /\ ~VerifyFails /\ ~DropDone
    BY DEF LastBuild, FirstBuilt, Poll, Prepare, PollDone, VerifyFails, DropDone, Scanned
  <1>11. Adopt \/ FailDone => pc \in {"verify", "fail"} /\ unseen = {}
    BY DEF Adopt, FailDone, Scanned
  <1>12. (\E f \in Files : BuildRead(f)) \/ BuildEnds \/ Monitor \/ Built \/ StartBuild \/ MonitorDone \/ CheckDone
           => pc \notin {"verify", "fail"}
    BY DEF BuildRead, BuildEnds, Building, Monitor, Built, StartBuild, MonitorDone, CheckDone, Scanned
  <1>13. (\E f \in Files : Look(f)) => unseen # {}
    BY DEF Look
  <1> QED
    BY <1>1, <1>2, <1>3, <1>4, <1>5, <1>6, <1>7, <1>8, <1>9, <1>10, <1>11, <1>12, <1>13, QuietSteps

LEMMA RestIsCurrent == IInv /\ Settled => Shown
  <1> SUFFICES ASSUME IInv, Settled, served.outcome # "error",
                      NEW f \in Keys(served.read), \A g \in Files : served.read[g] \notin Unobserved
               PROVE  served.read[f] = disk[f]
    BY DEF Shown, Reflected
  <1>1. Agree(known, served.read)
    BY DEF Settled, IInv
  <1>2. f \in Files /\ served.read[f] # Unread /\ Dependencies(served.read)[f] = served.read[f]
    BY DEF Keys, Dependencies
  <1>3. known[f] = served.read[f]
    BY <1>1, <1>2 DEF Agree, Keys
  <1> QED
    BY <1>2, <1>3 DEF Settled, UpToDate, Keys

LEMMA StepRests == IInv /\ Looking /\ [Next]_vars => [ComesToRest]_vars
  <1> SUFFICES ASSUME IInv, Looking, Next, Quiet PROVE ComesToRest
    BY DEF ComesToRest
  <1>1. CASE Distance = 0
    <2>1. Distance' = 0 /\ pc \in {"idle", "poll"} /\ ~debouncing
      BY <1>1, Distances, DistancesNext, SettledStep DEF Settled
    <2>2. ~DropDone /\ ~Prepare
      BY <2>1 DEF DropDone, Scanned, Prepare
    <2> QED
      BY <1>1, <2>1, <2>2 DEF ComesToRest
  <1>2. CASE Distance = 1
    <2>1. LastBuild
      BY <1>2, Distances
    <2>2. Distance' = IF Adopt \/ FailDone THEN 0 ELSE 1
      BY <2>1, LastBuildStep, DistancesNext
    <2>3. ~Poll /\ ~DropDone /\ ~Prepare
      BY <2>1 DEF LastBuild, Poll, DropDone, Scanned, Prepare
    <2> QED
      BY <1>2, <2>2, <2>3 DEF ComesToRest
  <1>3. CASE Distance = 2
    <2>1. Due
      BY <1>3, Distances
    <2>2. Due' \/ (Prepare /\ LastBuild')
      BY <2>1, DueStep
    <2>3. Prepare => ~Due'
      BY DEF Prepare, Scan, Due
    <2>4. ~DropDone
      BY <2>1 DEF Due, DropDone, Scanned
    <2> QED
      BY <1>3, <2>2, <2>3, <2>4, DistancesNext DEF ComesToRest
  <1>4. CASE Distance = 3
    <2>1. Searching /\ ~Due
      BY <1>4, Distances
    <2>2. IF PollDone THEN Settled' ELSE Searching'
      BY <2>1, SearchingStep
    <2>3. ~DropDone /\ ~Prepare
      BY <2>1 DEF Searching, DropDone, Scanned, Prepare
    <2> QED
      BY <1>4, <2>2, <2>3, DistancesNext DEF ComesToRest
  <1>5. CASE Distance = 4
    <2>1. Poll => Searching'
      BY DEF Poll, Scan, Searching, UpToDate
    <2>2. DropDone => Due'
      BY DEF DropDone, Rest, Due
    <2>3. Prepare => LastBuild'
      BY DEF Prepare, Scan, LastBuild, UpToDate
    <2> QED
      BY <1>5, <2>1, <2>2, <2>3, DistancesNext DEF ComesToRest
  <1> QED
    BY <1>1, <1>2, <1>3, <1>4, <1>5, Distances

(* Once files stop changing the preview only comes nearer to rest: a poll  *)
(* that began since and notices nothing means rest, a rebuild that is      *)
(* prepared since is the last one, is never superseded nor dropped and     *)
(* ends in rest, and at rest what is served is of what is on disk.         *)
THEOREM QuietPreviewSettles == Spec => [](Distance = 0 => Shown) /\ [][ComesToRest]_vars
  <1>1. IInv => (Distance = 0 => Shown)
    BY RestIsCurrent, Distances
  <1> QED
    BY <1>1, SpecLooking, StepRests, PTL DEF Spec
=============================================================================
