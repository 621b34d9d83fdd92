-------------------------- MODULE LspSessionProofs --------------------------
(***************************************************************************)
(* Proofs about LspSession for every set of documents, files, texts and    *)
(* settings and every bound.  First the types, and that a result held by   *)
(* an open document always belongs to the texts the editor shows and the   *)
(* rules in force.  Then what the session promises its client.  Whatever   *)
(* the client does: a document has at most one task whose result somebody  *)
(* waits for, and no result outlives a change on disk whose report was     *)
(* handled.  While the client keeps to the protocol: no open document is   *)
(* forgotten, and what is displayed has an owner and settles.  Then that   *)
(* the session implements SessionService, again whatever the client does,  *)
(* and that every result it holds is the one for the texts and rules in    *)
(* force.  Last, that it implements LspConvergence once every document has *)
(* a new snapshot and nothing changes any more.                            *)
(*                                                                         *)
(* For the promises, every handler that changes documents is first shown   *)
(* to be a renewal (Renews, Watches): it gives some documents new          *)
(* generations, aborts the tasks of some, and leaves the others alone.     *)
(* The invariants Tasks, Covers, Watched, Settled and Owing are then each  *)
(* shown to survive a renewal, a step of one task, and the handling of its *)
(* event.                                                                  *)
(***************************************************************************)
EXTENDS LspSession, TLAPS, FiniteSetTheorems

-----------------------------------------------------------------------------
(* Generations. *)

(* Every subset of the documents is finite and has a number of elements.   *)
LEMMA DocumentSets ==
  ASSUME NEW S \in SUBSET Uris
  PROVE  IsFiniteSet(S) /\ Cardinality(S) \in Nat
BY SessionAssumption, FS_Subset, FS_CardinalityType

(* The turns of a batch of snapshots lie within the batch.                 *)
LEMMA TurnBounds ==
  ASSUME NEW P \in SUBSET Uris, NEW U \in SUBSET Uris, P \cap U = {}, NEW u \in P \cup U
  PROVE  /\ Turn(P, U, u) \in Nat
         /\ 1 <= Turn(P, U, u)
         /\ Turn(P, U, u) <= Cardinality(P \cup U)
<1> DEFINE W == {w \in U : w <= u}
<1>1. IsFiniteSet(P) /\ IsFiniteSet(U) /\ IsFiniteSet(P \cup U) /\ IsFiniteSet(W)
  BY DocumentSets
<1>2. /\ Cardinality(P) \in Nat /\ Cardinality(U) \in Nat
      /\ Cardinality(P \cup U) \in Nat /\ Cardinality(W) \in Nat
  BY DocumentSets
<1>3. Cardinality(P \cup U) = Cardinality(P) + Cardinality(U)
  <2>1. Cardinality(P \cup U) = Cardinality(P) + Cardinality(U) - Cardinality(P \cap U)
    BY <1>1, FS_Union
  <2>2. Cardinality(P \cap U) = 0
    BY FS_EmptySet
  <2> QED BY <2>1, <2>2, <1>2
<1>4. Cardinality(W) <= Cardinality(U)
  BY <1>1, FS_Subset
<1>5. CASE u \in P
  <2>1. Cardinality(P) # 0
    BY <1>1, <1>5, FS_EmptySet
  <2> QED BY <1>2, <1>3, <1>5, <2>1 DEF Turn
<1>6. CASE u \in U
  <2>1. u \notin P
    BY <1>6
  <2>2. u \in W
    BY <1>6, SessionAssumption
  <2>3. Cardinality(W) # 0
    BY <1>1, <2>2, FS_EmptySet
  <2>4. Turn(P, U, u) = Cardinality(P) + Cardinality(W)
    BY <2>1 DEF Turn
  <2> QED BY <1>2, <1>3, <1>4, <2>3, <2>4
<1> QED BY <1>5, <1>6

-----------------------------------------------------------------------------
(* Types. *)

LEMMA ClosedType == Closed \in Document /\ Closed.open = FALSE /\ Closed.status = "pending"
BY SessionAssumption DEF Closed, Document, Nothing, NoVersions, Contents

LEMMA NoPendingType == NoPending \in Pending
BY DEF NoPending, Pending

LEMMA NoRevisionType == NoRevision \in Revision
BY DEF NoRevision, Revision

(* What Install leaves behind is well typed.                               *)
LEMMA InstallType ==
  ASSUME TypeOK, NEW d \in [Uris -> Document],
         NEW P \in SUBSET Uris, NEW U \in SUBSET Uris, P \cap U = {},
         Install(d, P, U)
  PROVE  /\ docs' \in [Uris -> Document]
         /\ nextGeneration' \in Nat
         /\ cancelled' \subseteq Nat
         /\ pending' \in [Uris -> Pending]
<1>1. \A u \in P \cup U : Turn(P, U, u) \in Nat
  BY TurnBounds
<1>2. Cardinality(P \cup U) \in Nat
  BY DocumentSets
<1>3. nextGeneration' \in Nat
  BY <1>2 DEF Install, TypeOK
<1>4. docs' \in [Uris -> Document]
  <2> SUFFICES ASSUME NEW u \in Uris
               PROVE  Installed(d, P, U)[u] \in Document
    BY DEF Install, Installed
  <2>1. CASE u \in P \cup U
    <3>1. nextGeneration + Turn(P, U, u) \in Nat
      BY <1>1, <2>1 DEF TypeOK
    <3>2. Closed.settings \in Settings
      BY ClosedType DEF Document
    <3>3. Nothing \in [Files -> Contents] /\ NoVersions \in [Uris -> Nat]
      BY DEF Nothing, NoVersions, Contents
    <3>4. Installed(d, P, U)[u] =
            [d[u] EXCEPT !.generation = nextGeneration + Turn(P, U, u),
                         !.status = "pending", !.read = Nothing, !.held = NoVersions,
                         !.settings = Closed.settings]
      BY <2>1 DEF Installed
    <3>5. d[u] \in Document
      OBVIOUS
    <3> QED BY <3>1, <3>2, <3>3, <3>4, <3>5 DEF Document
  <2>2. CASE u \notin P \cup U
    BY <2>2 DEF Installed
  <2> QED BY <2>1, <2>2
<1>5. cancelled' \subseteq Nat
  BY ZenonT(40) DEF Install, TypeOK, Document, OpenDocs
<1>6. pending' \in [Uris -> Pending]
  BY NoPendingType DEF Install, TypeOK
<1> QED BY <1>3, <1>4, <1>5, <1>6

LEMMA SnapshotType ==
  ASSUME TypeOK, NEW d \in [Uris -> Document],
         NEW P \in SUBSET Uris, NEW U \in SUBSET Uris, P \cap U = {},
         NEW u \in P \cup U, NEW s \in Settings
  PROVE  Snapshot(d, P, U, u, s) \in Job
<1>1. \A w \in P \cup U : nextGeneration + Turn(P, U, w) \in Nat
  <2>1. \A w \in P \cup U : Turn(P, U, w) \in Nat
    BY TurnBounds
  <2> QED BY <2>1 DEF TypeOK
<1>2. Captured(d, P, U, u) \in [Uris -> Revision]
  <2> SUFFICES ASSUME NEW w \in Uris
               PROVE  Captured(d, P, U, u)[w] \in Revision
    BY DEF Captured
  <2>1. d[w].version \in Nat /\ d[w].generation \in Nat /\ d[w].text \in Texts \cup {Unread}
    BY DEF Document
  <2> QED BY <1>1, <2>1, NoRevisionType DEF Captured, Revision
<1>3. d[u].version \in Nat
  BY DEF Document
<1>4. (IF docs[u].open THEN docs[u].published \cup {u} ELSE {}) \in SUBSET Uris
  BY DEF TypeOK, Document
<1>5. Nothing \in [Files -> Contents]
  BY DEF Nothing, Contents
<1> QED BY <1>1, <1>2, <1>3, <1>4, <1>5 DEF Snapshot, Job, Stages

(* The snapshots of a batch are finitely many jobs.                        *)
LEMMA SnapshotsType ==
  ASSUME TypeOK, NEW d \in [Uris -> Document],
         NEW P \in SUBSET Uris, NEW U \in SUBSET Uris, P \cap U = {},
         NEW s \in Settings
  PROVE  LET J == {Snapshot(d, P, U, u, s) : u \in P \cup U}
         IN  J \subseteq Job /\ IsFiniteSet(J)
<1> DEFINE J == {Snapshot(d, P, U, u, s) : u \in P \cup U}
           f == [u \in P \cup U |-> Snapshot(d, P, U, u, s)]
<1>1. J \subseteq Job
  BY SnapshotType
<1>2. f \in Surjection(P \cup U, J)
  BY DEF Surjection
<1>3. IsFiniteSet(P \cup U)
  BY DocumentSets
<1>4. IsFiniteSet(J)
  <2> HIDE DEF f, J
  <2> QED BY <1>2, <1>3, FS_Surjection
<1> QED BY <1>1, <1>4

-----------------------------------------------------------------------------
(* Results and what they rest on. *)

(* The inductive invariant: the two properties about results, and what     *)
(* makes comparing versions and generations sound.                         *)
Inv == TypeOK /\ Consistent /\ ViewMatchesEditor /\ ViewUsesCurrentSettings

(* What Install changes of one document.                                   *)
LEMMA InstalledDocument ==
  ASSUME TypeOK, NEW d \in [Uris -> Document],
         NEW P \in SUBSET Uris, NEW U \in SUBSET Uris, P \cap U = {},
         Install(d, P, U), NEW u \in Uris
  PROVE  /\ docs'[u].open = d[u].open
         /\ docs'[u].version = d[u].version
         /\ docs'[u].text = d[u].text
         /\ u \in P \cup U =>
              /\ docs'[u].status = "pending"
              /\ docs'[u].generation = nextGeneration + Turn(P, U, u)
              /\ docs'[u].generation \in Nat
              /\ nextGeneration < docs'[u].generation
              /\ docs'[u].generation <= nextGeneration'
         /\ u \notin P \cup U => docs'[u] = d[u]
         /\ nextGeneration' \in Nat /\ nextGeneration <= nextGeneration'
<1>1. docs' = Installed(d, P, U) /\ nextGeneration' = nextGeneration + Cardinality(P \cup U)
  BY DEF Install
<1>2. Cardinality(P \cup U) \in Nat /\ nextGeneration \in Nat
  BY DocumentSets DEF TypeOK
<1>3. CASE u \in P \cup U
  <2>1. docs'[u] = [d[u] EXCEPT !.generation = nextGeneration + Turn(P, U, u),
                                !.status = "pending", !.read = Nothing, !.held = NoVersions,
                                !.settings = Closed.settings]
    BY <1>1, <1>3 DEF Installed
  <2>2. /\ Turn(P, U, u) \in Nat /\ 1 <= Turn(P, U, u)
        /\ Turn(P, U, u) <= Cardinality(P \cup U)
    BY <1>3, TurnBounds
  <2>3. d[u] \in Document
    OBVIOUS
  <2>4. /\ docs'[u].open = d[u].open /\ docs'[u].version = d[u].version
        /\ docs'[u].text = d[u].text /\ docs'[u].status = "pending"
        /\ docs'[u].generation = nextGeneration + Turn(P, U, u)
    BY <2>1, <2>3 DEF Document
  <2>5. /\ docs'[u].generation \in Nat
        /\ nextGeneration < docs'[u].generation
        /\ docs'[u].generation <= nextGeneration'
    BY <1>1, <1>2, <2>2, <2>4
  <2>6. nextGeneration' \in Nat /\ nextGeneration <= nextGeneration'
    BY <1>1, <1>2
  <2> QED BY <1>3, <2>4, <2>5, <2>6
<1>4. CASE u \notin P \cup U
  <2>1. docs'[u] = d[u]
    BY <1>1, <1>4 DEF Installed
  <2>2. nextGeneration' \in Nat /\ nextGeneration <= nextGeneration'
    BY <1>1, <1>2
  <2> QED BY <1>4, <2>1, <2>2
<1> QED BY <1>3, <1>4

(* Installing snapshots keeps the invariant, provided that whatever used   *)
(* the text of a document that changes is among the documents installed.   *)
LEMMA InstallKeeps ==
  ASSUME Inv, NEW d \in [Uris -> Document],
         NEW P \in SUBSET Uris, NEW U \in SUBSET Uris, P \cap U = {},
         NEW s \in Settings, settings' = s,
         Install(d, P, U),
         jobs' \subseteq jobs \cup {Snapshot(d, P, U, u, s) : u \in P \cup U},
         \A w \in Uris \ P : d[w] = docs[w] \/ (d[w] = Closed /\ w \notin U),
         \A w \in P \cup U : d[w].open,
         s = settings \/ OpenDocs(docs) \subseteq U,
         \A r \in Uris \ (P \cup U) : d[r] = docs[r] /\ Analysed(r) =>
           /\ observations'[r] = observations[r]
           /\ \A u \in Uris : docs[r].held[u] # 0 => d[u] = docs[u]
  PROVE  Consistent' /\ ViewMatchesEditor' /\ ViewUsesCurrentSettings'
<1> USE DEF Inv
<1>1. \A u \in Uris :
        /\ docs'[u].open = d[u].open
        /\ docs'[u].version = d[u].version
        /\ docs'[u].text = d[u].text
        /\ u \in P \cup U =>
             /\ docs'[u].status = "pending"
             /\ docs'[u].generation = nextGeneration + Turn(P, U, u)
             /\ docs'[u].generation \in Nat
             /\ nextGeneration < docs'[u].generation
             /\ docs'[u].generation <= nextGeneration'
        /\ u \notin P \cup U => docs'[u] = d[u]
        /\ nextGeneration' \in Nat /\ nextGeneration <= nextGeneration'
  BY InstalledDocument
<1>2. \A u \in Uris \ (P \cup U) : docs'[u].open \/ docs'[u].status # "pending" =>
        docs'[u] = docs[u] /\ d[u] = docs[u]
  BY <1>1, ClosedType
<1>3. /\ nextGeneration \in Nat
      /\ \A u \in Uris : docs[u].generation \in Nat /\ docs[u].generation <= nextGeneration
      /\ \A u \in Uris : docs[u].open => docs[u].generation > 0
      /\ Closed.generation = 0
  BY DEF Consistent, GenerationsHandedOut, TypeOK, Document, OpenDocs, Closed
<1>4. /\ \A u \in Uris : docs'[u].generation <= nextGeneration'
      /\ \A u \in Uris : docs'[u].open => docs'[u].generation > 0
  <2> SUFFICES ASSUME NEW u \in Uris
               PROVE  /\ docs'[u].generation <= nextGeneration'
                      /\ docs'[u].open => docs'[u].generation > 0
    OBVIOUS
  <2>1. CASE u \in P \cup U
    BY <1>1, <1>3, <2>1
  <2>2. CASE u \notin P \cup U
    <3>1. docs'[u] = docs[u] \/ docs'[u] = Closed
      BY <1>1, <2>2
    <3> QED BY <1>1, <1>3, <3>1, ClosedType
  <2> QED BY <2>1, <2>2
(* What is captured by the snapshots taken.                                *)
<1>5. ASSUME NEW v \in P \cup U, NEW u \in Uris
      PROVE  LET r == Snapshot(d, P, U, v, s).captured[u]
             IN  /\ r.generation = 0 => r.version = 0
                 /\ r.generation <= nextGeneration'
                 /\ docs'[u].open /\ docs'[u].generation = r.generation =>
                      docs'[u].version = r.version /\ docs'[u].text = r.text
  <2> DEFINE r == Snapshot(d, P, U, v, s).captured[u]
  <2>1. r = Captured(d, P, U, v)[u]
    BY DEF Snapshot
  <2>2. CASE v \in NonFile \/ u \in NonFile \/ ~d[u].open
    <3>1. r = NoRevision
      BY <2>1, <2>2 DEF Captured
    <3> QED BY <1>1, <1>4, <3>1, <1>3 DEF NoRevision
  <2>3. CASE ~(v \in NonFile \/ u \in NonFile \/ ~d[u].open)
    <3>1. r = [version |-> d[u].version, text |-> d[u].text,
               generation |-> IF u \in P \cup U /\ Turn(P, U, u) <= Turn(P, U, v)
                              THEN nextGeneration + Turn(P, U, u) ELSE d[u].generation]
      BY <2>1, <2>3 DEF Captured
    <3>2. /\ r.version = d[u].version /\ r.text = d[u].text
          /\ r.generation = IF u \in P \cup U /\ Turn(P, U, u) <= Turn(P, U, v)
                            THEN nextGeneration + Turn(P, U, u) ELSE d[u].generation
      BY <3>1
    <3>3. docs'[u].version = r.version /\ docs'[u].text = r.text
      BY <1>1, <3>2
    <3>4. r.generation # 0 /\ r.generation <= nextGeneration'
      <4>1. CASE u \in P
        <5>1. Turn(P, U, u) <= Turn(P, U, v)
          <6>1. Turn(P, U, u) = 1
            BY <4>1 DEF Turn
          <6> QED BY <6>1, TurnBounds, ZenonT(40)
        <5>2. r.generation = docs'[u].generation
          BY <1>1, <3>2, <4>1, <5>1
        <5> QED BY <1>1, <1>3, <4>1, <5>2
      <4>2. CASE u \in U
        <5>1. d[u] = docs[u]
          BY <4>2
        <5>2. CASE Turn(P, U, u) <= Turn(P, U, v)
          <6>1. r.generation = docs'[u].generation
            BY <1>1, <3>2, <4>2, <5>2
          <6> QED BY <1>1, <1>3, <4>2, <6>1
        <5>3. CASE ~(Turn(P, U, u) <= Turn(P, U, v))
          <6>1. r.generation = docs[u].generation
            BY <3>2, <5>1, <5>3
          <6> QED BY <1>1, <1>3, <2>3, <5>1, <6>1
        <5> QED BY <5>2, <5>3
      <4>3. CASE u \notin P \cup U
        <5>1. d[u] = docs[u] /\ r.generation = docs[u].generation
          BY <2>3, <3>2, <4>3, ClosedType
        <5> QED BY <1>1, <1>3, <2>3, <5>1
      <4> QED BY <4>1, <4>2, <4>3
    <3> QED BY <3>3, <3>4
  <2> QED BY <2>2, <2>3
<1>6. \A j \in jobs : /\ j.generation \in Nat /\ j.uri \in Uris
                      /\ \A u \in Uris : j.captured[u].generation \in Nat
  BY DEF TypeOK, Job, Revision
<1>7. GenerationsHandedOut'
  <2>1. ASSUME NEW j \in jobs'
        PROVE  /\ j.generation <= nextGeneration'
               /\ \A u \in Uris :
                    /\ j.captured[u].generation <= nextGeneration'
                    /\ j.captured[u].generation = 0 => j.captured[u].version = 0
    <3>1. CASE j \in jobs
      <4>1. /\ j.generation <= nextGeneration
            /\ \A u \in Uris :
                 /\ j.captured[u].generation <= nextGeneration
                 /\ j.captured[u].generation = 0 => j.captured[u].version = 0
        BY <3>1 DEF Consistent, GenerationsHandedOut
      <4>2. nextGeneration' \in Nat /\ nextGeneration <= nextGeneration'
        <5>1. nextGeneration' = nextGeneration + Cardinality(P \cup U)
          BY DEF Install
        <5>2. Cardinality(P \cup U) \in Nat
          BY DocumentSets
        <5> QED BY <1>3, <5>1, <5>2
      <4>3. j.generation \in Nat /\ \A u \in Uris : j.captured[u].generation \in Nat
        BY <1>6, <3>1
      <4> QED BY <1>3, <4>1, <4>2, <4>3
    <3>2. CASE j \notin jobs
      <4>1. PICK v \in P \cup U : j = Snapshot(d, P, U, v, s)
        BY <3>2
      <4>2. j.generation = docs'[v].generation
        BY <1>1, <4>1 DEF Snapshot
      <4> QED BY <1>1, <1>5, <4>1, <4>2
    <3> QED BY <3>1, <3>2
  <2> QED BY <1>4, <2>1 DEF GenerationsHandedOut, OpenDocs
<1>8. GenerationsNameTexts'
  <2> SUFFICES ASSUME NEW j \in jobs', NEW u \in Uris, docs'[u].open,
                      docs'[u].generation = j.captured[u].generation
               PROVE  docs'[u].version = j.captured[u].version
                      /\ docs'[u].text = j.captured[u].text
    BY DEF GenerationsNameTexts, OpenDocs
  <2>1. CASE j \in jobs
    <3>1. j.captured[u].generation \in Nat /\ j.captured[u].generation <= nextGeneration
      BY <1>6, <2>1 DEF Consistent, GenerationsHandedOut
    <3>2. u \notin P \cup U
      BY <1>1, <1>3, <3>1
    <3>3. docs'[u] = docs[u]
      BY <1>2, <3>2
    <3> QED BY <2>1, <3>3 DEF Consistent, GenerationsNameTexts, OpenDocs
  <2>2. CASE j \notin jobs
    <3>1. PICK v \in P \cup U : j = Snapshot(d, P, U, v, s)
      BY <2>2
    <3> QED BY <1>5, <3>1
  <2> QED BY <2>1, <2>2
<1>9. GenerationsNameSettings'
  <2> SUFFICES ASSUME NEW j \in jobs', docs'[j.uri].open,
                      docs'[j.uri].generation = j.generation
               PROVE  j.settings = s
    BY DEF GenerationsNameSettings
  <2>1. CASE j \in jobs
    <3>1. j.uri \in Uris /\ j.generation \in Nat /\ j.generation <= nextGeneration
      BY <1>6, <2>1 DEF Consistent, GenerationsHandedOut
    <3>2. j.uri \notin P \cup U
      BY <1>1, <1>3, <3>1
    <3>3. docs'[j.uri] = docs[j.uri]
      BY <1>2, <3>1, <3>2
    <3>4. j.settings = settings
      BY <2>1, <3>3 DEF Consistent, GenerationsNameSettings
    <3>5. j.uri \in OpenDocs(docs)
      BY <3>1, <3>3 DEF OpenDocs
    <3> QED BY <3>2, <3>4, <3>5
  <2>2. CASE j \notin jobs
    BY <2>2 DEF Snapshot
  <2> QED BY <2>1, <2>2
(* A document with a view was not installed, so the view is an old one.    *)
<1>10. \A r \in Uris : Analysed(r)' =>
         /\ Analysed(r) /\ docs'[r] = docs[r] /\ d[r] = docs[r] /\ r \notin P \cup U
  BY <1>1, <1>2 DEF Analysed
<1>11. ViewObservesEditors'
  BY <1>10 DEF ViewObservesEditors, Consistent
<1>12. ViewMatchesEditor'
  <2> SUFFICES ASSUME NEW r \in Uris, Analysed(r)', NEW u \in Uris, docs'[r].held[u] # 0
               PROVE  /\ docs'[u].open /\ docs'[u].version = docs'[r].held[u]
                      /\ docs'[u].text = docs'[r].read[u]
    BY DEF ViewMatchesEditor
  <2>1. Analysed(r) /\ docs'[r] = docs[r] /\ d[u] = docs[u]
    BY <1>10
  <2>2. /\ docs[u].open /\ docs[u].version = docs[r].held[u]
        /\ docs[u].text = docs[r].read[u]
    BY <2>1 DEF ViewMatchesEditor
  <2> QED BY <1>1, <2>1, <2>2
<1>13. ViewUsesCurrentSettings'
  <2> SUFFICES ASSUME NEW r \in Uris, Analysed(r)'
               PROVE  docs'[r].settings = s
    BY DEF ViewUsesCurrentSettings
  <2>1. r \in OpenDocs(docs) \ U /\ docs'[r] = docs[r] /\ Analysed(r)
    BY <1>10 DEF Analysed, OpenDocs
  <2> QED BY <2>1 DEF ViewUsesCurrentSettings
<1> QED BY <1>7, <1>8, <1>9, <1>11, <1>12, <1>13 DEF Consistent

-----------------------------------------------------------------------------
(* The other parts of a step. *)

LEMMA AbortedThreads ==
  ASSUME TypeOK, NEW U
  PROVE  Cardinality(Threads(Aborted(U))) \in Nat
<1>1. Threads(Aborted(U)) \subseteq jobs
  BY DEF Threads, Aborted
<1> QED BY <1>1, FS_Subset, FS_CardinalityType DEF TypeOK

LEMMA ScheduleType ==
  ASSUME TypeOK, NEW done, NEW d \in [Uris -> Document],
         NEW P \in SUBSET Uris, NEW U \in SUBSET Uris, P \cap U = {},
         NEW s \in Settings, Schedule(done, d, P, U, s)
  PROVE  /\ jobs' \subseteq Job /\ IsFiniteSet(jobs')
         /\ jobs' \subseteq jobs \cup {Snapshot(d, P, U, u, s) : u \in P \cup U}
         /\ abandoned' \in Nat
         /\ workers' \in [Uris -> Nat]
<1> DEFINE J == {Snapshot(d, P, U, u, s) : u \in P \cup U}
           K == jobs \ (done \cup Aborted(P \cup U))
<1>1. J \subseteq Job /\ IsFiniteSet(J)
  BY SnapshotsType
<1>2. jobs' = K \cup J
  BY DEF Schedule
<1>3. K \subseteq Job /\ IsFiniteSet(K)
  BY FS_Subset DEF TypeOK
<1>4. IsFiniteSet(K \cup J)
  BY <1>1, <1>3, FS_Union
<1>5. abandoned' \in Nat
  BY AbortedThreads DEF Schedule, TypeOK
<1>6. workers' \in [Uris -> Nat]
  <2>1. \A u \in P \cup U : Turn(P, U, u) \in Nat
    BY TurnBounds
  <2> QED BY <2>1 DEF Schedule, TypeOK
<1> QED BY <1>1, <1>2, <1>3, <1>4, <1>5, <1>6

LEMMA PublishType ==
  ASSUME TypeOK, NEW d, NEW U, Publish(d, U)
  PROVE  shown' \in [Uris -> SUBSET Uris]
BY DEF Publish, Contributions, OpenDocs, TypeOK

(* A task keeps what it captured.                                          *)
SameSnapshot(j, k) ==
  /\ k.uri = j.uri /\ k.generation = j.generation
  /\ k.settings = j.settings /\ k.captured = j.captured

(* Steps that leave the documents alone and move or drop tasks.            *)
LEMMA TaskKeeps ==
  ASSUME Inv, UNCHANGED <<docs, nextGeneration, observations, settings>>,
         \A k \in jobs' : \E j \in jobs : SameSnapshot(j, k)
  PROVE  Consistent' /\ ViewMatchesEditor' /\ ViewUsesCurrentSettings'
<1> USE DEF Inv, Consistent, SameSnapshot
<1>1. GenerationsHandedOut'
  BY DEF GenerationsHandedOut, OpenDocs
<1>2. GenerationsNameTexts'
  BY DEF GenerationsNameTexts, OpenDocs
<1>3. GenerationsNameSettings'
  BY DEF GenerationsNameSettings
<1>4. ViewObservesEditors' /\ ViewMatchesEditor' /\ ViewUsesCurrentSettings'
  BY DEF ViewObservesEditors, ViewMatchesEditor, ViewUsesCurrentSettings, Analysed
<1> QED BY <1>1, <1>2, <1>3, <1>4

LEMMA AdvanceKeeps ==
  ASSUME Inv, NEW j \in jobs, NEW k \in Job, SameSnapshot(j, k), Advance(j, k), TaskOnly
  PROVE  Inv'
<1>1. IsFiniteSet((jobs \ {j}) \cup {k})
  BY FS_RemoveElement, FS_AddElement DEF Inv, TypeOK
<1>2. TypeOK'
  BY <1>1 DEF Inv, TypeOK, Advance, TaskOnly, session
<1>3. \A l \in jobs' : \E i \in jobs : SameSnapshot(i, l)
  BY DEF Advance, SameSnapshot
<1>4. UNCHANGED <<docs, nextGeneration, observations, settings>>
  BY DEF TaskOnly, session
<1> QED BY <1>2, <1>3, <1>4, TaskKeeps DEF Inv

LEMMA DropKeeps ==
  ASSUME Inv, NEW j \in jobs, jobs' = jobs \ {j}, TaskOnly
  PROVE  Inv'
<1>1. IsFiniteSet(jobs \ {j})
  BY FS_RemoveElement DEF Inv, TypeOK
<1>2. TypeOK'
  BY <1>1 DEF Inv, TypeOK, TaskOnly, session
<1>3. \A l \in jobs' : \E i \in jobs : SameSnapshot(i, l)
  BY DEF SameSnapshot
<1>4. UNCHANGED <<docs, nextGeneration, observations, settings>>
  BY DEF TaskOnly, session
<1> QED BY <1>2, <1>3, <1>4, TaskKeeps DEF Inv

-----------------------------------------------------------------------------
(* Notifications. *)

(* Opening or changing u leaves nothing that used u's text outside of what *)
(* is analysed again.                                                      *)
LEMMA DependentsCover ==
  ASSUME Inv, NEW u \in Uris, NEW r \in Uris, Analysed(r), docs[r].held[u] # 0, r # u
  PROVE  r \in Dependents(u) /\ u \notin NonFile
<1>1. u \in DocFiles \cap observations[r]
  BY DEF Inv, Consistent, ViewObservesEditors
<1> QED BY <1>1 DEF Dependents, ObservingDocuments, OpenDocs, Analysed, DocFiles

LEMMA EditKeeps ==
  ASSUME Inv, NEW u \in Uris, NEW e \in Document, e.open,
         Install([docs EXCEPT ![u] = e], {u}, IF u \in NonFile THEN {} ELSE Dependents(u)),
         Schedule({}, [docs EXCEPT ![u] = e], {u},
                  IF u \in NonFile THEN {} ELSE Dependents(u), settings),
         UNCHANGED <<observations, settings, running, disk, unwatched, shown>>
  PROVE  Inv'
<1> DEFINE d == [docs EXCEPT ![u] = e]
           U == IF u \in NonFile THEN {} ELSE Dependents(u)
<1>1. TypeOK
  BY DEF Inv
<1>2. d \in [Uris -> Document] /\ settings \in Settings
  BY <1>1 DEF TypeOK
<1>3. /\ {u} \in SUBSET Uris /\ U \in SUBSET Uris /\ {u} \cap U = {}
      /\ \A w \in U : docs[w].open
  BY DEF Dependents, OpenDocs
<1>4. /\ d[u] = e
      /\ \A w \in Uris : w # u => d[w] = docs[w]
  BY <1>1 DEF TypeOK
<1>5. \A r \in Uris \ ({u} \cup U) : d[r] = docs[r] /\ Analysed(r) =>
        /\ observations'[r] = observations[r]
        /\ \A w \in Uris : docs[r].held[w] # 0 => d[w] = docs[w]
  BY <1>4, DependentsCover
<1>6. \A w \in {u} \cup U : d[w].open
  BY <1>3, <1>4
<1> HIDE DEF d, U
<1>7. Install(d, {u}, U) /\ Schedule({}, d, {u}, U, settings)
  BY DEF d, U
<1>8. /\ docs' \in [Uris -> Document] /\ nextGeneration' \in Nat
      /\ cancelled' \subseteq Nat /\ pending' \in [Uris -> Pending]
  BY <1>1, <1>2, <1>3, <1>7, InstallType
<1>9. /\ jobs' \subseteq Job /\ IsFiniteSet(jobs')
      /\ jobs' \subseteq jobs \cup {Snapshot(d, {u}, U, w, settings) : w \in {u} \cup U}
      /\ abandoned' \in Nat /\ workers' \in [Uris -> Nat]
  BY <1>1, <1>2, <1>3, <1>7, ScheduleType
<1>10. TypeOK'
  BY <1>1, <1>8, <1>9 DEF TypeOK
<1>11. Consistent' /\ ViewMatchesEditor' /\ ViewUsesCurrentSettings'
  BY <1>2, <1>3, <1>4, <1>5, <1>6, <1>7, <1>9, InstallKeeps
<1> QED BY <1>10, <1>11 DEF Inv

(* Analysing open documents again with the settings s.                     *)
LEMMA ReanalyseKeeps ==
  ASSUME Inv, NEW done, NEW U \in SUBSET OpenDocs(docs), NEW s \in Settings,
         s = settings \/ U = OpenDocs(docs), settings' = s,
         Install(docs, {}, U), Schedule(done, docs, {}, U, s),
         unwatched' \subseteq Files,
         UNCHANGED <<observations, running, disk, shown>>
  PROVE  Inv'
<1>1. TypeOK
  BY DEF Inv
<1>2. /\ {} \in SUBSET Uris /\ U \in SUBSET Uris /\ {} \cap U = {}
      /\ docs \in [Uris -> Document]
      /\ \A w \in {} \cup U : docs[w].open
  BY <1>1 DEF OpenDocs, TypeOK
<1>3. /\ docs' \in [Uris -> Document] /\ nextGeneration' \in Nat
      /\ cancelled' \subseteq Nat /\ pending' \in [Uris -> Pending]
  BY <1>1, <1>2, InstallType
<1>4. /\ jobs' \subseteq Job /\ IsFiniteSet(jobs')
      /\ jobs' \subseteq jobs \cup {Snapshot(docs, {}, U, w, s) : w \in {} \cup U}
      /\ abandoned' \in Nat /\ workers' \in [Uris -> Nat]
  BY <1>1, <1>2, ScheduleType
<1>5. TypeOK'
  BY <1>1, <1>3, <1>4 DEF TypeOK
<1>6. s = settings \/ OpenDocs(docs) \subseteq U
  OBVIOUS
<1>7. Consistent' /\ ViewMatchesEditor' /\ ViewUsesCurrentSettings'
  BY <1>2, <1>4, <1>6, InstallKeeps
<1> QED BY <1>5, <1>7 DEF Inv

LEMMA DidOpenKeeps ==
  ASSUME Inv, NEW u \in Uris, NEW v \in OpenVersions, NEW t \in Texts, DidOpen(u, v, t)
  PROVE  Inv'
<1> DEFINE e == [Closed EXCEPT !.open = TRUE, !.version = v, !.text = t, !.published = {u}]
<1>1. e \in Document /\ e.open
  <2>1. v \in Nat
    BY SessionAssumption
  <2> QED BY <2>1, ClosedType DEF Document
<1> HIDE DEF e
<1>2. /\ Install([docs EXCEPT ![u] = e], {u}, IF u \in NonFile THEN {} ELSE Dependents(u))
      /\ Schedule({}, [docs EXCEPT ![u] = e], {u},
                  IF u \in NonFile THEN {} ELSE Dependents(u), settings)
      /\ UNCHANGED <<observations, settings, running, disk, unwatched, shown>>
  BY DEF DidOpen, e
<1> QED BY <1>1, <1>2, EditKeeps

LEMMA DidChangeKeeps ==
  ASSUME Inv, NEW u \in Uris, NEW v \in 1..MaxVersion, NEW t \in Texts, DidChange(u, v, t)
  PROVE  Inv'
<1> DEFINE e == [docs[u] EXCEPT !.version = v, !.text = t]
<1>1. docs[u] \in Document /\ docs[u].open
  BY DEF Inv, TypeOK, DidChange
<1>2. e \in Document /\ e.open
  <2>1. v \in Nat
    BY SessionAssumption
  <2> QED BY <1>1, <2>1 DEF Document
<1>3. [docs EXCEPT ![u].version = v, ![u].text = t] = [docs EXCEPT ![u] = e]
  BY DEF Inv, TypeOK
<1> HIDE DEF e
<1>4. /\ Install([docs EXCEPT ![u] = e], {u}, IF u \in NonFile THEN {} ELSE Dependents(u))
      /\ Schedule({}, [docs EXCEPT ![u] = e], {u},
                  IF u \in NonFile THEN {} ELSE Dependents(u), settings)
      /\ UNCHANGED <<observations, settings, running, disk, unwatched, shown>>
  BY <1>3 DEF DidChange
<1> QED BY <1>2, <1>4, EditKeeps

LEMMA DidSaveKeeps ==
  ASSUME Inv, NEW u \in Uris, DidSave(u)
  PROVE  Inv'
<1>1. TypeOK'
  BY PublishType DEF Inv, TypeOK, DidSave, session
<1>2. /\ UNCHANGED <<docs, nextGeneration, observations, settings>>
      /\ \A k \in jobs' : \E j \in jobs : SameSnapshot(j, k)
  BY DEF DidSave, session, SameSnapshot
<1> QED BY <1>1, <1>2, TaskKeeps DEF Inv

LEMMA DidCloseKeeps ==
  ASSUME Inv, NEW u \in Uris, DidClose(u)
  PROVE  Inv'
<1> DEFINE d == [docs EXCEPT ![u] = Closed]
           U == Dependents(u)
           J == {Snapshot(d, {}, U, w, settings) : w \in {} \cup U}
<1>1. TypeOK
  BY DEF Inv
<1>2. d \in [Uris -> Document] /\ settings \in Settings
  BY <1>1, ClosedType DEF TypeOK
<1>3. /\ {} \in SUBSET Uris /\ U \in SUBSET Uris /\ {} \cap U = {} /\ u \notin U
      /\ \A w \in U : docs[w].open
  BY DEF Dependents, OpenDocs
<1>4. /\ d[u] = Closed
      /\ \A w \in Uris : w # u => d[w] = docs[w]
  BY <1>1 DEF TypeOK
<1>5. /\ observations' \in [Uris -> SUBSET (Uris \cup {Config})]
      /\ \A r \in Uris : r # u => observations'[r] = observations[r]
  BY <1>1 DEF DidClose, TypeOK
<1>6. \A r \in Uris \ ({} \cup U) : d[r] = docs[r] /\ Analysed(r) =>
        /\ observations'[r] = observations[r]
        /\ \A w \in Uris : docs[r].held[w] # 0 => d[w] = docs[w]
  BY <1>4, <1>5, ClosedType, DependentsCover DEF Analysed
<1>7. \A w \in {} \cup U : d[w].open
  BY <1>3, <1>4
<1>8. Install(d, {}, U)
  BY DEF DidClose
<1>9. jobs' \subseteq jobs \cup J
  BY DEF DidClose
<1>10. UNCHANGED <<settings, running, disk, unwatched>>
  BY DEF DidClose
<1>11. J \subseteq Job /\ IsFiniteSet(J)
  <2> HIDE DEF d, U
  <2> QED BY <1>1, <1>2, <1>3, SnapshotsType
<1>12. jobs' \subseteq Job /\ IsFiniteSet(jobs')
  <2> HIDE DEF J
  <2>1. IsFiniteSet(jobs \cup J)
    BY <1>1, <1>11, FS_Union DEF TypeOK
  <2> QED BY <1>1, <1>9, <1>11, <2>1, FS_Subset DEF TypeOK
<1>13. abandoned' \in Nat /\ workers' \in [Uris -> Nat]
  <2>1. \A S : abandoned + Cardinality(Threads(Aborted(S))) \in Nat
    BY <1>1, AbortedThreads DEF TypeOK
  <2>2. \A w \in U : nextGeneration + Turn({}, U, w) \in Nat
    <3>1. \A w \in U : Turn({}, U, w) \in Nat
      BY <1>3, TurnBounds
    <3> QED BY <1>1, <3>1 DEF TypeOK
  <2>3. \A w \in Uris : workers[w] \in Nat
    BY <1>1 DEF TypeOK
  <2>4. CASE docs[u].open
    <3>1. /\ abandoned' = abandoned + Cardinality(Threads(Aborted(U \cup {u})))
          /\ workers' = [w \in Uris |-> IF w = u THEN 0
                                        ELSE IF w \in U THEN nextGeneration + Turn({}, U, w)
                                        ELSE workers[w]]
      BY <2>4 DEF DidClose
    <3> HIDE DEF U
    <3> QED BY <2>1, <2>2, <2>3, <3>1
  <2>5. CASE ~docs[u].open
    <3>1. /\ abandoned' = abandoned + Cardinality(Threads(Aborted({u})))
          /\ workers' = [workers EXCEPT ![u] = 0]
      BY <2>5 DEF DidClose
    <3> QED BY <1>1, <2>1, <3>1 DEF TypeOK
  <2> QED BY <2>4, <2>5
<1>14. shown' \in [Uris -> SUBSET Uris]
  BY <1>1, PublishType DEF DidClose, TypeOK
<1> HIDE DEF d, U
<1>15. /\ docs' \in [Uris -> Document] /\ nextGeneration' \in Nat
       /\ cancelled' \subseteq Nat /\ pending' \in [Uris -> Pending]
  BY <1>1, <1>2, <1>3, <1>8, InstallType
<1>16. TypeOK'
  BY <1>1, <1>5, <1>10, <1>12, <1>13, <1>14, <1>15 DEF TypeOK
<1>17. \A w \in Uris \ {} : d[w] = docs[w] \/ (d[w] = Closed /\ w \notin U)
  BY <1>3, <1>4
<1>18. Consistent' /\ ViewMatchesEditor' /\ ViewUsesCurrentSettings'
  BY <1>2, <1>3, <1>6, <1>7, <1>8, <1>9, <1>10, <1>17, InstallKeeps
<1> QED BY <1>16, <1>18 DEF Inv

LEMMA DidChangeWatchedFilesKeeps ==
  ASSUME Inv, NEW F, DidChangeWatchedFiles(F)
  PROVE  Inv'
<1>1. PICK U \in {OpenObservers(F), OpenDocs(docs)} :
        /\ Install(docs, {}, U) /\ Schedule({}, docs, {}, U, settings)
        /\ unwatched' = unwatched \ F
        /\ UNCHANGED <<observations, settings, running, disk, shown>>
  BY DEF DidChangeWatchedFiles
<1>2. U \in SUBSET OpenDocs(docs)
  <2>1. OpenObservers(F) \subseteq OpenDocs(docs)
    BY DEF OpenObservers
  <2> QED BY <2>1
<1>3. settings \in Settings /\ unwatched' \subseteq Files
  BY <1>1 DEF Inv, TypeOK
<1> QED BY <1>1, <1>2, <1>3, ReanalyseKeeps

LEMMA DidChangeConfigurationKeeps ==
  ASSUME Inv, NEW s \in Settings, DidChangeConfiguration(s)
  PROVE  Inv'
<1>1. unwatched' \subseteq Files
  BY DEF Inv, TypeOK, DidChangeConfiguration
<1> QED BY <1>1, ReanalyseKeeps DEF DidChangeConfiguration

LEMMA ShutdownKeeps ==
  ASSUME Inv, Shutdown
  PROVE  Inv'
<1>1. jobs' \subseteq Job /\ IsFiniteSet(jobs')
  BY FS_Subset DEF Inv, TypeOK, Shutdown
<1>2. abandoned' \in Nat
  BY AbortedThreads DEF Inv, TypeOK, Shutdown
<1>3. cancelled' \subseteq Nat
  BY DEF Inv, TypeOK, Shutdown, Document, OpenDocs
<1>4. TypeOK'
  BY <1>1, <1>2, <1>3, NoPendingType DEF Inv, TypeOK, Shutdown
<1>5. /\ UNCHANGED <<docs, nextGeneration, observations, settings>>
      /\ \A k \in jobs' : \E j \in jobs : SameSnapshot(j, k)
  BY DEF Shutdown, SameSnapshot
<1> QED BY <1>4, <1>5, TaskKeeps DEF Inv

-----------------------------------------------------------------------------
(* Events. *)

LEMMA NeededDocuments ==
  ASSUME NEW j
  PROVE  Needed(j) \subseteq DocFiles /\ DocFiles \subseteq Uris /\ DocFiles \subseteq Files
BY DEF Needed, DocFiles, Files

LEMMA IgnoreKeeps ==
  ASSUME Inv, NEW j \in jobs, Ignore(j), pending' \in [Uris -> Pending]
  PROVE  Inv'
<1>1. workers' \in [Uris -> Nat]
  BY DEF Inv, TypeOK, Ignore, Complete
<1>2. IsFiniteSet(jobs \ {j})
  BY FS_RemoveElement DEF Inv, TypeOK
<1>3. TypeOK'
  BY <1>1, <1>2 DEF Inv, TypeOK, Ignore
<1>4. /\ UNCHANGED <<docs, nextGeneration, observations, settings>>
      /\ \A k \in jobs' : \E i \in jobs : SameSnapshot(i, k)
  BY DEF Ignore, SameSnapshot
<1> QED BY <1>3, <1>4, TaskKeeps DEF Inv

LEMMA RetryKeeps ==
  ASSUME Inv, NEW j \in jobs, SnapshotIsCurrent(j), Retry(j)
  PROVE  Inv'
<1>1. {j.uri} \in SUBSET OpenDocs(docs) /\ settings \in Settings /\ unwatched' \subseteq Files
  BY DEF Inv, TypeOK, Job, SnapshotIsCurrent, OpenDocs, Retry
<1> QED BY <1>1, ReanalyseKeeps DEF Retry

LEMMA AdoptedType ==
  ASSUME TypeOK, NEW j \in jobs
  PROVE  /\ Adopted(j) \in Document
         /\ Adopted(j).open = docs[j.uri].open
         /\ Adopted(j).version = docs[j.uri].version
         /\ Adopted(j).text = docs[j.uri].text
         /\ Adopted(j).generation = docs[j.uri].generation
         /\ Adopted(j).settings = j.settings
         /\ Adopted(j).status = "view" =>
              /\ ~Rejected(j) /\ ~ConfigFailed(j)
              /\ \A u \in Uris :
                   /\ Adopted(j).held[u] =
                        IF u \in Needed(j) THEN j.captured[u].version ELSE 0
                   /\ u \in Needed(j) => Adopted(j).read[u] = Known(j, u)
<1> DEFINE kept == IF Rejected(j) \/ ConfigFailed(j) THEN {} ELSE Needed(j)
           status == IF Rejected(j) \/ ConfigFailed(j) THEN "problem" ELSE "view"
           read == [f \in Files |-> IF f = Config THEN j.read[f]
                                    ELSE IF f \in kept THEN Known(j, f) ELSE Unread]
           held == [u \in Uris |-> IF u \in kept THEN j.captured[u].version ELSE 0]
           published == {u \in kept : Known(j, u) \in Texts} \cup {j.uri}
<1>1. /\ j \in Job /\ docs[j.uri] \in Document
  BY DEF TypeOK, Job
<1>2. /\ j.uri \in Uris /\ j.settings \in Settings
      /\ j.captured \in [Uris -> Revision] /\ j.read \in [Files -> Contents]
  BY <1>1 DEF Job
<1>3. kept \subseteq DocFiles /\ kept \subseteq Uris
  BY NeededDocuments
<1>4. read \in [Files -> Contents]
  <2>1. \A f \in Files : j.read[f] \in Contents
    BY <1>2
  <2>2. \A u \in Uris : j.captured[u].text \in Contents
    BY <1>2 DEF Revision, Contents
  <2>3. \A f \in Files : Known(j, f) \in Contents
    BY <2>1, <2>2 DEF Known
  <2>4. Unread \in Contents
    BY DEF Contents
  <2> QED BY <2>1, <2>3, <2>4
<1>5. held \in [Uris -> Nat]
  BY <1>2 DEF Revision
<1>6. published \subseteq Uris
  BY <1>2, <1>3
<1>7. status \in {"pending", "view", "problem"}
  OBVIOUS
<1>8. Adopted(j) = [docs[j.uri] EXCEPT !.status = status, !.read = read, !.held = held,
                                       !.settings = j.settings, !.published = published]
  BY DEF Adopted
<1>9. status = "view" =>
        /\ ~Rejected(j) /\ ~ConfigFailed(j)
        /\ \A u \in Uris :
             /\ held[u] = IF u \in Needed(j) THEN j.captured[u].version ELSE 0
             /\ u \in Needed(j) => read[u] = Known(j, u)
  <2> SUFFICES ASSUME ~Rejected(j), ~ConfigFailed(j), NEW u \in Uris
               PROVE  /\ held[u] = IF u \in Needed(j) THEN j.captured[u].version ELSE 0
                      /\ u \in Needed(j) => read[u] = Known(j, u)
    OBVIOUS
  <2>1. u # Config
    BY SessionAssumption
  <2> QED BY <2>1, NeededDocuments
<1> HIDE DEF status, read, held, published
<1>10. /\ Adopted(j) \in Document
       /\ Adopted(j).status = status /\ Adopted(j).read = read /\ Adopted(j).held = held
       /\ Adopted(j).settings = j.settings
       /\ Adopted(j).open = docs[j.uri].open
       /\ Adopted(j).version = docs[j.uri].version
       /\ Adopted(j).text = docs[j.uri].text
       /\ Adopted(j).generation = docs[j.uri].generation
  BY <1>1, <1>2, <1>4, <1>5, <1>6, <1>7, <1>8 DEF Document
<1> QED BY <1>9, <1>10

(* Adopting a result whose sources are current.  What it captured of an    *)
(* open document is that document's text: the generation says so.          *)
LEMMA AdoptKeeps ==
  ASSUME Inv, NEW j \in jobs, SnapshotIsCurrent(j), SourcesAreCurrent(j), Adopt(j),
         pending' \in [Uris -> Pending]
  PROVE  Inv'
<1>1. TypeOK /\ j \in Job /\ j.uri \in Uris
  BY DEF Inv, TypeOK, Job
<1>2. /\ docs' = [docs EXCEPT ![j.uri] = Adopted(j)]
      /\ observations' = [observations EXCEPT ![j.uri] = Observed(j)]
      /\ jobs' = jobs \ {j}
      /\ UNCHANGED <<nextGeneration, settings, cancelled, abandoned, running, disk, unwatched>>
  BY DEF Adopt
<1>3. docs' \in [Uris -> Document]
  BY <1>1, <1>2, AdoptedType DEF TypeOK
<1>4. observations' \in [Uris -> SUBSET (Uris \cup {Config})]
  <2>1. Observed(j) \subseteq Uris \cup {Config}
    BY NeededDocuments DEF Observed
  <2> QED BY <1>1, <1>2, <2>1 DEF TypeOK
<1>5. TypeOK'
  <2>1. IsFiniteSet(jobs \ {j})
    BY <1>1, FS_RemoveElement DEF TypeOK
  <2>2. workers' \in [Uris -> Nat]
    BY <1>1 DEF Adopt, Complete, TypeOK
  <2>3. shown' \in [Uris -> SUBSET Uris]
    BY <1>1, PublishType DEF Adopt
  <2> QED BY <1>1, <1>2, <1>3, <1>4, <2>1, <2>2, <2>3 DEF TypeOK
<1>6. /\ docs'[j.uri] = Adopted(j) /\ observations'[j.uri] = Observed(j)
      /\ \A u \in Uris : u # j.uri => docs'[u] = docs[u] /\ observations'[u] = observations[u]
  BY <1>1, <1>2 DEF TypeOK
<1>7. \A u \in Uris : /\ docs'[u].open = docs[u].open
                      /\ docs'[u].version = docs[u].version
                      /\ docs'[u].text = docs[u].text
                      /\ docs'[u].generation = docs[u].generation
  BY <1>1, <1>6, AdoptedType
<1>8. GenerationsHandedOut' /\ GenerationsNameTexts'
  BY <1>2, <1>7 DEF Inv, Consistent, GenerationsHandedOut, GenerationsNameTexts, OpenDocs
<1>9. GenerationsNameSettings'
  <2>1. \A i \in jobs : i.uri \in Uris
    BY <1>1 DEF TypeOK, Job
  <2> QED BY <1>2, <1>7, <2>1 DEF Inv, Consistent, GenerationsNameSettings
<1>10. ASSUME Adopted(j).status = "view", NEW u \in Uris, Adopted(j).held[u] # 0
       PROVE  /\ u \in DocFiles \cap Observed(j)
              /\ docs[u].open /\ docs[u].version = Adopted(j).held[u]
              /\ docs[u].text = Adopted(j).read[u]
  <2>1. /\ u \in Needed(j) /\ ~Rejected(j) /\ ~ConfigFailed(j)
        /\ Adopted(j).held[u] = j.captured[u].version
        /\ Adopted(j).read[u] = Known(j, u)
    BY <1>1, <1>10, AdoptedType
  <2>2. u \in DocFiles \cap Observed(j)
    BY <2>1, NeededDocuments DEF Observed
  <2>3. j.captured[u].generation # 0
    BY <1>10, <2>1 DEF Inv, Consistent, GenerationsHandedOut
  <2>4. RevisionIsCurrent(u, j.captured[u])
    BY <2>1, <2>3 DEF SourcesAreCurrent, Retained
  <2>5. /\ docs[u].open /\ docs[u].version = j.captured[u].version
        /\ docs[u].text = j.captured[u].text
    BY <2>4 DEF RevisionIsCurrent, Inv, Consistent, GenerationsNameTexts, OpenDocs
  <2>6. Known(j, u) = j.captured[u].text
    BY <2>3 DEF Known
  <2> QED BY <2>1, <2>2, <2>5, <2>6
<1>11. ViewObservesEditors' /\ ViewMatchesEditor'
  <2> SUFFICES ASSUME NEW r \in Uris, Analysed(r)', NEW u \in Uris, docs'[r].held[u] # 0
               PROVE  /\ u \in DocFiles \cap observations'[r]
                      /\ docs'[u].open /\ docs'[u].version = docs'[r].held[u]
                      /\ docs'[u].text = docs'[r].read[u]
    BY DEF ViewObservesEditors, ViewMatchesEditor
  <2>1. CASE r = j.uri
    BY <1>6, <1>7, <1>10, <2>1 DEF Analysed
  <2>2. CASE r # j.uri
    <3>1. /\ docs'[r] = docs[r] /\ observations'[r] = observations[r] /\ Analysed(r)
      BY <1>6, <2>2 DEF Analysed
    <3>2. /\ u \in DocFiles \cap observations[r]
          /\ docs[u].open /\ docs[u].version = docs[r].held[u]
          /\ docs[u].text = docs[r].read[u]
      BY <3>1 DEF Inv, Consistent, ViewObservesEditors, ViewMatchesEditor
    <3> QED BY <1>7, <3>1, <3>2
  <2> QED BY <2>1, <2>2
<1>12. ViewUsesCurrentSettings'
  <2> SUFFICES ASSUME NEW r \in Uris, Analysed(r)'
               PROVE  docs'[r].settings = settings
    BY <1>2 DEF ViewUsesCurrentSettings
  <2>1. CASE r = j.uri
    <3>1. j.settings = settings
      BY DEF Inv, Consistent, GenerationsNameSettings, SnapshotIsCurrent
    <3> QED BY <1>1, <1>6, <2>1, <3>1, AdoptedType
  <2>2. CASE r # j.uri
    BY <1>6, <2>2 DEF Analysed, Inv, ViewUsesCurrentSettings
  <2> QED BY <2>1, <2>2
<1> QED BY <1>5, <1>8, <1>9, <1>11, <1>12 DEF Inv, Consistent

LEMMA ProcessingCompletedKeeps ==
  ASSUME Inv, NEW j \in jobs, ProjectProcessingCompleted(j)
  PROVE  Inv'
<1>1. TypeOK /\ j \in Job /\ j.uri \in Uris /\ j.generation \in Nat
  BY DEF Inv, TypeOK, Job
<1>2. CASE ~SnapshotIsCurrent(j) /\ Ignore(j) /\ UNCHANGED pending
  BY <1>1, <1>2, IgnoreKeeps DEF TypeOK
<1>3. CASE SnapshotIsCurrent(j) /\ ~SourcesAreCurrent(j) /\ Retry(j)
  BY <1>3, RetryKeeps
<1>4. CASE /\ SnapshotIsCurrent(j) /\ SourcesAreCurrent(j)
           /\ Rejected(j) /\ Adopt(j) /\ UNCHANGED pending
  BY <1>1, <1>4, AdoptKeeps DEF TypeOK
<1>5. CASE /\ pending' = [pending EXCEPT ![j.uri] =
                            [generation |-> j.generation, uris |-> Observed(j)]]
           /\ Advance(j, [j EXCEPT !.stage = "queued"])
           /\ workers' = [workers EXCEPT ![j.uri] = j.generation]
           /\ UNCHANGED <<docs, nextGeneration, cancelled, observations, settings, abandoned,
                          running, disk, unwatched, shown>>
  <2> DEFINE k == [j EXCEPT !.stage = "queued"]
  <2>1. k \in Job /\ SameSnapshot(j, k)
    BY <1>1 DEF Job, Stages, SameSnapshot
  <2>2. Observed(j) \subseteq Uris \cup {Config}
    BY NeededDocuments DEF Observed
  <2>3. pending' \in [Uris -> Pending] /\ workers' \in [Uris -> Nat]
    BY <1>1, <1>5, <2>2 DEF TypeOK, Pending
  <2>4. jobs' = (jobs \ {j}) \cup {k}
    BY <1>5 DEF Advance
  <2> HIDE DEF k
  <2>5. IsFiniteSet(jobs')
    BY <1>1, <2>4, FS_RemoveElement, FS_AddElement DEF TypeOK
  <2>6. TypeOK'
    BY <1>1, <1>5, <2>1, <2>3, <2>4, <2>5 DEF TypeOK
  <2>7. \A l \in jobs' : \E i \in jobs : SameSnapshot(i, l)
    BY <2>1, <2>4 DEF SameSnapshot
  <2> QED BY <1>5, <2>6, <2>7, TaskKeeps DEF Inv
<1> QED BY <1>2, <1>3, <1>4, <1>5 DEF ProjectProcessingCompleted

LEMMA ValidationCompletedKeeps ==
  ASSUME Inv, NEW j \in jobs, ProjectValidationCompleted(j)
  PROVE  Inv'
<1>1. ClearPending(j) => pending' \in [Uris -> Pending]
  BY NoPendingType DEF Inv, TypeOK, ClearPending
<1>2. CASE ~SnapshotIsCurrent(j) /\ Ignore(j) /\ ClearPending(j)
  BY <1>1, <1>2, IgnoreKeeps
<1>3. CASE SnapshotIsCurrent(j) /\ ~(SourcesAreCurrent(j) /\ j.valid) /\ Retry(j)
  BY <1>3, RetryKeeps
<1>4. CASE /\ SnapshotIsCurrent(j) /\ SourcesAreCurrent(j) /\ j.valid
           /\ Adopt(j) /\ ClearPending(j)
  BY <1>1, <1>4, AdoptKeeps
<1> QED BY <1>2, <1>3, <1>4 DEF ProjectValidationCompleted

-----------------------------------------------------------------------------
(* Tasks and threads. *)

LEMMA StageType ==
  ASSUME TypeOK, NEW j \in jobs, NEW s \in Stages, NEW F \in SUBSET Files, NEW b \in BOOLEAN
  PROVE  LET k == [j EXCEPT !.stage = s, !.unchecked = F, !.valid = b]
         IN  k \in Job /\ SameSnapshot(j, k)
BY ZenonT(40) DEF TypeOK, Job, SameSnapshot

LEMMA StageOnlyType ==
  ASSUME TypeOK, NEW j \in jobs, NEW s \in Stages
  PROVE  LET k == [j EXCEPT !.stage = s] IN k \in Job /\ SameSnapshot(j, k)
BY DEF TypeOK, Job, SameSnapshot

LEMMA StartKeeps ==
  ASSUME Inv, NEW j \in jobs, StartProcessing(j) \/ StartValidation(j)
  PROVE  Inv'
<1>1. TypeOK /\ TaskOnly
  BY DEF Inv, StartProcessing, StartValidation
<1>2. CASE jobs' = jobs \ {j}
  BY <1>1, <1>2, DropKeeps
<1>3. CASE Advance(j, [j EXCEPT !.stage = "processing"])
  BY <1>1, <1>3, StageOnlyType, AdvanceKeeps DEF Stages
<1>4. CASE Advance(j, [j EXCEPT !.stage = "validating", !.unchecked = Candidates(j)])
  <2> DEFINE k == [j EXCEPT !.stage = "validating", !.unchecked = Candidates(j)]
  <2>1. Candidates(j) \subseteq Files
    BY NeededDocuments DEF Candidates, Observed, Files
  <2>2. k \in Job /\ SameSnapshot(j, k)
    BY <1>1, <2>1 DEF TypeOK, Job, Stages, SameSnapshot
  <2> QED BY <1>1, <1>4, <2>2, AdvanceKeeps
<1> QED BY <1>2, <1>3, <1>4 DEF StartProcessing, StartValidation

LEMMA ReadResourceKeeps ==
  ASSUME Inv, NEW j \in jobs, NEW f \in Files, ReadResource(j, f)
  PROVE  Inv'
<1> DEFINE k == [j EXCEPT !.read[f] = disk[f]]
<1>1. disk[f] \in Contents
  BY DEF Inv, TypeOK, Contents
<1>2. k \in Job /\ SameSnapshot(j, k)
  BY <1>1 DEF Inv, TypeOK, Job, SameSnapshot
<1>3. Advance(j, k) /\ TaskOnly
  BY DEF ReadResource
<1> QED BY <1>2, <1>3, AdvanceKeeps

LEMMA CheckObservationKeeps ==
  ASSUME Inv, NEW j \in jobs, NEW f \in Files, CheckObservation(j, f)
  PROVE  Inv'
<1> DEFINE k == [j EXCEPT !.unchecked = @ \ {f}]
<1>1. k \in Job /\ SameSnapshot(j, k)
  BY DEF Inv, TypeOK, Job, SameSnapshot
<1>2. Advance(j, k) /\ TaskOnly
  BY DEF CheckObservation
<1> QED BY <1>1, <1>2, AdvanceKeeps

LEMMA FinishKeeps ==
  ASSUME Inv, NEW j \in jobs, FinishProcessing(j) \/ FinishValidation(j)
  PROVE  Inv'
<1>1. TypeOK /\ TaskOnly
  BY DEF Inv, FinishProcessing, FinishValidation
<1>2. CASE FinishProcessing(j)
  <2>1. Advance(j, [j EXCEPT !.stage = "processed"])
    BY <1>2 DEF FinishProcessing
  <2> QED BY <1>1, <2>1, StageOnlyType, AdvanceKeeps DEF Stages
<1>3. CASE FinishValidation(j)
  <2>1. PICK b \in BOOLEAN :
          Advance(j, [j EXCEPT !.stage = "validated", !.unchecked = {}, !.valid = b])
    BY <1>3 DEF FinishValidation
  <2> QED BY <1>1, <2>1, StageType, AdvanceKeeps DEF Stages
<1> QED BY <1>2, <1>3

LEMMA AbandonedReturnKeeps ==
  ASSUME Inv, AbandonedReturn
  PROVE  Inv'
<1>1. TypeOK'
  BY DEF Inv, TypeOK, AbandonedReturn, session
<1>2. /\ UNCHANGED <<docs, nextGeneration, observations, settings>>
      /\ \A k \in jobs' : \E j \in jobs : SameSnapshot(j, k)
  BY DEF AbandonedReturn, session, SameSnapshot
<1> QED BY <1>1, <1>2, TaskKeeps DEF Inv

LEMMA WriteFileKeeps ==
  ASSUME Inv, NEW f \in Files, NEW c \in Texts \cup {Missing}, WriteFile(f, c)
  PROVE  Inv'
<1>1. TypeOK'
  BY DEF Inv, TypeOK, WriteFile, session
<1>2. /\ UNCHANGED <<docs, nextGeneration, observations, settings>>
      /\ \A k \in jobs' : \E j \in jobs : SameSnapshot(j, k)
  BY DEF WriteFile, session, SameSnapshot
<1> QED BY <1>1, <1>2, TaskKeeps DEF Inv

-----------------------------------------------------------------------------
(* The specification. *)

LEMMA InitInv == Init => Inv
<1> SUFFICES ASSUME Init
             PROVE  Inv
  OBVIOUS
<1>1. TypeOK
  BY ClosedType, NoPendingType, FS_EmptySet DEF Init, TypeOK, Document
<1>2. Consistent
  BY ClosedType DEF Init, Consistent, GenerationsHandedOut, GenerationsNameTexts,
     GenerationsNameSettings, ViewObservesEditors, Analysed, OpenDocs, Closed
<1>3. ViewMatchesEditor /\ ViewUsesCurrentSettings
  BY ClosedType DEF Init, ViewMatchesEditor, ViewUsesCurrentSettings, Analysed
<1> QED BY <1>1, <1>2, <1>3 DEF Inv

LEMMA StutterKeeps ==
  ASSUME Inv, UNCHANGED vars
  PROVE  Inv'
<1>1. TypeOK'
  BY DEF Inv, TypeOK, vars, session
<1>2. /\ UNCHANGED <<docs, nextGeneration, observations, settings>>
      /\ \A k \in jobs' : \E j \in jobs : SameSnapshot(j, k)
  BY DEF vars, session, SameSnapshot
<1> QED BY <1>1, <1>2, TaskKeeps DEF Inv

LEMMA NextInv == Inv /\ [Next]_vars => Inv'
<1> SUFFICES ASSUME Inv, [Next]_vars
             PROVE  Inv'
  OBVIOUS
<1>1. CASE Client
  <2>1. CASE \E u \in Uris, v \in OpenVersions, t \in Texts : t \in Edits[u] /\ DidOpen(u, v, t)
    BY <2>1, DidOpenKeeps
  <2>2. CASE \E u \in Uris, v \in 1..MaxVersion, t \in Texts :
               t \in Edits[u] /\ DidChange(u, v, t)
    BY <2>2, DidChangeKeeps
  <2>3. CASE \E u \in Uris : DidSave(u)
    BY <2>3, DidSaveKeeps
  <2>4. CASE \E u \in Uris : DidClose(u)
    BY <2>4, DidCloseKeeps
  <2>5. CASE \E F \in SUBSET unwatched \ {{}} : DidChangeWatchedFiles(F)
    BY <2>5, DidChangeWatchedFilesKeeps
  <2>6. CASE \E s \in Settings : DidChangeConfiguration(s)
    BY <2>6, DidChangeConfigurationKeeps
  <2>7. CASE Shutdown
    BY <2>7, ShutdownKeeps
  <2> QED BY <1>1, <2>1, <2>2, <2>3, <2>4, <2>5, <2>6, <2>7 DEF Client
<1>2. CASE Runtime
  <2>1. CASE \E j \in jobs : StartProcessing(j) \/ StartValidation(j)
    BY <2>1, StartKeeps
  <2>2. CASE \E j \in jobs, f \in Files : ReadResource(j, f)
    BY <2>2, ReadResourceKeeps
  <2>3. CASE \E j \in jobs : FinishProcessing(j) \/ FinishValidation(j)
    BY <2>3, FinishKeeps
  <2>4. CASE \E j \in jobs, f \in Files : CheckObservation(j, f)
    BY <2>4, CheckObservationKeeps
  <2>5. CASE AbandonedReturn
    BY <2>5, AbandonedReturnKeeps
  <2>6. CASE \E j \in jobs : ProjectProcessingCompleted(j)
    BY <2>6, ProcessingCompletedKeeps
  <2>7. CASE \E j \in jobs : ProjectValidationCompleted(j)
    BY <2>7, ValidationCompletedKeeps
  <2> QED BY <1>2, <2>1, <2>2, <2>3, <2>4, <2>5, <2>6, <2>7 DEF Runtime
<1>3. CASE Environment
  BY <1>3, WriteFileKeeps DEF Environment
<1>4. CASE UNCHANGED vars
  BY <1>4, StutterKeeps
<1> QED BY <1>1, <1>2, <1>3, <1>4 DEF Next

LEMMA SpecInv == Spec => []Inv
BY InitInv, NextInv, PTL DEF Spec

(* Types: in every reachable state, for every value of the constants.      *)
THEOREM TypeCorrect == Spec => []TypeOK
<1>1. Inv => TypeOK
  BY DEF Inv
<1> QED BY <1>1, SpecInv, PTL

(* Versions and generations compare texts and rules: what the session      *)
(* relies on when it decides whether a result is still current.            *)
THEOREM ComparisonsSound == Spec => []Consistent
<1>1. Inv => Consistent
  BY DEF Inv
<1> QED BY <1>1, SpecInv, PTL

(* A view never outlives the editor texts it was computed from, whatever   *)
(* the client does (StrictClient or not).                                  *)
THEOREM ViewsMatchEditors == Spec => []ViewMatchesEditor
<1>1. Inv => ViewMatchesEditor
  BY DEF Inv
<1> QED BY <1>1, SpecInv, PTL

(* A view never outlives the rules it was computed with.                   *)
THEOREM ViewsUseCurrentSettings == Spec => []ViewUsesCurrentSettings
<1>1. Inv => ViewUsesCurrentSettings
  BY DEF Inv
<1> QED BY <1>1, SpecInv, PTL

-----------------------------------------------------------------------------
(* The tasks: their inductive invariant. *)

(* A task that can still be aborted.                                       *)
Live(j) == j.stage \notin {"processed", "validated"}

(* Every snapshot has a generation of its own, so no two analyses of a     *)
(* document share one.                                                     *)
OneJob == \A j, k \in jobs : j.uri = k.uri /\ j.generation = k.generation => j = k

(* Backend::analysis_workers holds every task that can still be aborted,   *)
(* which is the newest analysis of its document.                           *)
Held == \A j \in jobs : Live(j) => workers[j.uri] = j.generation
Newest ==
  \A j, k \in jobs : j.uri = k.uri /\ Live(k) => j.generation <= k.generation
Superseding ==
  \A j \in jobs : docs[j.uri].open => j.generation <= docs[j.uri].generation

(* What is cancelled is older than what an open document waits for.        *)
Distinct ==
  \A u, v \in OpenDocs(docs) : docs[u].generation = docs[v].generation => u = v
CancelledOld == \A g \in cancelled : g <= nextGeneration
Uncancelled == running => \A u \in OpenDocs(docs) : docs[u].generation \notin cancelled

(* Version 0 stands for a file read from disk.                             *)
Versioned ==
  /\ \A u \in OpenDocs(docs) : docs[u].version # 0
  /\ \A j \in jobs : \A u \in Uris :
       j.captured[u].generation # 0 => j.captured[u].version # 0

Owed == StrictClient => AnalysisOwed

Tasks ==
  /\ OneJob /\ Held /\ Newest /\ Superseding
  /\ Distinct /\ CancelledOld /\ Uncancelled
  /\ Versioned /\ Owed

(* A task keeps what identifies it and what it captured.                   *)
SameTask(j, k) ==
  /\ k.uri = j.uri /\ k.generation = j.generation /\ k.version = j.version
  /\ k.previous = j.previous /\ k.captured = j.captured

LEMMA FilesFacts == Config \in Files /\ DocFiles \subseteq Files /\ Config \notin DocFiles
                    /\ DocFiles \subseteq Uris
BY SessionAssumption DEF Files, DocFiles

-----------------------------------------------------------------------------
(* Batches of snapshots. *)

(* No two snapshots of a batch have the same turn.                         *)
LEMMA TurnDistinct ==
  ASSUME NEW P \in SUBSET Uris, NEW U \in SUBSET Uris, P \cap U = {},
         \A a, b \in P : a = b,
         NEW u \in P \cup U, NEW v \in P \cup U, Turn(P, U, u) = Turn(P, U, v)
  PROVE  u = v
<1> DEFINE W(x) == {w \in U : w <= x}
<1>1. /\ Cardinality(P) \in Nat
      /\ \A x \in P \cup U : IsFiniteSet(W(x)) /\ Cardinality(W(x)) \in Nat
  BY DocumentSets
<1>2. /\ \A x \in P : Turn(P, U, x) = 1
      /\ \A x \in U : Turn(P, U, x) = Cardinality(P) + Cardinality(W(x))
  BY DEF Turn
<1>3. \A x \in U : x \in Nat /\ x \in W(x) /\ Cardinality(W(x)) # 0
  <2> SUFFICES ASSUME NEW x \in U
               PROVE  x \in Nat /\ x \in W(x) /\ Cardinality(W(x)) # 0
    OBVIOUS
  <2>1. x \in Nat /\ x \in W(x)
    BY SessionAssumption
  <2> QED BY <1>1, <2>1, FS_EmptySet
<1>4. P # {} => Cardinality(P) # 0
  BY DocumentSets, FS_EmptySet
<1>5. CASE u \in P \/ v \in P
  <2> HIDE DEF W
  <2>1. \A x \in U : P # {} => Turn(P, U, x) # 1
    BY <1>1, <1>2, <1>3, <1>4
  <2> QED BY <1>2, <1>5, <2>1
<1>6. CASE u \in U /\ v \in U
  <2>1. Cardinality(W(u)) = Cardinality(W(v))
    <3> HIDE DEF W
    <3> QED BY <1>1, <1>2, <1>6
  <2>2. ASSUME NEW x \in U, NEW y \in U, x <= y, Cardinality(W(x)) = Cardinality(W(y))
        PROVE  y <= x
    <3>0. \A w \in U : w \in Nat
      BY SessionAssumption
    <3>1. W(x) \subseteq W(y)
      BY <2>2, <3>0
    <3>2. W(x) = W(y)
      BY <1>1, <2>2, <3>1, FS_Subset
    <3> QED BY <1>3, <3>2
  <2>3. u \in Nat /\ v \in Nat
    BY <1>3, <1>6
  <2> QED BY <1>6, <2>1, <2>2, <2>3
<1> QED BY <1>5, <1>6

(* What a handler may have made of the documents before it installs        *)
(* snapshots of P and U: a document of P was opened or changed, any other  *)
(* document is as it was or closed.                                        *)
Edited(d, P, U) ==
  /\ d \in [Uris -> Document]
  /\ P \in SUBSET Uris /\ U \in SUBSET Uris /\ P \cap U = {}
  /\ \A a, b \in P : a = b
  /\ \A w \in Uris \ P : d[w].open => d[w] = docs[w]
  /\ \A w \in P \cup U :
       /\ d[w].open /\ d[w].version # 0
       /\ d[w].published \subseteq {w} \cup (IF docs[w].open THEN docs[w].published ELSE {})

(* The documents after snapshots of P and U were installed.                *)
Reinstalled(d, P, U) ==
  /\ nextGeneration' \in Nat /\ nextGeneration <= nextGeneration'
  /\ \A u \in Uris : /\ docs'[u].open = d[u].open
                     /\ docs'[u].version = d[u].version
                     /\ docs'[u].published = d[u].published
  /\ \A u \in P \cup U : /\ docs'[u].status = "pending"
                         /\ docs'[u].generation = nextGeneration + Turn(P, U, u)
                         /\ nextGeneration < docs'[u].generation
                         /\ docs'[u].generation <= nextGeneration'
                         /\ docs'[u].generation \in Nat
  /\ \A u \in Uris \ (P \cup U) : docs'[u] = d[u]
  /\ \A u, v \in P \cup U : docs'[u].generation = docs'[v].generation => u = v

LEMMA InstalledDocuments ==
  ASSUME Inv, NEW d, NEW P, NEW U, Edited(d, P, U), Install(d, P, U)
  PROVE  Reinstalled(d, P, U)
<1>0. /\ d \in [Uris -> Document]
      /\ P \in SUBSET Uris /\ U \in SUBSET Uris /\ P \cap U = {}
      /\ \A a, b \in P : a = b
  BY DEF Edited
<1>1. TypeOK
  BY DEF Inv
<1>2. \A u \in Uris :
        /\ docs'[u].open = d[u].open
        /\ docs'[u].version = d[u].version
        /\ docs'[u].text = d[u].text
        /\ u \in P \cup U =>
             /\ docs'[u].status = "pending"
             /\ docs'[u].generation = nextGeneration + Turn(P, U, u)
             /\ docs'[u].generation \in Nat
             /\ nextGeneration < docs'[u].generation
             /\ docs'[u].generation <= nextGeneration'
        /\ u \notin P \cup U => docs'[u] = d[u]
        /\ nextGeneration' \in Nat /\ nextGeneration <= nextGeneration'
  BY <1>0, <1>1, InstalledDocument
<1>3. nextGeneration' \in Nat /\ nextGeneration <= nextGeneration'
  <2>1. Cardinality(P \cup U) \in Nat
    BY <1>0, DocumentSets
  <2> QED BY <1>1, <2>1 DEF TypeOK, Install
<1>4. \A u \in Uris : docs'[u].published = d[u].published
  <2> SUFFICES ASSUME NEW u \in Uris
               PROVE  docs'[u].published = d[u].published
    OBVIOUS
  <2>1. d[u] \in Document
    BY <1>0
  <2> QED BY <2>1 DEF Install, Installed, Document
<1>5. ASSUME NEW u \in P \cup U, NEW v \in P \cup U, docs'[u].generation = docs'[v].generation
      PROVE  u = v
  <2>1. nextGeneration + Turn(P, U, u) = nextGeneration + Turn(P, U, v)
    BY <1>0, <1>2, <1>5
  <2>2. Turn(P, U, u) \in Nat /\ Turn(P, U, v) \in Nat /\ nextGeneration \in Nat
    BY <1>0, <1>1, TurnBounds DEF TypeOK
  <2>3. Turn(P, U, u) = Turn(P, U, v)
    BY <2>1, <2>2
  <2> QED BY <1>0, <1>5, <2>3, TurnDistinct
<1> QED BY <1>0, <1>2, <1>3, <1>4, <1>5 DEF Reinstalled

-----------------------------------------------------------------------------
(* Steps that change documents. *)

(* An analysis of a document of N that a step schedules.                   *)
Fresh(k, N) ==
  /\ k.uri \in N /\ k.stage = "waiting" /\ k.read = Nothing
  /\ k.generation = docs'[k.uri].generation /\ k.version = docs'[k.uri].version
  /\ docs'[k.uri].published \subseteq k.previous \cup {k.uri}
  /\ \A u \in Uris : k.captured[u].generation # 0 => k.captured[u].version # 0
  /\ \A u \in DocFiles :
       k.uri \in DocFiles /\ docs'[u].open => k.captured[u].generation # 0

(* What a step does that installs snapshots of D, aborts the tasks of A    *)
(* and schedules analyses of N: every notification but didSave, every      *)
(* retry, and the shutdown.                                                *)
RenewsDocuments(D) ==
  /\ nextGeneration' \in Nat /\ nextGeneration <= nextGeneration'
  /\ \A u \in D :
       /\ docs'[u].open /\ docs'[u].status = "pending" /\ docs'[u].version # 0
       /\ docs'[u].generation \in Nat
       /\ nextGeneration < docs'[u].generation /\ docs'[u].generation <= nextGeneration'
  /\ \A u, v \in D : docs'[u].generation = docs'[v].generation => u = v
  /\ \A u \in Uris \ D : docs'[u].open => docs'[u] = docs[u]
  /\ cancelled' \subseteq cancelled \cup {docs[u].generation : u \in OpenDocs(docs)}
  /\ running' => cancelled' \subseteq cancelled \cup
       {docs[u].generation : u \in {w \in OpenDocs(docs) : w \in D \/ ~docs'[w].open}}

RenewsTasks(A, N) ==
  /\ \A k \in jobs' \ jobs : Fresh(k, N)
  /\ \A j, k \in jobs' \ jobs : j.uri = k.uri => j = k
  /\ \A k \in jobs \cap jobs' : k.uri \in A => ~Live(k)
  /\ \A k \in jobs : k.uri \notin A => k \in jobs'
  /\ \A u \in N : /\ workers'[u] = docs'[u].generation
                  /\ \E k \in jobs' : /\ k.uri = u /\ k.generation = docs'[u].generation
                                      /\ k.version = docs'[u].version
  /\ \A u \in Uris \ A : workers'[u] = workers[u]

Renews(D, A, N) ==
  /\ RenewsDocuments(D) /\ RenewsTasks(A, N)
  /\ D \subseteq Uris /\ A \subseteq Uris /\ N \subseteq D \cap A
  /\ running' => running
  /\ running' /\ StrictClient => D \subseteq N /\ \A u \in A \ N : ~docs'[u].open

(* What it leaves to the documents it does not analyse again: what they    *)
(* observe, the versions of what they observe, and every report of a       *)
(* changed file that concerns one of them.                                 *)
Watches(D) ==
  /\ disk' = disk /\ unwatched' \subseteq unwatched
  /\ \A u \in Uris \ D : docs'[u].open =>
       /\ observations'[u] = observations[u]
       /\ running' => pending'[u] = pending[u]
  /\ \A f \in unwatched \ unwatched' : \A u \in OpenDocs(docs) :
       f \in observations[u] \cup pending[u].uris => u \in D
  /\ \A u \in DocFiles :
       \/ docs'[u].open = docs[u].open /\ docs'[u].version = docs[u].version
       \/ \A r \in OpenDocs(docs) \ {u} : u \in observations[r] => r \in D

(* Every open document stays open and publishes where it did.              *)
KeepsPublished ==
  StrictClient => \A r \in OpenDocs(docs) :
    docs'[r].open /\ docs'[r].published = docs[r].published

(* The numbers the proofs compare.                                         *)
LEMMA Generations ==
  ASSUME Inv
  PROVE  /\ nextGeneration \in Nat
         /\ \A u \in Uris : docs[u].generation \in Nat /\ docs[u].generation <= nextGeneration
         /\ \A j \in jobs : /\ j.uri \in Uris /\ j.generation \in Nat
                            /\ j.generation <= nextGeneration
         /\ cancelled \subseteq Nat
BY DEF Inv, TypeOK, Document, Job, Consistent, GenerationsHandedOut

LEMMA RenewalKeepsTasks ==
  ASSUME Inv, Tasks, NEW D, NEW A, NEW N, Renews(D, A, N)
  PROVE  Tasks'
<1>1. /\ nextGeneration \in Nat
      /\ \A u \in Uris : docs[u].generation \in Nat /\ docs[u].generation <= nextGeneration
      /\ \A j \in jobs : /\ j.uri \in Uris /\ j.generation \in Nat
                         /\ j.generation <= nextGeneration
      /\ cancelled \subseteq Nat
  BY Generations
<1>2. /\ nextGeneration' \in Nat /\ nextGeneration <= nextGeneration'
      /\ \A u \in D :
           /\ docs'[u].open /\ docs'[u].status = "pending" /\ docs'[u].version # 0
           /\ docs'[u].generation \in Nat
           /\ nextGeneration < docs'[u].generation /\ docs'[u].generation <= nextGeneration'
      /\ \A u \in Uris \ D : docs'[u].open => docs'[u] = docs[u]
  BY DEF Renews, RenewsDocuments
<1>3. D \subseteq Uris /\ A \subseteq Uris /\ N \subseteq D /\ N \subseteq A
  BY DEF Renews
<1>4. \A k \in jobs' : k \in jobs \/ (k \notin jobs /\ Fresh(k, N))
  BY DEF Renews, RenewsTasks
<1>5. \A k \in jobs' : k \notin jobs =>
        /\ k.uri \in N /\ k.generation = docs'[k.uri].generation
        /\ k.generation \in Nat /\ nextGeneration < k.generation
  BY <1>2, <1>3, <1>4 DEF Fresh
<1>6. \A k \in jobs : Live(k) => k \notin jobs' \/ k.uri \notin A
  BY DEF Renews, RenewsTasks
<1>7. OneJob'
  <2> SUFFICES ASSUME NEW j \in jobs', NEW k \in jobs', j.uri = k.uri,
                      j.generation = k.generation
               PROVE  j = k
    BY DEF OneJob
  <2>1. CASE j \in jobs /\ k \in jobs
    BY <2>1 DEF Tasks, OneJob
  <2>2. CASE j \notin jobs /\ k \notin jobs
    BY <2>2 DEF Renews, RenewsTasks
  <2>3. (j \in jobs) = (k \in jobs)
    BY <1>1, <1>5
  <2> QED BY <2>1, <2>2, <2>3
<1>8. Held'
  <2> SUFFICES ASSUME NEW j \in jobs', Live(j)
               PROVE  workers'[j.uri] = j.generation
    BY DEF Held, Live
  <2>1. CASE j \in jobs
    <3>1. j.uri \in Uris \ A
      BY <1>1, <1>6, <2>1
    <3> QED BY <2>1, <3>1 DEF Renews, RenewsTasks, Tasks, Held
  <2>2. CASE j \notin jobs
    BY <1>5, <2>2 DEF Renews, RenewsTasks
  <2> QED BY <2>1, <2>2
<1>9. Newest'
  <2> SUFFICES ASSUME NEW j \in jobs', NEW k \in jobs', j.uri = k.uri, Live(k)
               PROVE  j.generation <= k.generation
    BY DEF Newest, Live
  <2>1. CASE k \in jobs
    <3>1. j \in jobs
      BY <1>3, <1>5, <1>6, <2>1
    <3> QED BY <2>1, <3>1 DEF Tasks, Newest
  <2>2. CASE k \notin jobs
    <3>1. CASE j \in jobs
      BY <1>1, <1>2, <1>3, <1>5, <2>2, <3>1
    <3>2. CASE j \notin jobs
      <4>1. j = k
        BY <2>2, <3>2 DEF Renews, RenewsTasks
      <4> QED BY <1>3, <1>5, <2>2, <4>1
    <3> QED BY <3>1, <3>2
  <2> QED BY <2>1, <2>2
<1>10. Superseding'
  <2> SUFFICES ASSUME NEW j \in jobs', docs'[j.uri].open
               PROVE  j.generation <= docs'[j.uri].generation
    BY DEF Superseding
  <2>1. CASE j \in jobs /\ j.uri \in D
    BY <1>1, <1>2, <1>3, <2>1
  <2>2. CASE j \in jobs /\ j.uri \notin D
    <3>1. docs'[j.uri] = docs[j.uri]
      BY <1>1, <1>2, <2>2
    <3> QED BY <2>2, <3>1 DEF Tasks, Superseding
  <2>3. CASE j \notin jobs
    BY <1>2, <1>3, <1>5, <2>3
  <2> QED BY <2>1, <2>2, <2>3
<1>11. Distinct'
  <2> SUFFICES ASSUME NEW u \in Uris, NEW v \in Uris, docs'[u].open, docs'[v].open,
                      docs'[u].generation = docs'[v].generation
               PROVE  u = v
    BY DEF Distinct, OpenDocs
  <2>1. CASE u \in D /\ v \in D
    BY <2>1 DEF Renews, RenewsDocuments
  <2>2. CASE u \notin D /\ v \notin D
    BY <1>2, <2>2 DEF Tasks, Distinct, OpenDocs
  <2>3. (u \in D) = (v \in D)
    BY <1>1, <1>2
  <2> QED BY <2>1, <2>2, <2>3
<1>12. CancelledOld'
  <2> SUFFICES ASSUME NEW g \in cancelled'
               PROVE  g <= nextGeneration'
    BY DEF CancelledOld
  <2>1. g \in cancelled \/ \E u \in OpenDocs(docs) : g = docs[u].generation
    BY DEF Renews, RenewsDocuments
  <2>2. g \in Nat /\ g <= nextGeneration
    BY <1>1, <2>1 DEF Tasks, CancelledOld, OpenDocs
  <2> QED BY <1>1, <1>2, <2>2
<1>13. Uncancelled'
  <2> SUFFICES ASSUME running', NEW u \in Uris, docs'[u].open, docs'[u].generation \in cancelled'
               PROVE  FALSE
    BY DEF Uncancelled, OpenDocs
  <2> DEFINE g == docs'[u].generation
  <2>1. g \in cancelled \/ \E w \in OpenDocs(docs) :
          g = docs[w].generation /\ (w \in D \/ ~docs'[w].open)
    BY DEF Renews, RenewsDocuments
  <2>2. g <= nextGeneration
    BY <1>1, <2>1 DEF Tasks, CancelledOld, OpenDocs
  <2>3. u \notin D
    BY <1>1, <1>2, <2>2
  <2>4. docs'[u] = docs[u] /\ u \in OpenDocs(docs)
    BY <1>2, <2>3 DEF OpenDocs
  <2>5. g \notin cancelled
    BY <2>4 DEF Renews, Tasks, Uncancelled
  <2>6. PICK w \in OpenDocs(docs) : g = docs[w].generation /\ (w \in D \/ ~docs'[w].open)
    BY <2>1, <2>5
  <2>7. w = u
    BY <2>4, <2>6 DEF Tasks, Distinct
  <2> QED BY <2>3, <2>6, <2>7
<1>14. Versioned'
  <2>1. ASSUME NEW u \in OpenDocs(docs')
        PROVE  docs'[u].version # 0
    BY <1>2, <2>1 DEF OpenDocs, Tasks, Versioned
  <2>2. ASSUME NEW j \in jobs', NEW u \in Uris, j.captured[u].generation # 0
        PROVE  j.captured[u].version # 0
    BY <1>4, <2>2 DEF Tasks, Versioned, Fresh
  <2> QED BY <2>1, <2>2 DEF Versioned
<1>15. Owed'
  <2> SUFFICES ASSUME StrictClient, running', NEW u \in Uris, docs'[u].open,
                      docs'[u].status = "pending"
               PROVE  \E j \in jobs' : j.uri = u /\ SnapshotIsCurrent(j)'
    BY DEF Owed, AnalysisOwed, OpenDocs
  <2>1. docs'[u].generation \notin cancelled'
    BY <1>13 DEF Uncancelled, OpenDocs
  <2>2. CASE u \in D
    <3>1. PICK k \in jobs' : /\ k.uri = u /\ k.generation = docs'[u].generation
                             /\ k.version = docs'[u].version
      BY <2>2 DEF Renews, RenewsTasks
    <3> QED BY <2>1, <3>1 DEF SnapshotIsCurrent
  <2>3. CASE u \notin D
    <3>1. docs'[u] = docs[u] /\ running /\ u \in OpenDocs(docs)
      BY <1>2, <2>3 DEF Renews, OpenDocs
    <3>2. PICK j \in jobs : j.uri = u /\ SnapshotIsCurrent(j)
      BY <3>1 DEF Tasks, Owed, AnalysisOwed
    <3>3. j \in jobs'
      BY <1>3, <2>3, <3>2 DEF Renews, RenewsTasks
    <3> QED BY <2>1, <3>1, <3>2, <3>3 DEF SnapshotIsCurrent
  <2> QED BY <2>2, <2>3
<1> QED BY <1>7, <1>8, <1>9, <1>10, <1>11, <1>12, <1>13, <1>14, <1>15 DEF Tasks

-----------------------------------------------------------------------------
(* Steps that move or end tasks. *)

KeepsDocuments ==
  /\ UNCHANGED <<nextGeneration, cancelled, running>>
  /\ \A u \in Uris :
       /\ docs'[u].open = docs[u].open /\ docs'[u].version = docs[u].version
       /\ docs'[u].generation = docs[u].generation
       /\ docs'[u].status = "pending" => docs[u].status = "pending"

(* Every task after the step is one from before it, and a document without *)
(* a result keeps its current one.                                         *)
KeepsTasks ==
  /\ \A k \in jobs' : \E j \in jobs : SameTask(j, k)
  /\ \A j \in jobs : docs'[j.uri].status = "pending" /\ SnapshotIsCurrent(j)
       => \E k \in jobs' : SameTask(j, k)

LEMMA KeptTasks ==
  ASSUME Inv, Tasks, KeepsDocuments, KeepsTasks, OneJob', Held', Newest'
  PROVE  Tasks'
<1>1. \A j \in jobs : j.uri \in Uris
  BY Generations
<1>2. Superseding'
  <2> SUFFICES ASSUME NEW k \in jobs', docs'[k.uri].open
               PROVE  k.generation <= docs'[k.uri].generation
    BY DEF Superseding
  <2>1. PICK j \in jobs : SameTask(j, k)
    BY DEF KeepsTasks
  <2> QED BY <1>1, <2>1 DEF SameTask, KeepsDocuments, Tasks, Superseding
<1>3. Distinct' /\ CancelledOld' /\ Uncancelled'
  BY DEF KeepsDocuments, Tasks, Distinct, CancelledOld, Uncancelled, OpenDocs
<1>4. Versioned'
  <2>1. \A u \in OpenDocs(docs') : docs'[u].version # 0
    BY DEF KeepsDocuments, Tasks, Versioned, OpenDocs
  <2>2. ASSUME NEW k \in jobs', NEW u \in Uris, k.captured[u].generation # 0
        PROVE  k.captured[u].version # 0
    BY <2>2 DEF KeepsTasks, SameTask, Tasks, Versioned
  <2> QED BY <2>1, <2>2 DEF Versioned
<1>5. Owed'
  <2> SUFFICES ASSUME StrictClient, running', NEW u \in Uris, docs'[u].open,
                      docs'[u].status = "pending"
               PROVE  \E k \in jobs' : k.uri = u /\ SnapshotIsCurrent(k)'
    BY DEF Owed, AnalysisOwed, OpenDocs
  <2>1. PICK j \in jobs : j.uri = u /\ SnapshotIsCurrent(j)
    BY DEF KeepsDocuments, Tasks, Owed, AnalysisOwed, OpenDocs
  <2>2. PICK k \in jobs' : SameTask(j, k)
    BY <2>1 DEF KeepsTasks
  <2> QED BY <2>1, <2>2 DEF SameTask, SnapshotIsCurrent, KeepsDocuments
<1> QED BY <1>2, <1>3, <1>4, <1>5 DEF Tasks

(* A step that makes no task live and leaves the live ones held.           *)
LEMMA KeptLive ==
  ASSUME Tasks,
         \A k \in jobs' : \E j \in jobs : SameTask(j, k) /\ (Live(k) => Live(j)),
         \A k \in jobs' : Live(k) => workers'[k.uri] = workers[k.uri]
  PROVE  Held' /\ Newest'
<1>1. Held'
  BY DEF Held, Live, SameTask, Tasks
<1>2. Newest'
  BY DEF Newest, Live, SameTask, Tasks
<1> QED BY <1>1, <1>2

LEMMA AdvanceKeepsTasks ==
  ASSUME Inv, Tasks, NEW j \in jobs, NEW k, SameTask(j, k), Live(k) => Live(j),
         Advance(j, k), TaskOnly
  PROVE  Tasks'
<1>1. KeepsDocuments /\ workers' = workers
  BY DEF TaskOnly, session, KeepsDocuments
<1>2. jobs' = (jobs \ {j}) \cup {k}
  BY DEF Advance
<1>3. OneJob'
  BY <1>2 DEF OneJob, SameTask, Tasks
<1>4. /\ \A i \in jobs' : \E l \in jobs : SameTask(l, i) /\ (Live(i) => Live(l))
      /\ \A i \in jobs : \E l \in jobs' : SameTask(i, l)
  BY <1>2 DEF SameTask
<1>5. Held' /\ Newest'
  BY <1>1, <1>4, KeptLive
<1> QED BY <1>1, <1>3, <1>4, <1>5, KeptTasks DEF KeepsTasks

(* A task ends that is not the current one of a document without a result. *)
LEMMA EndKeepsTasks ==
  ASSUME Inv, Tasks, NEW j \in jobs, jobs' = jobs \ {j}, KeepsDocuments,
         SnapshotIsCurrent(j) => docs'[j.uri].status # "pending",
         workers' = workers \/ Complete(j)
  PROVE  Tasks'
<1>1. OneJob'
  BY DEF OneJob, Tasks
<1>2. \A k \in jobs' : k \in jobs /\ k.uri \in Uris /\ SameTask(k, k)
  BY Generations DEF SameTask
<1>3. KeepsTasks
  <2>1. \A k \in jobs' : \E i \in jobs : SameTask(i, k)
    BY <1>2
  <2>2. ASSUME NEW i \in jobs, docs'[i.uri].status = "pending", SnapshotIsCurrent(i)
        PROVE  \E k \in jobs' : SameTask(i, k)
    BY <1>2, <2>2
  <2> QED BY <2>1, <2>2 DEF KeepsTasks
<1>4. \A k \in jobs' : Live(k) => workers'[k.uri] = workers[k.uri]
  <2> SUFFICES ASSUME NEW k \in jobs', Live(k)
               PROVE  workers'[k.uri] = workers[k.uri]
    OBVIOUS
  <2>1. CASE workers' = workers
    BY <2>1
  <2>2. CASE Complete(j)
    <3>1. workers[k.uri] = k.generation
      BY DEF Tasks, Held
    <3>2. k.uri = j.uri => k.generation # j.generation
      BY DEF Tasks, OneJob
    <3> QED BY <1>2, <2>2, <3>1, <3>2 DEF Complete, Inv, TypeOK
  <2> QED BY <2>1, <2>2
<1>5. Held' /\ Newest'
  BY <1>2, <1>4, KeptLive
<1> QED BY <1>1, <1>3, <1>5, KeptTasks

(* A processed analysis goes on to validation: it is held again, and it is *)
(* the newest of its document, being the current one.                      *)
LEMMA QueueKeepsTasks ==
  ASSUME Inv, Tasks, NEW j \in jobs, ~Live(j), SnapshotIsCurrent(j), KeepsDocuments,
         Advance(j, [j EXCEPT !.stage = "queued"]),
         workers' = [workers EXCEPT ![j.uri] = j.generation]
  PROVE  Tasks'
<1> DEFINE k == [j EXCEPT !.stage = "queued"]
<1>1. SameTask(j, k) /\ j.uri \in Uris /\ workers \in [Uris -> Nat]
  BY DEF Inv, TypeOK, Job, SameTask
<1>2. jobs' = (jobs \ {j}) \cup {k}
  BY DEF Advance
<1>3. k.uri = j.uri /\ k.generation = j.generation
  BY <1>1 DEF SameTask
<1> HIDE DEF k
<1>4. OneJob'
  BY <1>2, <1>3 DEF OneJob, Tasks
<1>5. \A i \in jobs : i.uri = j.uri => i.generation <= j.generation
  BY DEF SnapshotIsCurrent, Tasks, Superseding
<1>6. \A i \in jobs : i.uri = j.uri => ~Live(i)
  <2> SUFFICES ASSUME NEW i \in jobs, i.uri = j.uri, Live(i)
               PROVE  FALSE
    OBVIOUS
  <2>1. j.generation <= i.generation /\ i.generation <= j.generation
    BY <1>5 DEF Tasks, Newest
  <2>2. i.generation = j.generation
    BY <2>1, Generations
  <2> QED BY <2>2 DEF Tasks, OneJob
<1>7. Held'
  <2> SUFFICES ASSUME NEW i \in jobs', Live(i)
               PROVE  workers'[i.uri] = i.generation
    BY DEF Held, Live
  <2>1. CASE i = k
    BY <1>1, <1>3, <2>1
  <2>2. CASE i # k
    <3>1. i \in jobs /\ i.uri # j.uri /\ i.uri \in Uris
      BY <1>2, <1>6, <2>2, Generations
    <3> QED BY <1>1, <3>1 DEF Tasks, Held
  <2> QED BY <2>1, <2>2
<1>8. Newest'
  <2> SUFFICES ASSUME NEW i \in jobs', NEW l \in jobs', i.uri = l.uri, Live(l)
               PROVE  i.generation <= l.generation
    BY DEF Newest, Live
  <2>1. CASE l = k
    <3>1. i = k \/ i \in jobs
      BY <1>2
    <3> QED BY <1>3, <1>5, <2>1, <3>1
  <2>2. CASE l # k
    <3>1. l \in jobs /\ l.uri # j.uri
      BY <1>2, <1>6, <2>2
    <3>2. i \in jobs
      BY <1>2, <1>3, <3>1
    <3> QED BY <3>1, <3>2 DEF Tasks, Newest
  <2> QED BY <2>1, <2>2
<1>9. KeepsTasks
  <2>1. \A i \in jobs' : \E l \in jobs : SameTask(l, i)
    BY <1>1, <1>2 DEF SameTask
  <2>2. \A i \in jobs : \E l \in jobs' : SameTask(i, l)
    BY <1>1, <1>2 DEF SameTask
  <2> QED BY <2>1, <2>2 DEF KeepsTasks
<1> QED BY <1>4, <1>7, <1>8, <1>9, KeptTasks

-----------------------------------------------------------------------------
(* The documents change as Install says, ... *)

LEMMA EditedVersions ==
  ASSUME Inv, Tasks, NEW d, NEW P, NEW U, Edited(d, P, U), NEW w \in Uris, d[w].open
  PROVE  d[w].version # 0
BY DEF Edited, Tasks, Versioned, OpenDocs

LEMMA InstallRenews ==
  ASSUME Inv, Tasks, NEW d, NEW P, NEW U, Edited(d, P, U), Install(d, P, U),
         running' => running
  PROVE  RenewsDocuments(P \cup U)
<1>1. /\ d \in [Uris -> Document]
      /\ P \in SUBSET Uris /\ U \in SUBSET Uris /\ P \cap U = {}
      /\ \A a, b \in P : a = b
      /\ \A w \in Uris \ P : d[w].open => d[w] = docs[w]
      /\ \A w \in P \cup U : d[w].open /\ d[w].version # 0
  BY DEF Edited
<1>2. /\ nextGeneration' \in Nat /\ nextGeneration <= nextGeneration'
      /\ \A u \in Uris : /\ docs'[u].open = d[u].open
                         /\ docs'[u].version = d[u].version
                         /\ docs'[u].published = d[u].published
      /\ \A u \in P \cup U : /\ docs'[u].status = "pending"
                             /\ docs'[u].generation = nextGeneration + Turn(P, U, u)
                             /\ nextGeneration < docs'[u].generation
                             /\ docs'[u].generation <= nextGeneration'
                             /\ docs'[u].generation \in Nat
      /\ \A u \in Uris \ (P \cup U) : docs'[u] = d[u]
      /\ \A u, v \in P \cup U : docs'[u].generation = docs'[v].generation => u = v
  BY InstalledDocuments DEF Reinstalled
<1>3. cancelled' = cancelled \cup
        {docs[u].generation : u \in {w \in OpenDocs(docs) : w \in P \cup U \/ ~d[w].open}}
  BY DEF Install
<1>4. \A w \in OpenDocs(docs) : docs'[w].open = d[w].open
  BY <1>2 DEF OpenDocs
<1>5. cancelled' \subseteq cancelled \cup
        {docs[u].generation : u \in {w \in OpenDocs(docs) : w \in P \cup U \/ ~docs'[w].open}}
  BY <1>3, <1>4
<1>6. cancelled' \subseteq cancelled \cup {docs[u].generation : u \in OpenDocs(docs)}
  BY <1>3
<1>7. \A u \in P \cup U : docs'[u].open /\ docs'[u].version # 0
  BY <1>1, <1>2
<1>8. \A u \in Uris \ (P \cup U) : docs'[u].open => docs'[u] = docs[u]
  BY <1>1, <1>2
<1> QED BY <1>2, <1>5, <1>6, <1>7, <1>8 DEF RenewsDocuments

LEMMA InstallWatches ==
  ASSUME Inv, NEW d, NEW P, NEW U, Edited(d, P, U), Install(d, P, U)
  PROVE  /\ \A u \in Uris \ (P \cup U) : docs'[u].open => pending'[u] = pending[u]
         /\ \A u \in Uris : /\ docs'[u].open = d[u].open
                            /\ docs'[u].version = d[u].version
                            /\ docs'[u].published = d[u].published
<1>1. \A u \in Uris : /\ docs'[u].open = d[u].open
                     /\ docs'[u].version = d[u].version
                     /\ docs'[u].published = d[u].published
  BY InstalledDocuments DEF Reinstalled
<1> QED BY <1>1 DEF Install

(* ... and the tasks follow. *)

LEMMA SnapshotFresh ==
  ASSUME Inv, Tasks, NEW d, NEW P, NEW U, Edited(d, P, U), Install(d, P, U),
         NEW u \in P \cup U, NEW s
  PROVE  LET k == Snapshot(d, P, U, u, s) IN Fresh(k, P \cup U) /\ k \notin jobs
<1> DEFINE k == Snapshot(d, P, U, u, s)
<1>1. /\ d \in [Uris -> Document] /\ u \in Uris
      /\ P \in SUBSET Uris /\ U \in SUBSET Uris /\ P \cap U = {}
      /\ \A a, b \in P : a = b
      /\ d[u].published \subseteq {u} \cup (IF docs[u].open THEN docs[u].published ELSE {})
  BY DEF Edited
<1>2. /\ docs'[u].version = d[u].version
      /\ docs'[u].published = d[u].published
      /\ docs'[u].generation = nextGeneration + Turn(P, U, u)
      /\ nextGeneration < docs'[u].generation
      /\ docs'[u].generation \in Nat
  BY <1>1, InstalledDocuments DEF Reinstalled
<1>3. /\ k.uri = u /\ k.stage = "waiting" /\ k.read = Nothing
      /\ k.generation = docs'[u].generation /\ k.version = docs'[u].version
      /\ k.previous = IF docs[u].open THEN docs[u].published \cup {u} ELSE {}
      /\ k.captured = Captured(d, P, U, u)
  BY <1>2 DEF Snapshot
<1>4. docs'[u].published \subseteq k.previous \cup {k.uri}
  BY <1>1, <1>2, <1>3
<1>5. ASSUME NEW w \in Uris, Captured(d, P, U, u)[w].generation # 0
      PROVE  Captured(d, P, U, u)[w].version # 0
  <2>1. CASE u \in NonFile \/ w \in NonFile \/ ~d[w].open
    BY <1>5, <2>1 DEF Captured, NoRevision
  <2>2. CASE ~(u \in NonFile \/ w \in NonFile \/ ~d[w].open)
    <3>1. Captured(d, P, U, u)[w].version = d[w].version
      BY <2>2 DEF Captured
    <3> QED BY <2>2, <3>1, EditedVersions
  <2> QED BY <2>1, <2>2
<1>8. ASSUME NEW w \in DocFiles, u \in DocFiles, docs'[w].open
      PROVE  Captured(d, P, U, u)[w].generation # 0
  <2>1. w \in Uris /\ d[w].open
    BY <1>2, <1>8, FilesFacts, InstalledDocuments DEF Reinstalled
  <2>2. Captured(d, P, U, u)[w].generation =
          IF w \in P \cup U /\ Turn(P, U, w) <= Turn(P, U, u)
          THEN nextGeneration + Turn(P, U, w) ELSE d[w].generation
    BY <1>8, <2>1 DEF Captured, DocFiles
  <2>3. nextGeneration \in Nat
    BY Generations
  <2>4. CASE w \in P \cup U /\ Turn(P, U, w) <= Turn(P, U, u)
    <3>1. Turn(P, U, w) \in Nat /\ 1 <= Turn(P, U, w)
      BY <1>1, <2>4, TurnBounds
    <3> QED BY <2>2, <2>3, <2>4, <3>1
  <2>5. CASE ~(w \in P \cup U /\ Turn(P, U, w) <= Turn(P, U, u))
    <3>1. w \notin P
      <4> SUFFICES ASSUME w \in P PROVE Turn(P, U, w) <= Turn(P, U, u)
        BY <2>5
      <4>1. Turn(P, U, w) = 1
        BY DEF Turn
      <4> QED BY <1>1, <4>1, TurnBounds
    <3>2. d[w] = docs[w] /\ docs[w].open
      BY <2>1, <3>1 DEF Edited
    <3>3. docs[w].generation > 0 /\ docs[w].generation \in Nat
      BY <2>1, <3>2, Generations DEF Inv, Consistent, GenerationsHandedOut, OpenDocs
    <3> QED BY <2>2, <2>5, <3>2, <3>3
  <2> QED BY <2>4, <2>5
<1>6. k \notin jobs
  <2>1. \A j \in jobs : j.generation \in Nat /\ j.generation <= nextGeneration
    BY Generations
  <2>2. nextGeneration \in Nat
    BY Generations
  <2> QED BY <1>2, <1>3, <2>1, <2>2
<1> HIDE DEF k
<1>7. Fresh(k, P \cup U)
  BY <1>3, <1>4, <1>5, <1>8 DEF Fresh
<1> QED BY <1>6, <1>7 DEF k

(* Tasks of A are aborted, those of P and U among them.                    *)
Reschedules(done, d, P, U, s, A) ==
  /\ P \cup U \subseteq A /\ \A j \in done : j.uri \in A
  /\ jobs' = (jobs \ (done \cup Aborted(A)))
               \cup {Snapshot(d, P, U, u, s) : u \in P \cup U}
  /\ \A u \in P \cup U : workers'[u] = nextGeneration + Turn(P, U, u)
  /\ \A u \in Uris \ A : workers'[u] = workers[u]

LEMMA SnapshotsRenew ==
  ASSUME Inv, Tasks, NEW d, NEW P, NEW U, Edited(d, P, U), Install(d, P, U), NEW s,
         NEW A, NEW done, Reschedules(done, d, P, U, s, A)
  PROVE  RenewsTasks(A, P \cup U)
<1> DEFINE S(u) == Snapshot(d, P, U, u, s)
           N == P \cup U
<1>1. \A u \in N : Fresh(S(u), N) /\ S(u) \notin jobs
  BY SnapshotFresh
<1>2. \A u \in N : S(u).uri = u
  BY DEF Snapshot
<1>3. jobs' = (jobs \ (done \cup Aborted(A))) \cup {S(u) : u \in N}
  BY DEF Reschedules
<1>4. \A u \in N : workers'[u] = docs'[u].generation
  <2>1. \A u \in N : docs'[u].generation = nextGeneration + Turn(P, U, u)
    BY InstalledDocuments DEF Reinstalled
  <2> QED BY <2>1 DEF Reschedules
<1>0. /\ N \subseteq A /\ \A j \in done : j.uri \in A
      /\ \A u \in Uris \ A : workers'[u] = workers[u]
  BY DEF Reschedules
<1> HIDE DEF S, N
<1>5. \A k \in jobs' \ jobs : \E u \in N : k = S(u)
  BY <1>3
<1>6. \A k \in jobs' \ jobs : Fresh(k, N)
  BY <1>1, <1>5
<1>7. \A j, k \in jobs' \ jobs : j.uri = k.uri => j = k
  BY <1>2, <1>5
<1>8. ASSUME NEW k \in jobs \cap jobs', k.uri \in A, Live(k)
      PROVE  FALSE
  <2>1. k \notin Aborted(A)
    BY <1>1, <1>3, <1>8
  <2>2. workers[k.uri] = k.generation
    BY <1>8 DEF Tasks, Held
  <2> QED BY <1>8, <2>1, <2>2 DEF Aborted, Live
<1>9. \A k \in jobs : k.uri \notin A => k \in jobs'
  BY <1>0, <1>3 DEF Aborted
<1>10. ASSUME NEW u \in N
       PROVE  \E k \in jobs' : /\ k.uri = u /\ k.generation = docs'[u].generation
                               /\ k.version = docs'[u].version
  <2>1. S(u) \in jobs' /\ Fresh(S(u), N) /\ S(u).uri = u
    BY <1>1, <1>2, <1>3, <1>10
  <2> QED BY <2>1 DEF Fresh
<1>11. RenewsTasks(A, N)
  BY <1>0, <1>4, <1>6, <1>7, <1>8, <1>9, <1>10 DEF RenewsTasks
<1> QED BY <1>11 DEF N

(* Tasks of A are aborted and none is scheduled.                           *)
LEMMA AbortRenews ==
  ASSUME Tasks, NEW A, jobs' = jobs \ Aborted(A),
         \A u \in Uris \ A : workers'[u] = workers[u]
  PROVE  RenewsTasks(A, {})
<1>1. \A k \in jobs \cap jobs' : k.uri \in A => ~Live(k)
  BY DEF Tasks, Held, Aborted, Live
<1>2. \A k \in jobs : k.uri \notin A => k \in jobs'
  BY DEF Aborted
<1> QED BY <1>1, <1>2 DEF RenewsTasks

(* Analysing open documents again.                                         *)
LEMMA ReanalyseRenews ==
  ASSUME Inv, Tasks, NEW U \in SUBSET OpenDocs(docs), NEW done, \A j \in done : j.uri \in U,
         NEW s, Install(docs, {}, U), Schedule(done, docs, {}, U, s),
         UNCHANGED <<running, observations, disk>>, unwatched' \subseteq unwatched,
         \A f \in unwatched \ unwatched' : OpenObservers({f}) \subseteq U
  PROVE  Renews(U, U, U) /\ Watches(U) /\ KeepsPublished
<1>1. Edited(docs, {}, U)
  BY DEF Edited, OpenDocs, Inv, TypeOK, Tasks, Versioned
<1>2. RenewsDocuments({} \cup U)
  BY <1>1, InstallRenews
<1>3. Reschedules(done, docs, {}, U, s, {} \cup U)
  BY DEF Schedule, Reschedules, OpenDocs
<1>4. RenewsTasks({} \cup U, {} \cup U)
  BY <1>1, <1>3, SnapshotsRenew
<1>5. {} \cup U = U
  OBVIOUS
<1>6. Renews(U, U, U)
  BY <1>2, <1>4, <1>5 DEF Renews, OpenDocs
<1>7. /\ \A u \in Uris \ U : docs'[u].open => pending'[u] = pending[u]
      /\ \A u \in Uris : /\ docs'[u].open = docs[u].open
                         /\ docs'[u].version = docs[u].version
                         /\ docs'[u].published = docs[u].published
  BY <1>1, <1>5, InstallWatches
<1>8. Watches(U)
  BY <1>7, FilesFacts DEF Watches, OpenObservers, ObservingDocuments, OpenDocs
<1>9. KeepsPublished
  BY <1>7 DEF KeepsPublished, OpenDocs
<1> QED BY <1>6, <1>8, <1>9

(* Opening or changing u, whose document becomes e.                        *)
LEMMA EditRenews ==
  ASSUME Inv, Tasks, NEW u \in Uris, NEW e \in Document, e.open, e.version # 0,
         e.published \subseteq {u} \cup (IF docs[u].open THEN docs[u].published ELSE {}),
         NEW U, U = IF u \in NonFile THEN {} ELSE Dependents(u),
         Install([docs EXCEPT ![u] = e], {u}, U),
         Schedule({}, [docs EXCEPT ![u] = e], {u}, U, settings),
         UNCHANGED <<running, observations, disk, unwatched>>,
         StrictClient /\ docs[u].open => e.published = docs[u].published
  PROVE  \E D \in SUBSET Uris :
           /\ Renews(D, D, D) /\ Watches(D) /\ KeepsPublished
           /\ u \in D /\ (u \in DocFiles => Dependents(u) \subseteq D)
<1> DEFINE d == [docs EXCEPT ![u] = e]
           D == {u} \cup U
<1>1. U \subseteq OpenDocs(docs) /\ u \notin U
  BY DEF Dependents
<1>2. d \in [Uris -> Document] /\ d[u] = e /\ \A w \in Uris : w # u => d[w] = docs[w]
  BY DEF Inv, TypeOK
<1>3. Edited(d, {u}, U)
  <2>1. /\ {u} \in SUBSET Uris /\ U \in SUBSET Uris /\ {u} \cap U = {}
        /\ \A a, b \in {u} : a = b
    BY <1>1 DEF OpenDocs
  <2>2. \A w \in Uris \ {u} : d[w].open => d[w] = docs[w]
    BY <1>2
  <2>3. ASSUME NEW w \in {u} \cup U
        PROVE  /\ d[w].open /\ d[w].version # 0
               /\ d[w].published \subseteq
                    {w} \cup (IF docs[w].open THEN docs[w].published ELSE {})
    <3>1. CASE w = u
      BY <1>2, <3>1
    <3>2. CASE w # u
      <4>1. w \in OpenDocs(docs) /\ d[w] = docs[w] /\ docs[w].version # 0
        BY <1>1, <1>2, <2>3, <3>2 DEF OpenDocs, Tasks, Versioned
      <4> QED BY <4>1 DEF OpenDocs
    <3> QED BY <3>1, <3>2
  <2> QED BY <1>2, <2>1, <2>2, <2>3 DEF Edited
<1> HIDE DEF d
<1>4. Install(d, {u}, U) /\ Schedule({}, d, {u}, U, settings)
  BY DEF d
<1>5. RenewsDocuments(D)
  BY <1>3, <1>4, InstallRenews
<1>6. Reschedules({}, d, {u}, U, settings, D)
  BY <1>1, <1>4 DEF Schedule, Reschedules, OpenDocs
<1>7. RenewsTasks(D, D)
  BY <1>3, <1>4, <1>6, SnapshotsRenew
<1>8. D \subseteq Uris
  BY <1>1 DEF OpenDocs
<1>9. Renews(D, D, D)
  BY <1>5, <1>7, <1>8 DEF Renews
<1>10. /\ \A w \in Uris \ D : docs'[w].open => pending'[w] = pending[w]
       /\ \A w \in Uris : /\ docs'[w].open = d[w].open
                          /\ docs'[w].version = d[w].version
                          /\ docs'[w].published = d[w].published
  BY <1>3, <1>4, InstallWatches
<1>11. Watches(D)
  <2>1. u \in DocFiles => Dependents(u) \subseteq D
    BY DEF DocFiles
  <2>2. \A w \in DocFiles :
          \/ docs'[w].open = docs[w].open /\ docs'[w].version = docs[w].version
          \/ \A r \in OpenDocs(docs) \ {w} : w \in observations[r] => r \in D
    <3> HIDE DEF D
    <3> QED BY <1>2, <1>10, <2>1, FilesFacts DEF Dependents, ObservingDocuments, OpenDocs
  <2> QED BY <1>10, <2>2 DEF Watches
<1>12. KeepsPublished
  BY <1>2, <1>10 DEF KeepsPublished, OpenDocs
<1>13. u \in D /\ (u \in DocFiles => Dependents(u) \subseteq D)
  BY DEF DocFiles
<1> QED BY <1>8, <1>9, <1>11, <1>12, <1>13

LEMMA DidOpenRenews ==
  ASSUME Inv, Tasks, NEW u \in Uris, NEW v \in OpenVersions, NEW t \in Texts, DidOpen(u, v, t)
  PROVE  \E D \in SUBSET Uris :
           /\ Renews(D, D, D) /\ Watches(D) /\ KeepsPublished
           /\ u \in D /\ (u \in DocFiles => Dependents(u) \subseteq D)
<1> DEFINE e == [Closed EXCEPT !.open = TRUE, !.version = v, !.text = t, !.published = {u}]
           U == IF u \in NonFile THEN {} ELSE Dependents(u)
<1>1. e \in Document /\ e.open /\ e.version # 0 /\ e.published = {u}
  <2>1. v \in Nat /\ v # 0
    BY SessionAssumption
  <2> QED BY <2>1, ClosedType DEF Document
<1> HIDE DEF e
<1>2. /\ Install([docs EXCEPT ![u] = e], {u}, U)
      /\ Schedule({}, [docs EXCEPT ![u] = e], {u}, U, settings)
      /\ UNCHANGED <<running, observations, disk, unwatched>>
      /\ ~(StrictClient /\ docs[u].open)
  BY DEF DidOpen, e
<1> QED BY <1>1, <1>2, EditRenews

LEMMA DidChangeRenews ==
  ASSUME Inv, Tasks, NEW u \in Uris, NEW v \in 1..MaxVersion, NEW t \in Texts,
         DidChange(u, v, t)
  PROVE  \E D \in SUBSET Uris :
           /\ Renews(D, D, D) /\ Watches(D) /\ KeepsPublished
           /\ u \in D /\ (u \in DocFiles => Dependents(u) \subseteq D)
<1> DEFINE e == [docs[u] EXCEPT !.version = v, !.text = t]
           U == IF u \in NonFile THEN {} ELSE Dependents(u)
<1>1. docs[u] \in Document /\ docs[u].open
  BY DEF Inv, TypeOK, DidChange
<1>2. e \in Document /\ e.open /\ e.version # 0 /\ e.published = docs[u].published
  <2>1. v \in Nat /\ v # 0
    BY SessionAssumption
  <2> QED BY <1>1, <2>1 DEF Document
<1>3. [docs EXCEPT ![u].version = v, ![u].text = t] = [docs EXCEPT ![u] = e]
  BY DEF Inv, TypeOK
<1> HIDE DEF e
<1>4. /\ Install([docs EXCEPT ![u] = e], {u}, U)
      /\ Schedule({}, [docs EXCEPT ![u] = e], {u}, U, settings)
      /\ UNCHANGED <<running, observations, disk, unwatched>>
  BY <1>3 DEF DidChange
<1>5. e.published \subseteq {u} \cup (IF docs[u].open THEN docs[u].published ELSE {})
  BY <1>1, <1>2
<1> QED BY <1>2, <1>4, <1>5, EditRenews

(* Closing u: if it was not open, the new snapshots are not scheduled.     *)
LEMMA DidCloseRenews ==
  ASSUME Inv, Tasks, NEW u \in Uris, DidClose(u)
  PROVE  LET U == Dependents(u)
         IN  /\ Renews(U, U \cup {u}, U) \/ Renews(U, {u}, {})
             /\ Watches(U)
             /\ \A r \in OpenDocs(docs) \ {u} :
                  docs'[r].open /\ docs'[r].published = docs[r].published
<1> DEFINE d == [docs EXCEPT ![u] = Closed]
           U == Dependents(u)
<1>1. U \subseteq OpenDocs(docs) /\ U \subseteq Uris /\ u \notin U /\ {} \cup U = U
  BY DEF Dependents, OpenDocs
<1>2. d \in [Uris -> Document] /\ d[u] = Closed /\ \A w \in Uris : w # u => d[w] = docs[w]
  BY ClosedType DEF Inv, TypeOK
<1>3. Edited(d, {}, U)
  <2>1. \A w \in Uris \ {} : d[w].open => d[w] = docs[w]
    BY <1>2, ClosedType
  <2>2. ASSUME NEW w \in {} \cup U
        PROVE  /\ d[w].open /\ d[w].version # 0
               /\ d[w].published \subseteq
                    {w} \cup (IF docs[w].open THEN docs[w].published ELSE {})
    <3>1. w \in OpenDocs(docs) /\ d[w] = docs[w] /\ docs[w].version # 0
      BY <1>1, <1>2, <2>2 DEF OpenDocs, Tasks, Versioned
    <3> QED BY <3>1 DEF OpenDocs
  <2> QED BY <1>1, <1>2, <2>1, <2>2 DEF Edited
<1>4. Install(d, {}, U) /\ running' = running
  BY DEF DidClose
<1>5. ~docs'[u].open
  <2> HIDE DEF d, U
  <2>1. docs'[u].open = d[u].open
    BY <1>3, <1>4, InstalledDocuments DEF Reinstalled
  <2> QED BY <1>2, <2>1, ClosedType
<1>6. ASSUME docs[u].open
      PROVE  Renews(U, U \cup {u}, U)
  <2>1. /\ jobs' = (jobs \ Aborted(U \cup {u}))
                     \cup {Snapshot(d, {}, U, w, settings) : w \in U}
        /\ workers' = [w \in Uris |-> IF w = u THEN 0
                                      ELSE IF w \in U THEN nextGeneration + Turn({}, U, w)
                                      ELSE workers[w]]
    BY <1>6 DEF DidClose
  <2> HIDE DEF d, U
  <2>2. Reschedules({}, d, {}, U, settings, U \cup {u})
    BY <1>1, <2>1 DEF Reschedules
  <2>4. RenewsDocuments({} \cup U)
    BY <1>3, <1>4, InstallRenews
  <2>5. RenewsTasks(U \cup {u}, {} \cup U)
    BY <1>3, <1>4, <2>2, SnapshotsRenew
  <2>6. Renews(U, U \cup {u}, U)
    BY <1>1, <1>4, <1>5, <2>4, <2>5 DEF Renews
  <2> QED BY <2>6 DEF U
<1>7. ASSUME ~docs[u].open
      PROVE  Renews(U, {u}, {})
  <2>1. jobs' = jobs \ Aborted({u}) /\ workers' = [workers EXCEPT ![u] = 0] /\ ~StrictClient
    BY <1>7 DEF DidClose
  <2>2. \A w \in Uris \ {u} : workers'[w] = workers[w]
    BY <2>1 DEF Inv, TypeOK
  <2>3. RenewsTasks({u}, {})
    BY <2>1, <2>2, AbortRenews
  <2> HIDE DEF d, U
  <2>4. RenewsDocuments({} \cup U)
    BY <1>3, <1>4, InstallRenews
  <2>5. Renews(U, {u}, {})
    BY <1>1, <1>4, <2>1, <2>3, <2>4 DEF Renews
  <2> QED BY <2>5 DEF U
<1>8. /\ disk' = disk /\ unwatched' = unwatched
      /\ \A w \in Uris : w # u => observations'[w] = observations[w]
  BY DEF DidClose, Inv, TypeOK
<1> HIDE DEF d, U
<1>9. /\ \A w \in Uris \ U : docs'[w].open => pending'[w] = pending[w]
      /\ \A w \in Uris : /\ docs'[w].open = d[w].open
                         /\ docs'[w].version = d[w].version
                         /\ docs'[w].published = d[w].published
  BY <1>1, <1>3, <1>4, InstallWatches
<1>10. Watches(U)
  <2>1. \A w \in DocFiles :
          \/ docs'[w].open = docs[w].open /\ docs'[w].version = docs[w].version
          \/ \A r \in OpenDocs(docs) \ {w} : w \in observations[r] => r \in U
    BY <1>2, <1>9, FilesFacts DEF U, Dependents, ObservingDocuments, OpenDocs
  <2> QED BY <1>5, <1>8, <1>9, <2>1 DEF Watches
<1>11. \A r \in OpenDocs(docs) \ {u} :
         docs'[r].open /\ docs'[r].published = docs[r].published
  BY <1>2, <1>9 DEF OpenDocs
<1> QED BY <1>6, <1>7, <1>10, <1>11 DEF U

LEMMA ShutdownRenews ==
  ASSUME Inv, Tasks, Shutdown
  PROVE  Renews({}, Uris, {}) /\ Watches({}) /\ KeepsPublished
<1>1. RenewsTasks(Uris, {})
  BY AbortRenews DEF Shutdown
<1>2. RenewsDocuments({})
  BY Generations DEF RenewsDocuments, Shutdown
<1>3. Renews({}, Uris, {})
  BY <1>1, <1>2 DEF Renews, Shutdown
<1>4. Watches({}) /\ KeepsPublished
  BY DEF Watches, KeepsPublished, Shutdown, OpenDocs
<1> QED BY <1>3, <1>4

LEMMA RetryRenews ==
  ASSUME Inv, Tasks, NEW j \in jobs, SnapshotIsCurrent(j), Retry(j)
  PROVE  Renews({j.uri}, {j.uri}, {j.uri}) /\ Watches({j.uri}) /\ KeepsPublished
<1>1. {j.uri} \in SUBSET OpenDocs(docs)
  BY Generations DEF SnapshotIsCurrent, OpenDocs
<1>2. /\ Install(docs, {}, {j.uri}) /\ Schedule({j}, docs, {}, {j.uri}, settings)
      /\ UNCHANGED <<running, observations, disk, unwatched>>
      /\ \A i \in {j} : i.uri \in {j.uri}
  BY DEF Retry
<1> QED BY <1>1, <1>2, ReanalyseRenews

LEMMA WatchedRenews ==
  ASSUME Inv, Tasks, NEW F, DidChangeWatchedFiles(F)
  PROVE  \E U \in SUBSET Uris : Renews(U, U, U) /\ Watches(U) /\ KeepsPublished
<1>1. PICK U \in {OpenObservers(F), OpenDocs(docs)} :
        /\ Install(docs, {}, U) /\ Schedule({}, docs, {}, U, settings)
        /\ unwatched' = unwatched \ F
        /\ UNCHANGED <<running, observations, disk>>
  BY DEF DidChangeWatchedFiles
<1>2. U \in SUBSET OpenDocs(docs)
  <2>1. OpenObservers(F) \subseteq OpenDocs(docs)
    BY DEF OpenObservers
  <2> QED BY <2>1
<1>3. unwatched' \subseteq unwatched /\ \A j \in {} : j.uri \in U
  BY <1>1
<1>4. \A f \in unwatched \ unwatched' : OpenObservers({f}) \subseteq U
  BY <1>1 DEF OpenObservers
<1>5. Renews(U, U, U) /\ Watches(U) /\ KeepsPublished
  BY <1>1, <1>2, <1>3, <1>4, ReanalyseRenews
<1> QED BY <1>2, <1>5 DEF OpenDocs

LEMMA ConfigurationRenews ==
  ASSUME Inv, Tasks, NEW s \in Settings, DidChangeConfiguration(s)
  PROVE  LET U == OpenDocs(docs) IN Renews(U, U, U) /\ Watches(U) /\ KeepsPublished
<1> DEFINE U == OpenDocs(docs)
<1>1. /\ Install(docs, {}, U) /\ Schedule({}, docs, {}, U, s)
      /\ UNCHANGED <<running, observations, disk, unwatched>>
  BY DEF DidChangeConfiguration
<1>2. U \in SUBSET OpenDocs(docs) /\ \A j \in {} : j.uri \in U
  OBVIOUS
<1> HIDE DEF U
<1>3. Renews(U, U, U) /\ Watches(U) /\ KeepsPublished
  BY <1>1, <1>2, ReanalyseRenews
<1> QED BY <1>3 DEF U

-----------------------------------------------------------------------------
(* The specification. *)

LEMMA AdoptKeepsDocuments ==
  ASSUME Inv, NEW j \in jobs, Adopt(j)
  PROVE  KeepsDocuments /\ docs'[j.uri].status # "pending"
<1>1. /\ docs' = [docs EXCEPT ![j.uri] = Adopted(j)]
      /\ UNCHANGED <<nextGeneration, cancelled, running>>
      /\ j.uri \in Uris /\ docs \in [Uris -> Document]
  BY DEF Adopt, Inv, TypeOK, Job
<1>2. /\ Adopted(j).open = docs[j.uri].open
      /\ Adopted(j).version = docs[j.uri].version
      /\ Adopted(j).generation = docs[j.uri].generation
  BY AdoptedType DEF Inv
<1>3. Adopted(j).status # "pending"
  <2>1. docs[j.uri] \in Document
    BY <1>1
  <2> QED BY <2>1 DEF Adopted, Document
<1> QED BY <1>1, <1>2, <1>3 DEF KeepsDocuments

LEMMA EventKeepsTasks ==
  ASSUME Inv, Tasks, NEW j \in jobs,
         ProjectProcessingCompleted(j) \/ ProjectValidationCompleted(j)
  PROVE  Tasks'
<1>1. CASE ~SnapshotIsCurrent(j) /\ Ignore(j)
  <2>1. jobs' = jobs \ {j} /\ Complete(j) /\ KeepsDocuments
    BY <1>1 DEF Ignore, KeepsDocuments
  <2> QED BY <1>1, <2>1, EndKeepsTasks
<1>2. CASE SnapshotIsCurrent(j) /\ Retry(j)
  BY <1>2, RetryRenews, RenewalKeepsTasks
<1>3. CASE Adopt(j)
  <2>1. jobs' = jobs \ {j} /\ Complete(j)
    BY <1>3 DEF Adopt
  <2> QED BY <1>3, <2>1, AdoptKeepsDocuments, EndKeepsTasks
<1>4. CASE /\ SnapshotIsCurrent(j) /\ j.stage = "processed"
           /\ Advance(j, [j EXCEPT !.stage = "queued"])
           /\ workers' = [workers EXCEPT ![j.uri] = j.generation]
           /\ UNCHANGED <<docs, nextGeneration, cancelled, observations, settings, abandoned,
                          running, disk, unwatched, shown>>
  <2>1. KeepsDocuments /\ ~Live(j)
    BY <1>4 DEF KeepsDocuments, Live
  <2> QED BY <1>4, <2>1, QueueKeepsTasks
<1> QED BY <1>1, <1>2, <1>3, <1>4
        DEF ProjectProcessingCompleted, ProjectValidationCompleted

(* One step of a task or of its thread.                                    *)
LEMMA RuntimeStep ==
  ASSUME Inv, NEW j \in jobs,
         \/ StartProcessing(j) \/ FinishProcessing(j)
         \/ StartValidation(j) \/ FinishValidation(j)
         \/ \E f \in Files : ReadResource(j, f) \/ CheckObservation(j, f)
  PROVE  /\ TaskOnly
         /\ \/ jobs' = jobs \ {j} /\ j.generation \in cancelled
            \/ \E k : SameTask(j, k) /\ (Live(k) => Live(j)) /\ Advance(j, k)
<1>1. j \in Job
  BY DEF Inv, TypeOK
<1>2. TaskOnly
  BY DEF StartProcessing, FinishProcessing, StartValidation, FinishValidation,
         ReadResource, CheckObservation
<1>3. CASE StartProcessing(j) \/ StartValidation(j)
  <2>1. CASE jobs' = jobs \ {j} /\ j.generation \in cancelled
    BY <1>2, <2>1
  <2>2. CASE StartProcessing(j) /\ Advance(j, [j EXCEPT !.stage = "processing"])
    <3>1. SameTask(j, [j EXCEPT !.stage = "processing"]) /\ Live(j)
      BY <1>1, <2>2 DEF SameTask, Job, Live, StartProcessing
    <3> QED BY <1>2, <2>2, <3>1
  <2>3. CASE /\ StartValidation(j)
             /\ Advance(j, [j EXCEPT !.stage = "validating", !.unchecked = Candidates(j)])
    <3>1. /\ SameTask(j, [j EXCEPT !.stage = "validating", !.unchecked = Candidates(j)])
          /\ Live(j)
      BY <1>1, <2>3 DEF SameTask, Job, Live, StartValidation
    <3> QED BY <1>2, <2>3, <3>1
  <2> QED BY <1>3, <2>1, <2>2, <2>3 DEF StartProcessing, StartValidation
<1>4. CASE FinishProcessing(j)
  <2>1. SameTask(j, [j EXCEPT !.stage = "processed"]) /\ Live(j)
    BY <1>1, <1>4 DEF SameTask, Job, Live, FinishProcessing
  <2> QED BY <1>2, <1>4, <2>1 DEF FinishProcessing
<1>5. CASE FinishValidation(j)
  <2>1. PICK b \in BOOLEAN :
          Advance(j, [j EXCEPT !.stage = "validated", !.unchecked = {}, !.valid = b])
    BY <1>5 DEF FinishValidation
  <2>2. /\ SameTask(j, [j EXCEPT !.stage = "validated", !.unchecked = {}, !.valid = b])
        /\ Live(j)
    BY <1>1, <1>5 DEF SameTask, Job, Live, FinishValidation
  <2> QED BY <1>2, <2>1, <2>2
<1>6. CASE \E f \in Files : ReadResource(j, f)
  <2>1. PICK f \in Files : ReadResource(j, f)
    BY <1>6
  <2>2. SameTask(j, [j EXCEPT !.read[f] = disk[f]]) /\ Live(j)
    BY <1>1, <2>1 DEF SameTask, Job, Live, ReadResource
  <2> QED BY <1>2, <2>1, <2>2 DEF ReadResource
<1>7. CASE \E f \in Files : CheckObservation(j, f)
  <2>1. PICK f \in Files : CheckObservation(j, f)
    BY <1>7
  <2>2. SameTask(j, [j EXCEPT !.unchecked = @ \ {f}]) /\ Live(j)
    BY <1>1, <2>1 DEF SameTask, Job, Live, CheckObservation
  <2> QED BY <1>2, <2>1, <2>2 DEF CheckObservation
<1> QED BY <1>3, <1>4, <1>5, <1>6, <1>7

LEMMA RuntimeKeepsTasks ==
  ASSUME Inv, Tasks, NEW j \in jobs,
         \/ StartProcessing(j) \/ FinishProcessing(j)
         \/ StartValidation(j) \/ FinishValidation(j)
         \/ \E f \in Files : ReadResource(j, f) \/ CheckObservation(j, f)
  PROVE  Tasks'
<1>1. TaskOnly
  BY RuntimeStep
<1>2. CASE jobs' = jobs \ {j} /\ j.generation \in cancelled
  <2>1. KeepsDocuments /\ workers' = workers /\ ~SnapshotIsCurrent(j)
    BY <1>1, <1>2 DEF TaskOnly, session, KeepsDocuments, SnapshotIsCurrent
  <2> QED BY <1>2, <2>1, EndKeepsTasks
<1>3. CASE \E k : SameTask(j, k) /\ (Live(k) => Live(j)) /\ Advance(j, k)
  BY <1>1, <1>3, AdvanceKeepsTasks
<1> QED BY <1>2, <1>3, RuntimeStep

(* Steps that leave the documents and the tasks alone.                     *)
LEMMA IdleKeepsTasks ==
  ASSUME Tasks, UNCHANGED <<session, workers, jobs, running>>
  PROVE  Tasks'
BY DEF session, Tasks, OneJob, Held, Newest, Superseding, Distinct, CancelledOld,
       Uncancelled, Versioned, Owed, AnalysisOwed, SnapshotIsCurrent, OpenDocs

LEMMA InitTasks == Init => Tasks
BY ClosedType DEF Init, Tasks, OneJob, Held, Newest, Superseding, Distinct, CancelledOld,
       Uncancelled, Versioned, Owed, AnalysisOwed, OpenDocs

LEMMA NextTasks == Inv /\ Tasks /\ [Next]_vars => Tasks'
<1> SUFFICES ASSUME Inv, Tasks, [Next]_vars
             PROVE  Tasks'
  OBVIOUS
<1>1. CASE Client
  <2>1. CASE \E u \in Uris, v \in OpenVersions, t \in Texts : t \in Edits[u] /\ DidOpen(u, v, t)
    BY <2>1, DidOpenRenews, RenewalKeepsTasks
  <2>2. CASE \E u \in Uris, v \in 1..MaxVersion, t \in Texts :
               t \in Edits[u] /\ DidChange(u, v, t)
    BY <2>2, DidChangeRenews, RenewalKeepsTasks
  <2>3. CASE \E u \in Uris : DidSave(u)
    BY <2>3, IdleKeepsTasks DEF DidSave
  <2>4. CASE \E u \in Uris : DidClose(u)
    BY <2>4, DidCloseRenews, RenewalKeepsTasks
  <2>5. CASE \E F \in SUBSET unwatched \ {{}} : DidChangeWatchedFiles(F)
    BY <2>5, WatchedRenews, RenewalKeepsTasks
  <2>6. CASE \E s \in Settings : DidChangeConfiguration(s)
    BY <2>6, ConfigurationRenews, RenewalKeepsTasks
  <2>7. CASE Shutdown
    BY <2>7, ShutdownRenews, RenewalKeepsTasks
  <2> QED BY <1>1, <2>1, <2>2, <2>3, <2>4, <2>5, <2>6, <2>7 DEF Client
<1>2. CASE Runtime
  <2>1. CASE \E j \in jobs :
               \/ StartProcessing(j) \/ FinishProcessing(j)
               \/ StartValidation(j) \/ FinishValidation(j)
               \/ \E f \in Files : ReadResource(j, f) \/ CheckObservation(j, f)
    BY <2>1, RuntimeKeepsTasks
  <2>2. CASE AbandonedReturn
    BY <2>2, IdleKeepsTasks DEF AbandonedReturn
  <2>3. CASE \E j \in jobs : ProjectProcessingCompleted(j) \/ ProjectValidationCompleted(j)
    BY <2>3, EventKeepsTasks
  <2> QED BY <1>2, <2>1, <2>2, <2>3 DEF Runtime
<1>3. CASE Environment
  BY <1>3, IdleKeepsTasks DEF Environment, WriteFile
<1>4. CASE UNCHANGED vars
  BY <1>4, IdleKeepsTasks DEF vars
<1> QED BY <1>1, <1>2, <1>3, <1>4 DEF Next

LEMMA SpecTasks == Spec => [](Inv /\ Tasks)
<1>1. Init => Inv /\ Tasks
  BY InitInv, InitTasks
<1>2. Inv /\ Tasks /\ [Next]_vars => (Inv /\ Tasks)'
  BY NextInv, NextTasks
<1> QED BY <1>1, <1>2, PTL DEF Spec

(* However fast the client edits, a document has at most one task whose    *)
(* result somebody waits for.                                              *)
THEOREM OneTask == Spec => []OneTaskPerDocument
<1>1. ASSUME Inv, Tasks
      PROVE  OneTaskPerDocument
  <2> SUFFICES ASSUME NEW u \in Uris
               PROVE  Cardinality({j \in jobs : j.uri = u /\ Live(j)}) <= 1
    BY DEF OneTaskPerDocument, Live
  <2> DEFINE L == {j \in jobs : j.uri = u /\ Live(j)}
  <2>1. \A j, k \in L : j = k
    BY <1>1 DEF Tasks, Held, OneJob
  <2>2. CASE L = {}
    BY <2>2, FS_EmptySet
  <2>3. CASE L # {}
    <3>1. PICK j \in L : TRUE
      BY <2>3
    <3> HIDE DEF L
    <3>2. L = {j}
      BY <2>1, <3>1
    <3>3. Cardinality(L) = 1
      BY <3>2, FS_Singleton
    <3> QED BY <3>3 DEF L
  <2> QED BY <2>2, <2>3
<1> QED BY <1>1, SpecTasks, PTL

(* A client that keeps to the protocol never sees a document forgotten: an *)
(* open document without a result has an analysis under way that is still  *)
(* the current one.                                                        *)
THEOREM NoneForgotten == Spec => [](StrictClient => AnalysisOwed)
<1>1. Tasks => (StrictClient => AnalysisOwed)
  BY DEF Tasks, Owed
<1> QED BY <1>1, SpecTasks, PTL

-----------------------------------------------------------------------------
(* Diagnostics. *)

(* The result an open document waits for.                                  *)
Awaited(j) == docs[j.uri].open /\ docs[j.uri].generation = j.generation

(* When it comes, diagnostics are published again wherever the previous    *)
(* result put them.                                                        *)
PreviousCovers ==
  \A j \in jobs : Awaited(j) => docs[j.uri].published \subseteq j.previous \cup {j.uri}

(* A view has findings only where its document publishes.                  *)
ViewPublished ==
  \A r \in OpenDocs(docs) : \A u \in DocFiles :
    docs[r].status = "view" /\ docs[r].read[u] \in Texts => u \in docs[r].published

OwnedShown == StrictClient => DiagnosticsOwned

Covers == PreviousCovers /\ ViewPublished /\ OwnedShown

LEMMA ContributionsOwned ==
  ASSUME NEW d, NEW u \in Uris, NEW r \in Contributions(d, u),
         \A q \in OpenDocs(d) : \A w \in DocFiles :
           d[q].status = "view" /\ d[q].read[w] \in Texts => w \in d[q].published
  PROVE  r \in Uris /\ d[r].open /\ u \in d[r].published \cup {r}
BY DEF Contributions, OpenDocs

(* A task of a document whose generation a step renews is not awaited.     *)
LEMMA RenewedNotAwaited ==
  ASSUME Inv, NEW D, NEW A, NEW N, Renews(D, A, N), NEW j \in jobs, Awaited(j)'
  PROVE  j.uri \in Uris \ D /\ docs'[j.uri] = docs[j.uri] /\ Awaited(j)
<1>1. /\ j.uri \in Uris /\ j.generation \in Nat /\ j.generation <= nextGeneration
      /\ nextGeneration \in Nat
  BY Generations
<1>2. docs'[j.uri].open /\ docs'[j.uri].generation = j.generation
  BY DEF Awaited
<1>3. j.uri \notin D
  <2> SUFFICES ASSUME j.uri \in D
               PROVE  FALSE
    OBVIOUS
  <2>1. nextGeneration < docs'[j.uri].generation /\ docs'[j.uri].generation \in Nat
    BY DEF Renews, RenewsDocuments
  <2> QED BY <1>1, <1>2, <2>1
<1>4. docs'[j.uri] = docs[j.uri]
  BY <1>1, <1>2, <1>3 DEF Renews, RenewsDocuments
<1> QED BY <1>1, <1>2, <1>3, <1>4 DEF Awaited

LEMMA RenewalCovers ==
  ASSUME Inv, Covers, NEW D, NEW A, NEW N, Renews(D, A, N)
  PROVE  PreviousCovers' /\ ViewPublished'
<1>1. PreviousCovers'
  <2> SUFFICES ASSUME NEW j \in jobs', Awaited(j)'
               PROVE  docs'[j.uri].published \subseteq j.previous \cup {j.uri}
    BY DEF PreviousCovers
  <2>1. CASE j \in jobs
    BY <2>1, RenewedNotAwaited DEF Covers, PreviousCovers
  <2>2. CASE j \notin jobs
    BY <2>2 DEF Renews, RenewsTasks, Fresh
  <2> QED BY <2>1, <2>2
<1>2. ViewPublished'
  BY DEF Renews, RenewsDocuments, Covers, ViewPublished, OpenDocs
<1> QED BY <1>1, <1>2

LEMMA QuietRenewalCovers ==
  ASSUME Inv, Covers, NEW D, NEW A, NEW N, Renews(D, A, N), KeepsPublished, shown' = shown
  PROVE  Covers'
<1>1. OwnedShown'
  <2> SUFFICES ASSUME StrictClient, NEW u \in Uris, NEW r \in shown[u]
               PROVE  docs'[r].open /\ u \in docs'[r].published \cup {r}
    BY DEF OwnedShown, DiagnosticsOwned
  <2>1. r \in Uris /\ docs[r].open /\ u \in docs[r].published \cup {r}
    BY DEF Inv, TypeOK, Covers, OwnedShown, DiagnosticsOwned
  <2> QED BY <2>1 DEF KeepsPublished, OpenDocs
<1> QED BY <1>1, RenewalCovers DEF Covers

(* Publishing at U owns what it shows there; elsewhere nothing changes.    *)
LEMMA PublishCovers ==
  ASSUME Inv, Covers, NEW U, Publish(docs', U), ViewPublished',
         \A u \in Uris \ U : \A r \in OpenDocs(docs) :
           u \in docs[r].published \cup {r} =>
             docs'[r].open /\ u \in docs'[r].published \cup {r}
  PROVE  OwnedShown'
<1> SUFFICES ASSUME StrictClient, NEW u \in Uris, NEW r \in shown'[u]
             PROVE  docs'[r].open /\ u \in docs'[r].published \cup {r}
  BY DEF OwnedShown, DiagnosticsOwned
<1>1. CASE u \in U
  <2>1. r \in Contributions(docs', u)
    BY <1>1 DEF Publish
  <2>2. \A q \in OpenDocs(docs') : \A w \in DocFiles :
          docs'[q].status = "view" /\ docs'[q].read[w] \in Texts => w \in docs'[q].published
    BY DEF ViewPublished
  <2> QED BY <2>1, <2>2, ContributionsOwned
<1>2. CASE u \notin U
  <2>1. r \in shown[u]
    BY <1>2 DEF Publish
  <2>2. r \in OpenDocs(docs) /\ u \in docs[r].published \cup {r}
    BY <2>1 DEF Inv, TypeOK, Covers, OwnedShown, DiagnosticsOwned, OpenDocs
  <2> QED BY <1>2, <2>2
<1> QED BY <1>1, <1>2

LEMMA DidCloseCovers ==
  ASSUME Inv, Tasks, Covers, NEW u \in Uris, DidClose(u)
  PROVE  Covers'
<1>1. /\ PreviousCovers' /\ ViewPublished'
      /\ \A r \in OpenDocs(docs) \ {u} :
           docs'[r].open /\ docs'[r].published = docs[r].published
  BY DidCloseRenews, RenewalCovers
<1>2. CASE docs[u].open
  <2>1. Publish(docs', docs[u].published \cup {u})
    BY <1>2 DEF DidClose
  <2>2. OwnedShown'
    BY <1>1, <2>1, PublishCovers
  <2> QED BY <1>1, <2>2 DEF Covers
<1>3. CASE ~docs[u].open
  <2>1. ~StrictClient
    BY <1>3 DEF DidClose
  <2> QED BY <1>1, <2>1 DEF Covers, OwnedShown
<1> QED BY <1>2, <1>3

LEMMA DidSaveCovers ==
  ASSUME Inv, Covers, NEW u \in Uris, DidSave(u)
  PROVE  Covers'
<1>1. docs' = docs /\ jobs' = jobs /\ Publish(docs', {u})
  BY DEF DidSave, session
<1>2. PreviousCovers' /\ ViewPublished'
  BY <1>1 DEF Covers, PreviousCovers, ViewPublished, Awaited
<1>3. OwnedShown'
  BY <1>1, <1>2, PublishCovers DEF OpenDocs
<1> QED BY <1>2, <1>3 DEF Covers

(* Steps that only move or end tasks.                                      *)
LEMMA KeptCovers ==
  ASSUME Covers, docs' = docs, shown' = shown,
         \A k \in jobs' : \E j \in jobs : SameTask(j, k)
  PROVE  Covers'
<1>1. PreviousCovers'
  BY DEF Covers, PreviousCovers, Awaited, SameTask
<1>2. ViewPublished' /\ OwnedShown'
  BY DEF Covers, ViewPublished, OwnedShown, DiagnosticsOwned
<1> QED BY <1>1, <1>2 DEF Covers

(* What a result says of the files it read.                                *)
LEMMA AdoptedReads ==
  ASSUME TypeOK, NEW j \in jobs
  PROVE  LET kept == IF Rejected(j) \/ ConfigFailed(j) THEN {} ELSE Needed(j)
         IN  /\ kept \subseteq DocFiles
             /\ Adopted(j).read[Config] = j.read[Config]
             /\ \A f \in DocFiles :
                  /\ Adopted(j).read[f] = IF f \in kept THEN Known(j, f) ELSE Unread
                  /\ Adopted(j).held[f] = IF f \in kept THEN j.captured[f].version ELSE 0
             /\ Adopted(j).published = {u \in kept : Known(j, u) \in Texts} \cup {j.uri}
<1> DEFINE kept == IF Rejected(j) \/ ConfigFailed(j) THEN {} ELSE Needed(j)
           status == IF Rejected(j) \/ ConfigFailed(j) THEN "problem" ELSE "view"
           read == [f \in Files |-> IF f = Config THEN j.read[f]
                                    ELSE IF f \in kept THEN Known(j, f) ELSE Unread]
           held == [u \in Uris |-> IF u \in kept THEN j.captured[u].version ELSE 0]
           published == {u \in kept : Known(j, u) \in Texts} \cup {j.uri}
<1>1. docs[j.uri] \in Document
  BY DEF TypeOK, Job
<1>2. Adopted(j) = [docs[j.uri] EXCEPT !.status = status, !.read = read, !.held = held,
                                       !.settings = j.settings, !.published = published]
  BY DEF Adopted
<1>3. /\ kept \subseteq DocFiles /\ DocFiles \subseteq Uris /\ DocFiles \subseteq Files
      /\ Config \in Files /\ Config \notin DocFiles
  BY NeededDocuments, SessionAssumption DEF Files, DocFiles
<1>4. /\ read[Config] = j.read[Config]
      /\ \A f \in DocFiles :
           /\ read[f] = IF f \in kept THEN Known(j, f) ELSE Unread
           /\ held[f] = IF f \in kept THEN j.captured[f].version ELSE 0
  <2> HIDE DEF kept
  <2> QED BY <1>3
<1> HIDE DEF status, read, held, published, kept
<1>5. /\ Adopted(j).read = read /\ Adopted(j).held = held
      /\ Adopted(j).published = published
  BY <1>1, <1>2 DEF Document
<1>6. /\ kept \subseteq DocFiles
      /\ Adopted(j).read[Config] = j.read[Config]
      /\ \A f \in DocFiles :
           /\ Adopted(j).read[f] = IF f \in kept THEN Known(j, f) ELSE Unread
           /\ Adopted(j).held[f] = IF f \in kept THEN j.captured[f].version ELSE 0
      /\ Adopted(j).published = {u \in kept : Known(j, u) \in Texts} \cup {j.uri}
  BY <1>3, <1>4, <1>5 DEF published
<1> QED BY <1>6 DEF kept

LEMMA AdoptCovers ==
  ASSUME Inv, Tasks, Covers, NEW j \in jobs, SnapshotIsCurrent(j), Adopt(j)
  PROVE  Covers'
<1>1. /\ docs' = [docs EXCEPT ![j.uri] = Adopted(j)] /\ jobs' = jobs \ {j}
      /\ Publish(docs', j.previous \cup docs'[j.uri].published)
      /\ j.uri \in Uris /\ docs \in [Uris -> Document]
  BY DEF Adopt, Inv, TypeOK, Job
<1>2. /\ docs'[j.uri] = Adopted(j)
      /\ \A u \in Uris : u # j.uri => docs'[u] = docs[u]
      /\ docs'[j.uri].open = docs[j.uri].open
      /\ docs'[j.uri].generation = docs[j.uri].generation
  BY <1>1, AdoptedType DEF Inv
<1>3. docs[j.uri].open /\ docs[j.uri].generation = j.generation
  BY DEF SnapshotIsCurrent
<1>4. PreviousCovers'
  <2> SUFFICES ASSUME NEW k \in jobs', Awaited(k)'
               PROVE  docs'[k.uri].published \subseteq k.previous \cup {k.uri}
    BY DEF PreviousCovers
  <2>1. k \in jobs /\ k # j /\ k.uri \in Uris
    BY <1>1, Generations
  <2>2. k.uri # j.uri
    BY <1>2, <1>3, <2>1 DEF Awaited, Tasks, OneJob
  <2> QED BY <1>2, <2>1, <2>2 DEF Covers, PreviousCovers, Awaited
<1>5. ViewPublished'
  <2> SUFFICES ASSUME NEW r \in Uris, docs'[r].open, NEW u \in DocFiles,
                      docs'[r].status = "view", docs'[r].read[u] \in Texts
               PROVE  u \in docs'[r].published
    BY DEF ViewPublished, OpenDocs
  <2>1. CASE r = j.uri
    <3>1. Adopted(j).read[u] \in Texts
      BY <1>2, <2>1
    <3>2. Unread \notin Texts
      BY SessionAssumption
    <3> QED BY <1>2, <2>1, <3>1, <3>2, AdoptedReads DEF Inv
  <2>2. CASE r # j.uri
    BY <1>2, <2>2 DEF Covers, ViewPublished, OpenDocs
  <2> QED BY <2>1, <2>2
<1>6. OwnedShown'
  <2>1. ASSUME NEW u \in Uris \ (j.previous \cup docs'[j.uri].published),
               NEW r \in OpenDocs(docs), u \in docs[r].published \cup {r}
        PROVE  docs'[r].open /\ u \in docs'[r].published \cup {r}
    <3>1. CASE r # j.uri
      BY <1>2, <2>1, <3>1 DEF OpenDocs
    <3>2. CASE r = j.uri
      <4>1. u = j.uri
        BY <1>3, <2>1, <3>2 DEF Covers, PreviousCovers, Awaited
      <4> QED BY <1>2, <1>3, <3>2, <4>1
    <3> QED BY <3>1, <3>2
  <2> QED BY <1>1, <1>5, <2>1, PublishCovers
<1> QED BY <1>4, <1>5, <1>6 DEF Covers

LEMMA EventCovers ==
  ASSUME Inv, Tasks, Covers, NEW j \in jobs,
         ProjectProcessingCompleted(j) \/ ProjectValidationCompleted(j)
  PROVE  Covers'
<1>1. CASE Ignore(j)
  <2>1. docs' = docs /\ shown' = shown /\ \A k \in jobs' : k \in jobs /\ SameTask(k, k)
    BY <1>1 DEF Ignore, SameTask
  <2> QED BY <2>1, KeptCovers
<1>2. CASE SnapshotIsCurrent(j) /\ Retry(j)
  <2>1. shown' = shown
    BY <1>2 DEF Retry
  <2> QED BY <1>2, <2>1, RetryRenews, QuietRenewalCovers
<1>3. CASE SnapshotIsCurrent(j) /\ Adopt(j)
  BY <1>3, AdoptCovers
<1>4. CASE /\ Advance(j, [j EXCEPT !.stage = "queued"])
           /\ UNCHANGED <<docs, nextGeneration, cancelled, observations, settings, abandoned,
                          running, disk, unwatched, shown>>
  <2>1. j \in Job
    BY DEF Inv, TypeOK
  <2>2. SameTask(j, [j EXCEPT !.stage = "queued"])
    BY <2>1 DEF Job, SameTask
  <2>3. \A k \in jobs' : \E i \in jobs : SameTask(i, k)
    BY <1>4, <2>2 DEF Advance, SameTask
  <2> QED BY <1>4, <2>3, KeptCovers
<1> QED BY <1>1, <1>2, <1>3, <1>4
        DEF ProjectProcessingCompleted, ProjectValidationCompleted

LEMMA RuntimeCovers ==
  ASSUME Inv, Covers, NEW j \in jobs,
         \/ StartProcessing(j) \/ FinishProcessing(j)
         \/ StartValidation(j) \/ FinishValidation(j)
         \/ \E f \in Files : ReadResource(j, f) \/ CheckObservation(j, f)
  PROVE  Covers'
<1>1. docs' = docs /\ shown' = shown
  BY RuntimeStep DEF TaskOnly, session
<1>2. \A k \in jobs' : \E i \in jobs : SameTask(i, k)
  BY RuntimeStep DEF Advance, SameTask
<1> QED BY <1>1, <1>2, KeptCovers

LEMMA IdleCovers ==
  ASSUME Covers, docs' = docs, jobs' = jobs, shown' = shown
  PROVE  Covers'
BY KeptCovers DEF SameTask

LEMMA InitCovers == Init => Covers
BY ClosedType DEF Init, Covers, PreviousCovers, ViewPublished, OwnedShown, DiagnosticsOwned,
       OpenDocs

LEMMA NextCovers == Inv /\ Tasks /\ Covers /\ [Next]_vars => Covers'
<1> SUFFICES ASSUME Inv, Tasks, Covers, [Next]_vars
             PROVE  Covers'
  OBVIOUS
<1>1. CASE Client
  <2>1. CASE \E u \in Uris, v \in OpenVersions, t \in Texts : t \in Edits[u] /\ DidOpen(u, v, t)
    BY <2>1, DidOpenRenews, QuietRenewalCovers DEF DidOpen
  <2>2. CASE \E u \in Uris, v \in 1..MaxVersion, t \in Texts :
               t \in Edits[u] /\ DidChange(u, v, t)
    BY <2>2, DidChangeRenews, QuietRenewalCovers DEF DidChange
  <2>3. CASE \E u \in Uris : DidSave(u)
    BY <2>3, DidSaveCovers
  <2>4. CASE \E u \in Uris : DidClose(u)
    BY <2>4, DidCloseCovers
  <2>5. CASE \E F \in SUBSET unwatched \ {{}} : DidChangeWatchedFiles(F)
    BY <2>5, WatchedRenews, QuietRenewalCovers DEF DidChangeWatchedFiles
  <2>6. CASE \E s \in Settings : DidChangeConfiguration(s)
    BY <2>6, ConfigurationRenews, QuietRenewalCovers DEF DidChangeConfiguration
  <2>7. CASE Shutdown
    BY <2>7, ShutdownRenews, QuietRenewalCovers DEF Shutdown
  <2> QED BY <1>1, <2>1, <2>2, <2>3, <2>4, <2>5, <2>6, <2>7 DEF Client
<1>2. CASE Runtime
  <2>1. CASE \E j \in jobs :
               \/ StartProcessing(j) \/ FinishProcessing(j)
               \/ StartValidation(j) \/ FinishValidation(j)
               \/ \E f \in Files : ReadResource(j, f) \/ CheckObservation(j, f)
    BY <2>1, RuntimeCovers
  <2>2. CASE AbandonedReturn
    BY <2>2, IdleCovers DEF AbandonedReturn, session
  <2>3. CASE \E j \in jobs : ProjectProcessingCompleted(j) \/ ProjectValidationCompleted(j)
    BY <2>3, EventCovers
  <2> QED BY <1>2, <2>1, <2>2, <2>3 DEF Runtime
<1>3. CASE Environment
  BY <1>3, IdleCovers DEF Environment, WriteFile, session
<1>4. CASE UNCHANGED vars
  BY <1>4, IdleCovers DEF vars, session
<1> QED BY <1>1, <1>2, <1>3, <1>4 DEF Next

(* A client that keeps to the protocol never displays diagnostics that     *)
(* nothing would clear: each belongs to an open document that publishes    *)
(* at that place.                                                          *)
THEOREM ShownIsOwned == Spec => [](StrictClient => DiagnosticsOwned)
<1>1. Init => Inv /\ Tasks /\ Covers
  BY InitInv, InitTasks, InitCovers
<1>2. Inv /\ Tasks /\ Covers /\ [Next]_vars => (Inv /\ Tasks /\ Covers)'
  BY NextInv, NextTasks, NextCovers
<1>3. Covers => (StrictClient => DiagnosticsOwned)
  BY DEF Covers, OwnedShown
<1> QED BY <1>1, <1>2, <1>3, PTL DEF Spec

-----------------------------------------------------------------------------
(* Files on disk. *)

(* A result observes what it read, ...                                     *)
ReadsObserved ==
  \A r \in OpenDocs(docs) : \A f \in Files :
    docs[r].status # "pending" /\ docs[r].read[f] # Unread => f \in observations[r]

(* ... and so does an analysis from the moment it is queued for validation. *)
InValidation(j) == j.stage \in {"queued", "validating", "validated"}
PendingObserved ==
  running => \A j \in jobs : Awaited(j) /\ InValidation(j) =>
    pending[j.uri].generation = j.generation /\ pending[j.uri].uris = Observed(j)

(* A file found unchanged by a validation still is, or its change is still *)
(* to be reported.                                                         *)
Checking(j) == j.stage = "validating" \/ (j.stage = "validated" /\ j.valid)
FoundUnchanged(j) ==
  /\ \A f \in Candidates(j) \ j.unchecked : disk[f] = j.read[f] \/ f \in unwatched
  /\ j.stage = "validated" => j.unchecked = {}
Validated == running => \A j \in jobs : Awaited(j) /\ Checking(j) => FoundUnchanged(j)

RejectedUnread == \A j \in jobs : Rejected(j) => j.read[Config] = Unread

Watched ==
  /\ ReadsObserved /\ PendingObserved /\ Validated /\ RejectedUnread
  /\ DiskChangeAnnounced

(* What a task observes depends on what it captured and read.              *)
LEMMA ObservedBy ==
  ASSUME NEW j, NEW k, k.uri = j.uri, k.captured = j.captured, k.read = j.read
  PROVE  /\ Rejected(k) = Rejected(j)
         /\ Observed(k) = Observed(j) /\ Candidates(k) = Candidates(j)
<1>1. \A f : Known(k, f) = Known(j, f)
  BY DEF Known
<1>2. Needed(k) = Needed(j)
  BY <1>1 DEF Needed
<1>3. Rejected(k) = Rejected(j) /\ ConfigFailed(k) = ConfigFailed(j)
  BY DEF Rejected, ConfigFailed
<1>4. Observed(k) = Observed(j)
  BY <1>2, <1>3 DEF Observed
<1> QED BY <1>3, <1>4 DEF Candidates

LEMMA RenewalWatches ==
  ASSUME Inv, Watched, NEW D, NEW A, NEW N, Renews(D, A, N), Watches(D)
  PROVE  Watched'
<1>1. \A k \in jobs' : k \notin jobs => k.stage = "waiting" /\ k.read = Nothing
  BY DEF Renews, RenewsTasks, Fresh
<1>2. \A u \in Uris \ D : docs'[u].open => docs'[u] = docs[u]
  BY DEF Renews, RenewsDocuments
<1>3. \A u \in D : docs'[u].status = "pending"
  BY DEF Renews, RenewsDocuments
<1>4. /\ disk' = disk /\ unwatched' \subseteq unwatched
      /\ \A u \in Uris \ D : docs'[u].open =>
           /\ observations'[u] = observations[u]
           /\ running' => pending'[u] = pending[u]
      /\ \A f \in unwatched \ unwatched' : \A u \in OpenDocs(docs) :
           f \in observations[u] \cup pending[u].uris => u \in D
  BY DEF Watches
<1>5. running' => running
  BY DEF Renews
<1>6. \A j \in jobs : Awaited(j)' =>
        j.uri \in Uris \ D /\ docs'[j.uri] = docs[j.uri] /\ Awaited(j)
  BY RenewedNotAwaited
<1>7. ReadsObserved'
  BY <1>2, <1>3, <1>4 DEF Watched, ReadsObserved, OpenDocs
<1>8. PendingObserved'
  <2> SUFFICES ASSUME running', NEW j \in jobs', Awaited(j)', InValidation(j)
               PROVE  /\ pending'[j.uri].generation = j.generation
                      /\ pending'[j.uri].uris = Observed(j)
    BY DEF PendingObserved, InValidation
  <2>1. j \in jobs
    BY <1>1 DEF InValidation
  <2>2. pending'[j.uri] = pending[j.uri]
    BY <1>4, <1>6, <2>1 DEF Awaited
  <2> QED BY <1>5, <1>6, <2>1, <2>2 DEF Watched, PendingObserved
<1>9. Validated'
  <2> SUFFICES ASSUME running', NEW j \in jobs', Awaited(j)', Checking(j)
               PROVE  FoundUnchanged(j)'
    BY DEF Validated, Checking
  <2>1. j \in jobs /\ InValidation(j)
    BY <1>1 DEF Checking, InValidation
  <2>2. FoundUnchanged(j)
    BY <1>5, <1>6, <2>1 DEF Watched, Validated
  <2>3. pending[j.uri].uris = Observed(j) /\ j.uri \in OpenDocs(docs) /\ j.uri \notin D
    BY <1>5, <1>6, <2>1 DEF Watched, PendingObserved, Awaited, OpenDocs
  <2>4. ASSUME NEW f \in Candidates(j) \ j.unchecked
        PROVE  disk'[f] = j.read[f] \/ f \in unwatched'
    BY <1>4, <2>2, <2>3, <2>4 DEF FoundUnchanged, Candidates
  <2> QED BY <2>2, <2>4 DEF FoundUnchanged
<1>10. RejectedUnread'
  <2>1. Nothing[Config] = Unread
    BY FilesFacts DEF Nothing
  <2> QED BY <1>1, <2>1 DEF Watched, RejectedUnread, Rejected
<1>11. DiskChangeAnnounced'
  <2> SUFFICES ASSUME running', NEW r \in Uris, docs'[r].open, NEW f \in Files,
                      docs'[r].status # "pending", docs'[r].read[f] # Unread,
                      f = Config \/ docs'[r].held[f] = 0,
                      docs'[r].read[f] # disk'[f]
               PROVE  f \in unwatched'
    BY DEF DiskChangeAnnounced, OpenDocs
  <2>1. r \notin D /\ docs'[r] = docs[r] /\ r \in OpenDocs(docs)
    BY <1>2, <1>3 DEF OpenDocs
  <2>2. f \in unwatched /\ f \in observations[r]
    BY <1>4, <1>5, <2>1 DEF Watched, DiskChangeAnnounced, ReadsObserved
  <2> QED BY <1>4, <2>1, <2>2
<1> QED BY <1>7, <1>8, <1>9, <1>10, <1>11 DEF Watched

(* A task becomes k, or ends if there is no k; no document changes.        *)
LEMMA AdvanceWatches ==
  ASSUME Watched, TaskOnly, NEW j \in jobs, NEW k, jobs' \subseteq jobs \cup {k},
         k \in jobs' =>
           /\ running /\ Awaited(k) /\ InValidation(k) =>
                /\ pending[k.uri].generation = k.generation
                /\ pending[k.uri].uris = Observed(k)
           /\ running /\ Awaited(k) /\ Checking(k) => FoundUnchanged(k)
           /\ Rejected(k) => k.read[Config] = Unread
  PROVE  Watched'
<1>1. UNCHANGED <<docs, observations, pending, running, disk, unwatched>>
  BY DEF TaskOnly, session
<1>2. ReadsObserved' /\ DiskChangeAnnounced'
  BY <1>1 DEF Watched, ReadsObserved, DiskChangeAnnounced
<1>3. PendingObserved'
  BY <1>1 DEF Watched, PendingObserved, Awaited
<1>4. Validated'
  BY <1>1 DEF Watched, Validated, Awaited, FoundUnchanged
<1>5. RejectedUnread'
  BY DEF Watched, RejectedUnread
<1> QED BY <1>2, <1>3, <1>4, <1>5 DEF Watched

LEMMA RuntimeWatches ==
  ASSUME Inv, Watched, NEW j \in jobs,
         \/ StartProcessing(j) \/ FinishProcessing(j)
         \/ StartValidation(j) \/ FinishValidation(j)
         \/ \E f \in Files : ReadResource(j, f) \/ CheckObservation(j, f)
  PROVE  Watched'
<1>1. j \in Job /\ TaskOnly
  BY RuntimeStep DEF Inv, TypeOK
<1>2. /\ running /\ Awaited(j) /\ InValidation(j) =>
           /\ pending[j.uri].generation = j.generation
           /\ pending[j.uri].uris = Observed(j)
      /\ running /\ Awaited(j) /\ Checking(j) => FoundUnchanged(j)
      /\ Rejected(j) => j.read[Config] = Unread
  BY DEF Watched, PendingObserved, Validated, RejectedUnread
<1>3. CASE jobs' = jobs \ {j}
  BY <1>1, <1>3, AdvanceWatches
<1>4. CASE \/ /\ StartProcessing(j)
              /\ Advance(j, [j EXCEPT !.stage = "processing"])
           \/ FinishProcessing(j)
  <2>1. PICK s \in {"processing", "processed"} : Advance(j, [j EXCEPT !.stage = s])
    BY <1>4 DEF FinishProcessing
  <2> DEFINE k == [j EXCEPT !.stage = s]
  <2>2. k.stage = s /\ k.uri = j.uri /\ k.read = j.read
    BY <1>1 DEF Job
  <2>3. jobs' = (jobs \ {j}) \cup {k}
    BY <2>1 DEF Advance
  <2> HIDE DEF k
  <2>4. ~InValidation(k) /\ ~Checking(k) /\ (Rejected(k) => k.read[Config] = Unread)
    BY <1>2, <2>2 DEF InValidation, Checking, Rejected
  <2> QED BY <1>1, <2>3, <2>4, AdvanceWatches
<1>5. CASE /\ StartValidation(j)
           /\ Advance(j, [j EXCEPT !.stage = "validating", !.unchecked = Candidates(j)])
  <2> DEFINE k == [j EXCEPT !.stage = "validating", !.unchecked = Candidates(j)]
  <2>1. /\ k.uri = j.uri /\ k.generation = j.generation /\ k.captured = j.captured
        /\ k.read = j.read /\ k.stage = "validating" /\ k.unchecked = Candidates(j)
        /\ jobs' = (jobs \ {j}) \cup {k} /\ j.stage = "queued"
    BY <1>1, <1>5 DEF Job, Advance, StartValidation
  <2> HIDE DEF k
  <2>2. /\ Observed(k) = Observed(j) /\ Candidates(k) = Candidates(j)
        /\ Rejected(k) = Rejected(j)
    BY <2>1, ObservedBy
  <2>3. FoundUnchanged(k)
    BY <2>1, <2>2 DEF FoundUnchanged
  <2>4. InValidation(j) /\ (Awaited(k) => Awaited(j))
    BY <2>1 DEF InValidation, Awaited
  <2> QED BY <1>1, <1>2, <2>1, <2>2, <2>3, <2>4, AdvanceWatches
<1>6. CASE FinishValidation(j)
  <2>1. PICK b \in BOOLEAN :
          /\ b => j.unchecked = {}
          /\ Advance(j, [j EXCEPT !.stage = "validated", !.unchecked = {}, !.valid = b])
    BY <1>6 DEF FinishValidation
  <2> DEFINE k == [j EXCEPT !.stage = "validated", !.unchecked = {}, !.valid = b]
  <2>2. /\ k.uri = j.uri /\ k.generation = j.generation /\ k.captured = j.captured
        /\ k.read = j.read /\ k.stage = "validated" /\ k.unchecked = {} /\ k.valid = b
        /\ jobs' = (jobs \ {j}) \cup {k} /\ j.stage = "validating"
    BY <1>1, <1>6, <2>1 DEF Job, Advance, FinishValidation
  <2> HIDE DEF k
  <2>3. /\ Observed(k) = Observed(j) /\ Candidates(k) = Candidates(j)
        /\ Rejected(k) = Rejected(j)
    BY <2>2, ObservedBy
  <2>4. InValidation(j) /\ Checking(j) /\ (Awaited(k) => Awaited(j))
    BY <2>2 DEF InValidation, Checking, Awaited
  <2>5. running /\ Awaited(k) /\ Checking(k) => FoundUnchanged(k)
    BY <1>2, <2>1, <2>2, <2>3, <2>4 DEF FoundUnchanged, Checking
  <2> QED BY <1>1, <1>2, <2>2, <2>3, <2>4, <2>5, AdvanceWatches
<1>7. CASE \E f \in Files : ReadResource(j, f)
  <2>1. PICK f \in Files : ReadResource(j, f)
    BY <1>7
  <2> DEFINE k == [j EXCEPT !.read[f] = disk[f]]
  <2>2. k.uri = j.uri /\ k.stage = "processing" /\ jobs' = (jobs \ {j}) \cup {k}
    BY <1>1, <2>1 DEF Job, Advance, ReadResource
  <2> HIDE DEF k
  <2>3. ~Rejected(j)
    BY <2>1 DEF ReadResource, Frontier
  <2>4. ~InValidation(k) /\ ~Checking(k) /\ ~Rejected(k)
    BY <2>2, <2>3 DEF InValidation, Checking, Rejected
  <2> QED BY <1>1, <2>2, <2>4, AdvanceWatches
<1>8. CASE \E f \in Files : CheckObservation(j, f)
  <2>1. PICK f \in Files : CheckObservation(j, f)
    BY <1>8
  <2> DEFINE k == [j EXCEPT !.unchecked = @ \ {f}]
  <2>2. /\ k.uri = j.uri /\ k.generation = j.generation /\ k.captured = j.captured
        /\ k.read = j.read /\ k.stage = j.stage /\ k.unchecked = j.unchecked \ {f}
        /\ jobs' = (jobs \ {j}) \cup {k} /\ j.stage = "validating" /\ disk[f] = j.read[f]
    BY <1>1, <2>1 DEF Job, Advance, CheckObservation
  <2> HIDE DEF k
  <2>3. /\ Observed(k) = Observed(j) /\ Candidates(k) = Candidates(j)
        /\ Rejected(k) = Rejected(j)
    BY <2>2, ObservedBy
  <2>4. InValidation(j) /\ Checking(j) /\ (Awaited(k) => Awaited(j))
    BY <2>2 DEF InValidation, Checking, Awaited
  <2>5. running /\ Awaited(k) /\ Checking(k) => FoundUnchanged(k)
    BY <1>2, <2>2, <2>3, <2>4 DEF FoundUnchanged
  <2> QED BY <1>1, <1>2, <2>2, <2>3, <2>4, <2>5, AdvanceWatches
<1> QED BY <1>3, <1>4, <1>5, <1>6, <1>7, <1>8 DEF StartProcessing, StartValidation

(* The task j ends; what is observed of its document no longer matters.    *)
LEMMA EndWatches ==
  ASSUME Inv, Tasks, Watched, NEW j \in jobs, jobs' = jobs \ {j},
         UNCHANGED <<nextGeneration, running, disk, unwatched>>,
         pending' = pending \/ ClearPending(j)
  PROVE  /\ docs' = docs /\ observations' = observations => Watched'
         /\ RejectedUnread'
         /\ \A u \in Uris : pending'[u] = pending[u] \/ (u = j.uri /\ pending[u].generation = j.generation)
<1>1. \A u \in Uris : \/ pending'[u] = pending[u]
                      \/ u = j.uri /\ pending[u].generation = j.generation
  BY DEF ClearPending, Inv, TypeOK
<1>2. RejectedUnread'
  BY DEF Watched, RejectedUnread
<1>3. ASSUME docs' = docs, observations' = observations
      PROVE  Watched'
  <2>1. ReadsObserved' /\ DiskChangeAnnounced'
    BY <1>3 DEF Watched, ReadsObserved, DiskChangeAnnounced
  <2>2. PendingObserved'
    <3> SUFFICES ASSUME running, NEW k \in jobs', Awaited(k), InValidation(k)
                 PROVE  /\ pending'[k.uri].generation = k.generation
                        /\ pending'[k.uri].uris = Observed(k)
      BY <1>3 DEF PendingObserved, Awaited
    <3>1. k \in jobs /\ k # j /\ k.uri \in Uris
      BY Generations
    <3>2. pending[k.uri].generation = k.generation /\ pending[k.uri].uris = Observed(k)
      BY <3>1 DEF Watched, PendingObserved
    <3>3. pending'[k.uri] = pending[k.uri]
      BY <1>1, <3>1, <3>2 DEF Tasks, OneJob
    <3> QED BY <3>2, <3>3
  <2>3. Validated'
    BY <1>3 DEF Watched, Validated, Awaited, FoundUnchanged
  <2> QED BY <1>2, <2>1, <2>2, <2>3 DEF Watched
<1> QED BY <1>1, <1>2, <1>3

(* What an adopted result read is observed, ...                            *)
LEMMA AdoptedObserved ==
  ASSUME Inv, Watched, NEW j \in jobs, NEW f \in Files, Adopted(j).read[f] # Unread
  PROVE  /\ f \in Observed(j) /\ ~Rejected(j)
         /\ f = Config => Adopted(j).read[f] = j.read[f]
         /\ f # Config => /\ f \in DocFiles /\ Adopted(j).read[f] = Known(j, f)
                          /\ Adopted(j).held[f] = j.captured[f].version
<1> DEFINE kept == IF Rejected(j) \/ ConfigFailed(j) THEN {} ELSE Needed(j)
<1>1. /\ Adopted(j).read[Config] = j.read[Config]
      /\ \A g \in DocFiles :
           /\ Adopted(j).read[g] = IF g \in kept THEN Known(j, g) ELSE Unread
           /\ Adopted(j).held[g] = IF g \in kept THEN j.captured[g].version ELSE 0
  BY AdoptedReads DEF Inv
<1>2. f \in DocFiles \/ f = Config
  BY DEF Files
<1>3. ~Rejected(j)
  <2> SUFFICES ASSUME Rejected(j)
               PROVE  FALSE
    OBVIOUS
  <2>1. j.read[Config] = Unread
    BY DEF Watched, RejectedUnread
  <2> QED BY <1>1, <1>2, <2>1
<1>4. f = Config \/ (f \in DocFiles /\ f \in kept)
  BY <1>1, <1>2
<1>5. f \in Observed(j)
  BY <1>3, <1>4 DEF Observed
<1>6. f # Config => /\ Adopted(j).read[f] = Known(j, f)
                   /\ Adopted(j).held[f] = j.captured[f].version
  <2> HIDE DEF kept
  <2> QED BY <1>1, <1>4
<1> QED BY <1>1, <1>2, <1>3, <1>5, <1>6

(* ... and what of it is no longer on disk is still to be reported.        *)
LEMMA AdoptedAnnounced ==
  ASSUME Inv, Tasks, Watched, NEW j \in jobs, running, SnapshotIsCurrent(j),
         Rejected(j) \/ (j.stage = "validated" /\ j.valid),
         NEW f \in Files, Adopted(j).read[f] # Unread,
         f = Config \/ Adopted(j).held[f] = 0, Adopted(j).read[f] # disk[f]
  PROVE  f \in unwatched
<1>1. /\ f \in Observed(j) /\ ~Rejected(j)
      /\ f = Config => Adopted(j).read[f] = j.read[f]
      /\ f # Config => /\ f \in DocFiles /\ Adopted(j).read[f] = Known(j, f)
                       /\ Adopted(j).held[f] = j.captured[f].version
  BY AdoptedObserved
<1>2. FoundUnchanged(j) /\ j.unchecked = {}
  BY <1>1 DEF Watched, Validated, FoundUnchanged, Awaited, SnapshotIsCurrent, Checking
<1>3. \A g \in Candidates(j) : disk[g] = j.read[g] \/ g \in unwatched
  BY <1>2 DEF FoundUnchanged
<1>4. CASE f = Config
  BY <1>1, <1>3, <1>4 DEF Candidates
<1>5. CASE f # Config
  <2>1. f \in Uris /\ j.captured[f].version = 0
    BY <1>1, <1>5, FilesFacts
  <2>2. j.captured[f].generation = 0
    BY <2>1 DEF Tasks, Versioned
  <2>3. Adopted(j).read[f] = j.read[f]
    BY <1>1, <1>5, <2>2 DEF Known
  <2> QED BY <1>1, <1>3, <2>2, <2>3 DEF Candidates
<1> QED BY <1>4, <1>5

LEMMA AdoptWatches ==
  ASSUME Inv, Tasks, Watched, NEW j \in jobs, SnapshotIsCurrent(j), Adopt(j),
         Rejected(j) \/ (j.stage = "validated" /\ j.valid),
         pending' = pending \/ ClearPending(j)
  PROVE  Watched'
<1>1. /\ docs' = [docs EXCEPT ![j.uri] = Adopted(j)] /\ jobs' = jobs \ {j}
      /\ observations' = [observations EXCEPT ![j.uri] = Observed(j)]
      /\ UNCHANGED <<nextGeneration, running, disk, unwatched>>
      /\ j.uri \in Uris /\ docs \in [Uris -> Document]
      /\ observations \in [Uris -> SUBSET (Uris \cup {Config})]
  BY DEF Adopt, Inv, TypeOK, Job
<1>2. /\ docs'[j.uri] = Adopted(j) /\ observations'[j.uri] = Observed(j)
      /\ \A u \in Uris : u # j.uri => docs'[u] = docs[u] /\ observations'[u] = observations[u]
      /\ docs'[j.uri].open = docs[j.uri].open
      /\ docs'[j.uri].generation = docs[j.uri].generation
  BY <1>1, AdoptedType DEF Inv
<1>3. docs[j.uri].open /\ docs[j.uri].generation = j.generation
  BY DEF SnapshotIsCurrent
<1>4. \A k \in jobs' : Awaited(k)' =>
        k \in jobs /\ k.uri \in Uris /\ k.uri # j.uri /\ Awaited(k)
  <2> SUFFICES ASSUME NEW k \in jobs', Awaited(k)'
               PROVE  k \in jobs /\ k.uri \in Uris /\ k.uri # j.uri /\ Awaited(k)
    OBVIOUS
  <2>1. k \in jobs /\ k # j /\ k.uri \in Uris
    BY <1>1, Generations
  <2>2. k.uri # j.uri
    BY <1>2, <1>3, <2>1 DEF Awaited, Tasks, OneJob
  <2> QED BY <1>2, <2>1, <2>2 DEF Awaited
<1>5. /\ RejectedUnread'
      /\ \A u \in Uris : u # j.uri => pending'[u] = pending[u]
  BY <1>1, EndWatches
<1>6. PendingObserved' /\ Validated'
  BY <1>1, <1>4, <1>5 DEF Watched, PendingObserved, Validated, FoundUnchanged
<1>7. ReadsObserved'
  <2> SUFFICES ASSUME NEW r \in Uris, docs'[r].open, NEW f \in Files,
                      docs'[r].status # "pending", docs'[r].read[f] # Unread
               PROVE  f \in observations'[r]
    BY DEF ReadsObserved, OpenDocs
  <2>1. CASE r # j.uri
    BY <1>2, <2>1 DEF Watched, ReadsObserved, OpenDocs
  <2>2. CASE r = j.uri
    <3>1. Adopted(j).read[f] # Unread
      BY <1>2, <2>2
    <3>2. f \in Observed(j)
      BY <3>1, AdoptedObserved
    <3> QED BY <1>2, <2>2, <3>2
  <2> QED BY <2>1, <2>2
<1>8. DiskChangeAnnounced'
  <2> SUFFICES ASSUME running, NEW r \in Uris, docs'[r].open, NEW f \in Files,
                      docs'[r].status # "pending", docs'[r].read[f] # Unread,
                      f = Config \/ docs'[r].held[f] = 0,
                      docs'[r].read[f] # disk[f]
               PROVE  f \in unwatched
    BY <1>1 DEF DiskChangeAnnounced, OpenDocs
  <2>1. CASE r # j.uri
    BY <1>2, <2>1 DEF Watched, DiskChangeAnnounced, OpenDocs
  <2>2. CASE r = j.uri
    BY <1>2, <2>2, AdoptedAnnounced
  <2> QED BY <2>1, <2>2
<1> QED BY <1>5, <1>6, <1>7, <1>8 DEF Watched

LEMMA QueueWatches ==
  ASSUME Inv, Tasks, Watched, NEW j \in jobs, SnapshotIsCurrent(j),
         Advance(j, [j EXCEPT !.stage = "queued"]),
         pending' = [pending EXCEPT ![j.uri] =
                       [generation |-> j.generation, uris |-> Observed(j)]],
         UNCHANGED <<docs, nextGeneration, cancelled, observations, settings, abandoned,
                     running, disk, unwatched, shown>>
  PROVE  Watched'
<1> DEFINE k == [j EXCEPT !.stage = "queued"]
<1>1. /\ k.uri = j.uri /\ k.generation = j.generation /\ k.captured = j.captured
      /\ k.read = j.read /\ k.stage = "queued" /\ jobs' = (jobs \ {j}) \cup {k}
      /\ j.uri \in Uris
  BY DEF Inv, TypeOK, Job, Advance
<1>2. pending'[j.uri] = [generation |-> j.generation, uris |-> Observed(j)]
      /\ \A u \in Uris : u # j.uri => pending'[u] = pending[u]
  BY <1>1 DEF Inv, TypeOK
<1> HIDE DEF k
<1>3. Observed(k) = Observed(j) /\ Rejected(k) = Rejected(j)
  BY <1>1, ObservedBy
<1>4. ReadsObserved' /\ DiskChangeAnnounced'
  BY DEF Watched, ReadsObserved, DiskChangeAnnounced
<1>5. PendingObserved'
  <2> SUFFICES ASSUME running, NEW i \in jobs', Awaited(i), InValidation(i)
               PROVE  /\ pending'[i.uri].generation = i.generation
                      /\ pending'[i.uri].uris = Observed(i)
    BY DEF PendingObserved, Awaited
  <2>1. CASE i = k
    BY <1>1, <1>2, <1>3, <2>1
  <2>2. CASE i # k
    <3>1. i \in jobs /\ i # j /\ i.uri \in Uris
      BY <1>1, <2>2, Generations
    <3>2. i.uri # j.uri
      BY <3>1 DEF Awaited, SnapshotIsCurrent, Tasks, OneJob
    <3> QED BY <1>2, <3>1, <3>2 DEF Watched, PendingObserved
  <2> QED BY <2>1, <2>2
<1>6. Validated'
  <2>1. ~Checking(k)
    BY <1>1 DEF Checking
  <2> QED BY <1>1, <2>1 DEF Watched, Validated, Awaited, FoundUnchanged
<1>7. RejectedUnread'
  BY <1>1, <1>3 DEF Watched, RejectedUnread
<1> QED BY <1>4, <1>5, <1>6, <1>7 DEF Watched

LEMMA EventWatches ==
  ASSUME Inv, Tasks, Watched, NEW j \in jobs,
         ProjectProcessingCompleted(j) \/ ProjectValidationCompleted(j)
  PROVE  Watched'
<1>1. CASE Ignore(j) /\ (pending' = pending \/ ClearPending(j))
  BY <1>1, EndWatches DEF Ignore
<1>2. CASE SnapshotIsCurrent(j) /\ Retry(j)
  BY <1>2, RetryRenews, RenewalWatches
<1>3. CASE /\ SnapshotIsCurrent(j) /\ Adopt(j)
           /\ Rejected(j) \/ (j.stage = "validated" /\ j.valid)
           /\ pending' = pending \/ ClearPending(j)
  BY <1>3, AdoptWatches
<1>4. CASE /\ SnapshotIsCurrent(j)
           /\ Advance(j, [j EXCEPT !.stage = "queued"])
           /\ pending' = [pending EXCEPT ![j.uri] =
                            [generation |-> j.generation, uris |-> Observed(j)]]
           /\ UNCHANGED <<docs, nextGeneration, cancelled, observations, settings, abandoned,
                          running, disk, unwatched, shown>>
  BY <1>4, QueueWatches
<1> QED BY <1>1, <1>2, <1>3, <1>4
        DEF ProjectProcessingCompleted, ProjectValidationCompleted

LEMMA WriteFileWatches ==
  ASSUME Inv, Watched, NEW f \in Files, NEW c, WriteFile(f, c)
  PROVE  Watched'
<1>1. /\ UNCHANGED <<docs, observations, pending, jobs, running>>
      /\ \A g \in Files : disk'[g] = disk[g] \/ g \in unwatched'
      /\ unwatched \subseteq unwatched'
  BY DEF WriteFile, session, Inv, TypeOK
<1>2. ReadsObserved' /\ PendingObserved' /\ RejectedUnread'
  BY <1>1 DEF Watched, ReadsObserved, PendingObserved, RejectedUnread, Awaited
<1>3. Validated'
  <2> SUFFICES ASSUME running, NEW j \in jobs, Awaited(j), Checking(j)
               PROVE  FoundUnchanged(j)'
    BY <1>1 DEF Validated, Awaited, Checking
  <2>1. FoundUnchanged(j)
    BY DEF Watched, Validated
  <2>2. Candidates(j) \subseteq Files
    BY NeededDocuments, FilesFacts DEF Candidates, Observed
  <2>3. \A g \in Candidates(j) \ j.unchecked : disk'[g] = j.read[g] \/ g \in unwatched'
    BY <1>1, <2>1, <2>2 DEF FoundUnchanged
  <2> QED BY <2>1, <2>3 DEF FoundUnchanged
<1>4. DiskChangeAnnounced'
  <2> SUFFICES ASSUME running, NEW r \in OpenDocs(docs), NEW g \in Files,
                      docs[r].status # "pending", docs[r].read[g] # Unread,
                      g = Config \/ docs[r].held[g] = 0,
                      docs[r].read[g] # disk'[g], g \notin unwatched'
               PROVE  FALSE
    BY <1>1 DEF DiskChangeAnnounced
  <2>1. disk'[g] = disk[g] /\ g \notin unwatched
    BY <1>1
  <2> QED BY <2>1 DEF Watched, DiskChangeAnnounced
<1> QED BY <1>2, <1>3, <1>4 DEF Watched

LEMMA IdleWatches ==
  ASSUME Watched, UNCHANGED <<docs, observations, pending, jobs, running, disk, unwatched>>
  PROVE  Watched'
BY DEF Watched, ReadsObserved, PendingObserved, RejectedUnread, Validated, FoundUnchanged,
       DiskChangeAnnounced, Awaited

LEMMA InitWatched == Init => Watched
BY ClosedType DEF Init, Watched, ReadsObserved, PendingObserved, RejectedUnread, Validated,
       DiskChangeAnnounced, OpenDocs

LEMMA NextWatched == Inv /\ Tasks /\ Watched /\ [Next]_vars => Watched'
<1> SUFFICES ASSUME Inv, Tasks, Watched, [Next]_vars
             PROVE  Watched'
  OBVIOUS
<1>1. CASE Client
  <2>1. CASE \E u \in Uris, v \in OpenVersions, t \in Texts : t \in Edits[u] /\ DidOpen(u, v, t)
    BY <2>1, DidOpenRenews, RenewalWatches
  <2>2. CASE \E u \in Uris, v \in 1..MaxVersion, t \in Texts :
               t \in Edits[u] /\ DidChange(u, v, t)
    BY <2>2, DidChangeRenews, RenewalWatches
  <2>3. CASE \E u \in Uris : DidSave(u)
    BY <2>3, IdleWatches DEF DidSave, session
  <2>4. CASE \E u \in Uris : DidClose(u)
    BY <2>4, DidCloseRenews, RenewalWatches
  <2>5. CASE \E F \in SUBSET unwatched \ {{}} : DidChangeWatchedFiles(F)
    BY <2>5, WatchedRenews, RenewalWatches
  <2>6. CASE \E s \in Settings : DidChangeConfiguration(s)
    BY <2>6, ConfigurationRenews, RenewalWatches
  <2>7. CASE Shutdown
    BY <2>7, ShutdownRenews, RenewalWatches
  <2> QED BY <1>1, <2>1, <2>2, <2>3, <2>4, <2>5, <2>6, <2>7 DEF Client
<1>2. CASE Runtime
  <2>1. CASE \E j \in jobs :
               \/ StartProcessing(j) \/ FinishProcessing(j)
               \/ StartValidation(j) \/ FinishValidation(j)
               \/ \E f \in Files : ReadResource(j, f) \/ CheckObservation(j, f)
    BY <2>1, RuntimeWatches
  <2>2. CASE AbandonedReturn
    BY <2>2, IdleWatches DEF AbandonedReturn, session
  <2>3. CASE \E j \in jobs : ProjectProcessingCompleted(j) \/ ProjectValidationCompleted(j)
    BY <2>3, EventWatches
  <2> QED BY <1>2, <2>1, <2>2, <2>3 DEF Runtime
<1>3. CASE Environment
  BY <1>3, WriteFileWatches DEF Environment
<1>4. CASE UNCHANGED vars
  BY <1>4, IdleWatches DEF vars, session
<1> QED BY <1>1, <1>2, <1>3, <1>4 DEF Next

(* No result rests on file content that is gone from disk unless the       *)
(* report that will replace the result is still to come: whatever the      *)
(* client does, and however writes, reads, validations and watch           *)
(* notifications interleave.                                               *)
THEOREM DiskChangesNoticed == Spec => []DiskChangeAnnounced
<1>1. Init => Inv /\ Tasks /\ Watched
  BY InitInv, InitTasks, InitWatched
<1>2. Inv /\ Tasks /\ Watched /\ [Next]_vars => (Inv /\ Tasks /\ Watched)'
  BY NextInv, NextTasks, NextWatched
<1>3. Watched => DiskChangeAnnounced
  BY DEF Watched
<1> QED BY <1>1, <1>2, <1>3, PTL DEF Spec

-----------------------------------------------------------------------------
(* What is displayed in the end. *)

(* For a document that has its result, what the client displays is already *)
(* what the document says.                                                 *)
Settled ==
  StrictClient => \A r \in OpenDocs(docs) : docs[r].status # "pending" =>
    \A u \in Uris : r \in shown[u] <=> r \in Contributions(docs, u)

(* A document's contribution depends on it and on the version of the other.  *)
LEMMA SameContribution ==
  ASSUME NEW u \in Uris, NEW r \in Uris, docs'[r] = docs[r],
         (/\ u \in DocFiles /\ r # u /\ docs[r].open /\ docs[r].status = "view"
          /\ docs[r].read[u] \in Texts)
           => docs'[u].open = docs[u].open /\ docs'[u].version = docs[u].version
  PROVE  r \in Contributions(docs', u) <=> r \in Contributions(docs, u)
BY DEF Contributions, OpenDocs

LEMMA RenewalContributions ==
  ASSUME Inv, Watched, NEW D, NEW A, NEW N, Renews(D, A, N), Watches(D),
         NEW u \in Uris, NEW r \in Uris, docs'[r].open, docs'[r].status # "pending"
  PROVE  /\ docs'[r] = docs[r]
         /\ r \in Contributions(docs', u) <=> r \in Contributions(docs, u)
<1>1. r \notin D /\ docs'[r] = docs[r]
  BY DEF Renews, RenewsDocuments
<1>2. ASSUME u \in DocFiles, r # u, docs[r].open, docs[r].status = "view",
             docs[r].read[u] \in Texts
      PROVE  docs'[u].open = docs[u].open /\ docs'[u].version = docs[u].version
  <2>1. u \in observations[r] /\ r \in OpenDocs(docs) \ {u}
    BY <1>2, FilesFacts, SessionAssumption DEF Watched, ReadsObserved, OpenDocs
  <2> QED BY <1>1, <1>2, <2>1 DEF Watches
<1> QED BY <1>1, <1>2, SameContribution

LEMMA QuietRenewalSettles ==
  ASSUME Inv, Watched, Settled, NEW D, NEW A, NEW N, Renews(D, A, N), Watches(D),
         shown' = shown
  PROVE  Settled'
<1> SUFFICES ASSUME StrictClient, NEW r \in Uris, docs'[r].open, docs'[r].status # "pending",
                    NEW u \in Uris
             PROVE  r \in shown[u] <=> r \in Contributions(docs', u)
  BY DEF Settled, OpenDocs
<1> QED BY RenewalContributions DEF Settled, OpenDocs

LEMMA DidCloseSettles ==
  ASSUME Inv, Tasks, Watched, Settled, NEW u \in Uris, DidClose(u)
  PROVE  Settled'
<1> SUFFICES ASSUME StrictClient, NEW r \in Uris, docs'[r].open, docs'[r].status # "pending",
                    NEW w \in Uris
             PROVE  r \in shown'[w] <=> r \in Contributions(docs', w)
  BY DEF Settled, OpenDocs
<1>1. docs'[r] = docs[r] /\ (r \in Contributions(docs', w) <=> r \in Contributions(docs, w))
  BY DidCloseRenews, RenewalContributions
<1>2. Publish(docs', docs[u].published \cup {u})
  BY DEF DidClose
<1>3. CASE w \in docs[u].published \cup {u}
  BY <1>2, <1>3 DEF Publish
<1>4. CASE w \notin docs[u].published \cup {u}
  <2>1. shown'[w] = shown[w]
    BY <1>2, <1>4 DEF Publish
  <2> QED BY <1>1, <2>1 DEF Settled, OpenDocs
<1> QED BY <1>3, <1>4

LEMMA AdoptSettles ==
  ASSUME Inv, Tasks, Covers, Settled, NEW j \in jobs, SnapshotIsCurrent(j), Adopt(j)
  PROVE  Settled'
<1> SUFFICES ASSUME StrictClient, NEW r \in Uris, docs'[r].open, docs'[r].status # "pending",
                    NEW w \in Uris
             PROVE  r \in shown'[w] <=> r \in Contributions(docs', w)
  BY DEF Settled, OpenDocs
<1> DEFINE U == j.previous \cup docs'[j.uri].published
<1>1. /\ docs' = [docs EXCEPT ![j.uri] = Adopted(j)] /\ Publish(docs', U)
      /\ j.uri \in Uris /\ docs \in [Uris -> Document]
  BY DEF Adopt, Inv, TypeOK, Job
<1>2. /\ docs'[j.uri] = Adopted(j)
      /\ \A u \in Uris : u # j.uri => docs'[u] = docs[u]
      /\ \A u \in Uris : docs'[u].open = docs[u].open /\ docs'[u].version = docs[u].version
  BY <1>1, AdoptedType DEF Inv
<1>3. CASE w \in U
  BY <1>1, <1>3 DEF Publish
<1>4. CASE w \notin U /\ r # j.uri
  <2>1. shown'[w] = shown[w] /\ docs'[r] = docs[r]
    BY <1>1, <1>2, <1>4 DEF Publish
  <2>2. r \in Contributions(docs', w) <=> r \in Contributions(docs, w)
    BY <1>2, <2>1, SameContribution
  <2> QED BY <2>1, <2>2 DEF Settled, OpenDocs
<1>5. CASE w \notin U /\ r = j.uri
  <2>1. docs'[r].published \subseteq U /\ r \in docs'[r].published
    BY <1>2, <1>5, AdoptedReads DEF Inv
  <2>2. r \notin Contributions(docs', w)
    <3>1. \A q \in OpenDocs(docs') : \A x \in DocFiles :
            docs'[q].status = "view" /\ docs'[q].read[x] \in Texts => x \in docs'[q].published
      BY AdoptCovers DEF Covers, ViewPublished
    <3> QED BY <1>5, <2>1, <3>1, ContributionsOwned
  <2>3. r \notin shown[w]
    <3> SUFFICES ASSUME r \in shown[w]
                 PROVE  FALSE
      OBVIOUS
    <3>1. w \in docs[r].published \cup {r}
      BY DEF Covers, OwnedShown, DiagnosticsOwned
    <3>2. docs[r].published \subseteq j.previous \cup {r}
      BY <1>5 DEF Covers, PreviousCovers, Awaited, SnapshotIsCurrent
    <3> QED BY <1>5, <2>1, <3>1, <3>2
  <2>4. shown'[w] = shown[w]
    BY <1>1, <1>5 DEF Publish
  <2> QED BY <2>2, <2>3, <2>4
<1> QED BY <1>3, <1>4, <1>5

LEMMA KeptSettles ==
  ASSUME Settled, docs' = docs, shown' = shown
  PROVE  Settled'
BY DEF Settled

LEMMA DidSaveSettles ==
  ASSUME Settled, NEW u \in Uris, DidSave(u)
  PROVE  Settled'
<1>1. docs' = docs /\ Publish(docs, {u})
  BY DEF DidSave, session
<1> QED BY <1>1 DEF Settled, Publish

LEMMA EventSettles ==
  ASSUME Inv, Tasks, Covers, Watched, Settled, NEW j \in jobs,
         ProjectProcessingCompleted(j) \/ ProjectValidationCompleted(j)
  PROVE  Settled'
<1>1. CASE docs' = docs /\ shown' = shown
  BY <1>1, KeptSettles
<1>2. CASE SnapshotIsCurrent(j) /\ Retry(j)
  <2>1. shown' = shown
    BY <1>2 DEF Retry
  <2> QED BY <1>2, <2>1, RetryRenews, QuietRenewalSettles
<1>3. CASE SnapshotIsCurrent(j) /\ Adopt(j)
  BY <1>3, AdoptSettles
<1> QED BY <1>1, <1>2, <1>3
        DEF ProjectProcessingCompleted, ProjectValidationCompleted, Ignore

LEMMA InitSettled == Init => Settled
BY ClosedType DEF Init, Settled, OpenDocs

LEMMA NextSettled ==
  Inv /\ Tasks /\ Covers /\ Watched /\ Settled /\ [Next]_vars => Settled'
<1> SUFFICES ASSUME Inv, Tasks, Covers, Watched, Settled, [Next]_vars
             PROVE  Settled'
  OBVIOUS
<1>1. CASE Client
  <2>1. CASE \E u \in Uris, v \in OpenVersions, t \in Texts : t \in Edits[u] /\ DidOpen(u, v, t)
    BY <2>1, DidOpenRenews, QuietRenewalSettles DEF DidOpen
  <2>2. CASE \E u \in Uris, v \in 1..MaxVersion, t \in Texts :
               t \in Edits[u] /\ DidChange(u, v, t)
    BY <2>2, DidChangeRenews, QuietRenewalSettles DEF DidChange
  <2>3. CASE \E u \in Uris : DidSave(u)
    BY <2>3, DidSaveSettles
  <2>4. CASE \E u \in Uris : DidClose(u)
    BY <2>4, DidCloseSettles
  <2>5. CASE \E F \in SUBSET unwatched \ {{}} : DidChangeWatchedFiles(F)
    BY <2>5, WatchedRenews, QuietRenewalSettles DEF DidChangeWatchedFiles
  <2>6. CASE \E s \in Settings : DidChangeConfiguration(s)
    BY <2>6, ConfigurationRenews, QuietRenewalSettles DEF DidChangeConfiguration
  <2>7. CASE Shutdown
    BY <2>7, ShutdownRenews, QuietRenewalSettles DEF Shutdown
  <2> QED BY <1>1, <2>1, <2>2, <2>3, <2>4, <2>5, <2>6, <2>7 DEF Client
<1>2. CASE Runtime
  <2>1. CASE \E j \in jobs :
               \/ StartProcessing(j) \/ FinishProcessing(j)
               \/ StartValidation(j) \/ FinishValidation(j)
               \/ \E f \in Files : ReadResource(j, f) \/ CheckObservation(j, f)
    BY <2>1, RuntimeStep, KeptSettles DEF TaskOnly, session
  <2>2. CASE AbandonedReturn
    BY <2>2, KeptSettles DEF AbandonedReturn, session
  <2>3. CASE \E j \in jobs : ProjectProcessingCompleted(j) \/ ProjectValidationCompleted(j)
    BY <2>3, EventSettles
  <2> QED BY <1>2, <2>1, <2>2, <2>3 DEF Runtime
<1>3. CASE Environment
  BY <1>3, KeptSettles DEF Environment, WriteFile, session
<1>4. CASE UNCHANGED vars
  BY <1>4, KeptSettles DEF vars, session
<1> QED BY <1>1, <1>2, <1>3, <1>4 DEF Next

(* When everything has been handled, a client that keeps to the protocol   *)
(* displays what the documents now say, in included documents too.         *)
THEOREM DiagnosticsSettled == Spec => [](StrictClient => DiagnosticsSettle)
<1> DEFINE All == Inv /\ Tasks /\ Covers /\ Watched /\ Settled
<1>1. Init => All
  BY InitInv, InitTasks, InitCovers, InitWatched, InitSettled
<1>2. All /\ [Next]_vars => All'
  BY NextInv, NextTasks, NextCovers, NextWatched, NextSettled
<1>3. All => (StrictClient => DiagnosticsSettle)
  <2> SUFFICES ASSUME All, StrictClient, running, jobs = {}, NEW u \in Uris
               PROVE  shown[u] = Contributions(docs, u)
    BY DEF DiagnosticsSettle, Quiescent
  <2>1. \A r \in OpenDocs(docs) : docs[r].status # "pending"
    BY DEF Tasks, Owed, AnalysisOwed
  <2>2. shown[u] \subseteq OpenDocs(docs)
    BY DEF Inv, TypeOK, Covers, OwnedShown, DiagnosticsOwned, OpenDocs
  <2>3. Contributions(docs, u) \subseteq OpenDocs(docs)
    BY DEF Contributions
  <2>4. \A r \in OpenDocs(docs) : r \in shown[u] <=> r \in Contributions(docs, u)
    BY <2>1 DEF Settled
  <2> QED BY <2>2, <2>3, <2>4
<1> HIDE DEF All
<1>4. Spec => []All
  BY <1>1, <1>2, PTL DEF Spec
<1> QED BY <1>3, <1>4, PTL

-----------------------------------------------------------------------------
(* One analysis. *)

(* A document waits for its current analysis, ...                          *)
AwaitedPending == \A j \in jobs : Awaited(j) => docs[j.uri].status = "pending"

(* ... which has read all it needs when its thread has returned, ...       *)
Returned(j) == j.stage \notin {"waiting", "processing"}
Thorough == \A j \in jobs : Returned(j) => Frontier(j) = {} \/ j.generation \in cancelled

(* ... and is not adopted any more once the server is shut down.           *)
Stopped == ~running => \A u \in OpenDocs(docs) : docs[u].generation \in cancelled

Owing == AwaitedPending /\ Thorough /\ Stopped

LEMMA CancelledGrow == [Next]_vars => cancelled \subseteq cancelled'
<1>1. \A d, P, U : Install(d, P, U) => cancelled \subseteq cancelled'
  BY DEF Install
<1> QED
  BY <1>1
     DEF Next, Client, Runtime, Environment, vars, session, DidOpen, DidChange, DidSave, DidClose,
         DidChangeWatchedFiles, DidChangeConfiguration, Shutdown, StartProcessing,
         ReadResource, FinishProcessing, StartValidation, CheckObservation, FinishValidation,
         AbandonedReturn, TaskOnly, ProjectProcessingCompleted, ProjectValidationCompleted,
         Ignore, Retry, Adopt, WriteFile

LEMMA FrontierBy ==
  ASSUME NEW j, NEW k, k.uri = j.uri, k.captured = j.captured, k.read = j.read
  PROVE  Frontier(k) = Frontier(j)
<1>1. \A f : Known(k, f) = Known(j, f)
  BY DEF Known
<1>2. Needed(k) = Needed(j)
  BY <1>1 DEF Needed
<1>3. Rejected(k) = Rejected(j) /\ ConfigFailed(k) = ConfigFailed(j)
  BY DEF Rejected, ConfigFailed
<1> QED BY <1>1, <1>2, <1>3 DEF Frontier

LEMMA RenewalOwing ==
  ASSUME Inv, Owing, NEW D, NEW A, NEW N, Renews(D, A, N), cancelled \subseteq cancelled',
         running' \/ \A u \in OpenDocs(docs') : docs'[u].generation \in cancelled'
  PROVE  Owing'
<1>1. \A k \in jobs' : k \notin jobs => k.stage = "waiting" /\ k.uri \in D
  BY DEF Renews, RenewsTasks, Fresh
<1>2. \A u \in D : docs'[u].status = "pending"
  BY DEF Renews, RenewsDocuments
<1>3. \A j \in jobs : Awaited(j)' =>
        j.uri \in Uris \ D /\ docs'[j.uri] = docs[j.uri] /\ Awaited(j)
  BY RenewedNotAwaited
<1>4. AwaitedPending'
  BY <1>1, <1>2, <1>3 DEF Owing, AwaitedPending
<1>5. Thorough'
  BY <1>1 DEF Owing, Thorough, Returned
<1> QED BY <1>4, <1>5 DEF Owing, Stopped

(* A task becomes k, or ends if there is no k; no document changes.        *)
LEMMA AdvanceOwing ==
  ASSUME Owing, UNCHANGED <<docs, cancelled, running>>, NEW j \in jobs, NEW k,
         jobs' \subseteq jobs \cup {k},
         k \in jobs' => /\ k.uri = j.uri /\ k.generation = j.generation
                        /\ Returned(k) => Frontier(k) = {} \/ k.generation \in cancelled
  PROVE  Owing'
<1>1. AwaitedPending'
  BY DEF Owing, AwaitedPending, Awaited
<1>2. Thorough'
  BY DEF Owing, Thorough, Returned
<1> QED BY <1>1, <1>2 DEF Owing, Stopped

LEMMA RuntimeOwing ==
  ASSUME Inv, Owing, NEW j \in jobs,
         \/ StartProcessing(j) \/ FinishProcessing(j)
         \/ StartValidation(j) \/ FinishValidation(j)
         \/ \E f \in Files : ReadResource(j, f) \/ CheckObservation(j, f)
  PROVE  Owing'
<1>1. j \in Job /\ TaskOnly
  BY RuntimeStep DEF Inv, TypeOK
<1>2. UNCHANGED <<docs, cancelled, running>>
  BY <1>1 DEF TaskOnly, session
<1>3. Returned(j) => Frontier(j) = {} \/ j.generation \in cancelled
  BY DEF Owing, Thorough
<1>4. CASE jobs' = jobs \ {j}
  BY <1>2, <1>4, AdvanceOwing
<1>5. CASE \E s \in {"waiting", "processing"}, f \in Files :
             \/ Advance(j, [j EXCEPT !.stage = s])
             \/ j.stage = "processing" /\ Advance(j, [j EXCEPT !.read[f] = disk[f]])
  <2>1. PICK s \in {"waiting", "processing"}, f \in Files :
             \/ Advance(j, [j EXCEPT !.stage = s])
             \/ j.stage = "processing" /\ Advance(j, [j EXCEPT !.read[f] = disk[f]])
    BY <1>5
  <2>2. ASSUME NEW k, k = [j EXCEPT !.stage = s] \/ (j.stage = "processing" /\ k = [j EXCEPT !.read[f] = disk[f]]),
               jobs' = (jobs \ {j}) \cup {k}
        PROVE  Owing'
    <3>1. k.uri = j.uri /\ k.generation = j.generation /\ ~Returned(k)
      BY <1>1, <2>2 DEF Job, Returned
    <3> QED BY <1>2, <2>2, <3>1, AdvanceOwing
  <2> QED BY <2>1, <2>2 DEF Advance
<1>6. ASSUME NEW k, jobs' = (jobs \ {j}) \cup {k}, k.uri = j.uri, k.generation = j.generation,
             k.captured = j.captured, k.read = j.read, Returned(j) \/ FinishProcessing(j)
      PROVE  Owing'
  <2>1. Frontier(j) = {} \/ j.generation \in cancelled
    BY <1>3, <1>6 DEF FinishProcessing
  <2>2. Frontier(k) = Frontier(j)
    BY <1>6, FrontierBy
  <2> QED BY <1>2, <1>6, <2>1, <2>2, AdvanceOwing
<1>7. CASE FinishProcessing(j)
  <2> DEFINE k == [j EXCEPT !.stage = "processed"]
  <2>1. /\ k.uri = j.uri /\ k.generation = j.generation /\ k.captured = j.captured
        /\ k.read = j.read /\ jobs' = (jobs \ {j}) \cup {k}
    BY <1>1, <1>7 DEF Job, FinishProcessing, Advance
  <2> HIDE DEF k
  <2> QED BY <1>6, <1>7, <2>1
<1>8. CASE /\ StartValidation(j)
           /\ Advance(j, [j EXCEPT !.stage = "validating", !.unchecked = Candidates(j)])
  <2> DEFINE k == [j EXCEPT !.stage = "validating", !.unchecked = Candidates(j)]
  <2>1. /\ k.uri = j.uri /\ k.generation = j.generation /\ k.captured = j.captured
        /\ k.read = j.read /\ jobs' = (jobs \ {j}) \cup {k} /\ Returned(j)
    BY <1>1, <1>8 DEF Job, StartValidation, Advance, Returned
  <2> HIDE DEF k
  <2> QED BY <1>6, <2>1
<1>9. CASE FinishValidation(j)
  <2>1. PICK b \in BOOLEAN :
          Advance(j, [j EXCEPT !.stage = "validated", !.unchecked = {}, !.valid = b])
    BY <1>9 DEF FinishValidation
  <2> DEFINE k == [j EXCEPT !.stage = "validated", !.unchecked = {}, !.valid = b]
  <2>2. /\ k.uri = j.uri /\ k.generation = j.generation /\ k.captured = j.captured
        /\ k.read = j.read /\ jobs' = (jobs \ {j}) \cup {k} /\ Returned(j)
    BY <1>1, <1>9, <2>1 DEF Job, FinishValidation, Advance, Returned
  <2> HIDE DEF k
  <2> QED BY <1>6, <2>2
<1>10. CASE \E f \in Files : CheckObservation(j, f)
  <2>1. PICK f \in Files : CheckObservation(j, f)
    BY <1>10
  <2> DEFINE k == [j EXCEPT !.unchecked = @ \ {f}]
  <2>2. /\ k.uri = j.uri /\ k.generation = j.generation /\ k.captured = j.captured
        /\ k.read = j.read /\ jobs' = (jobs \ {j}) \cup {k} /\ Returned(j)
    BY <1>1, <2>1 DEF Job, CheckObservation, Advance, Returned
  <2> HIDE DEF k
  <2> QED BY <1>6, <2>2
<1>11. CASE \E f \in Files : ReadResource(j, f)
  BY <1>5, <1>11 DEF ReadResource
<1> QED BY <1>4, <1>5, <1>7, <1>8, <1>9, <1>10, <1>11, FilesFacts DEF StartProcessing, StartValidation

LEMMA EventOwing ==
  ASSUME Inv, Tasks, Owing, NEW j \in jobs, cancelled \subseteq cancelled',
         ProjectProcessingCompleted(j) \/ ProjectValidationCompleted(j)
  PROVE  Owing'
<1>0. j \in Job
  BY DEF Inv, TypeOK
<1>1. SnapshotIsCurrent(j) => running
  BY <1>0 DEF SnapshotIsCurrent, Owing, Stopped, OpenDocs, Job
<1>2. CASE Ignore(j)
  <2>1. UNCHANGED <<docs, cancelled, running>> /\ jobs' = jobs \ {j}
    BY <1>2 DEF Ignore
  <2> QED BY <2>1, AdvanceOwing
<1>3. CASE SnapshotIsCurrent(j) /\ Retry(j)
  <2>1. running'
    BY <1>1, <1>3 DEF Retry
  <2>2. Renews({j.uri}, {j.uri}, {j.uri})
    BY <1>3, RetryRenews
  <2> QED BY <2>1, <2>2, RenewalOwing
<1>4. CASE SnapshotIsCurrent(j) /\ Adopt(j)
  <2>1. /\ docs' = [docs EXCEPT ![j.uri] = Adopted(j)] /\ jobs' = jobs \ {j}
        /\ UNCHANGED <<cancelled, running>>
        /\ j.uri \in Uris /\ docs \in [Uris -> Document]
    BY <1>4 DEF Adopt, Inv, TypeOK, Job
  <2>2. /\ docs'[j.uri] = Adopted(j)
        /\ \A u \in Uris : u # j.uri => docs'[u] = docs[u]
        /\ docs'[j.uri].generation = docs[j.uri].generation
        /\ docs'[j.uri].open = docs[j.uri].open
    BY <2>1, AdoptedType DEF Inv
  <2>3. AwaitedPending'
    <3> SUFFICES ASSUME NEW k \in jobs', Awaited(k)' PROVE docs'[k.uri].status = "pending"
      BY DEF AwaitedPending
    <3>1. k \in jobs /\ k # j /\ k.uri \in Uris
      BY <2>1, Generations
    <3>2. k.uri # j.uri
      BY <1>4, <2>2, <3>1 DEF Awaited, SnapshotIsCurrent, Tasks, OneJob
    <3> QED BY <2>2, <3>1, <3>2 DEF Owing, AwaitedPending, Awaited
  <2>4. Thorough'
    BY <2>1 DEF Owing, Thorough, Returned
  <2>5. Stopped'
    BY <1>1, <1>4, <2>1 DEF Stopped
  <2> QED BY <2>3, <2>4, <2>5 DEF Owing
<1>5. CASE /\ j.stage = "processed"
           /\ Advance(j, [j EXCEPT !.stage = "queued"])
           /\ UNCHANGED <<docs, cancelled, running>>
  <2> DEFINE k == [j EXCEPT !.stage = "queued"]
  <2>1. /\ k.uri = j.uri /\ k.generation = j.generation /\ k.captured = j.captured
        /\ k.read = j.read /\ jobs' = (jobs \ {j}) \cup {k} /\ Returned(j)
    BY <1>0, <1>5 DEF Job, Advance, Returned
  <2> HIDE DEF k
  <2>2. Frontier(k) = {} \/ k.generation \in cancelled
    BY <2>1, FrontierBy DEF Owing, Thorough
  <2> QED BY <1>5, <2>1, <2>2, AdvanceOwing
<1> QED BY <1>2, <1>3, <1>4, <1>5
        DEF ProjectProcessingCompleted, ProjectValidationCompleted

LEMMA IdleOwing ==
  ASSUME Owing, UNCHANGED <<docs, cancelled, jobs, running>>
  PROVE  Owing'
BY DEF Owing, AwaitedPending, Thorough, Stopped, Awaited, Returned

LEMMA InitOwing == Init => Owing
BY ClosedType DEF Init, Owing, AwaitedPending, Thorough, Stopped

LEMMA NextOwing == Inv /\ Tasks /\ Owing /\ [Next]_vars => Owing'
<1> SUFFICES ASSUME Inv, Tasks, Owing, [Next]_vars
             PROVE  Owing'
  OBVIOUS
<1>0. cancelled \subseteq cancelled'
  BY CancelledGrow
<1>1. CASE Client
  <2>1. CASE \E u \in Uris, v \in OpenVersions, t \in Texts : t \in Edits[u] /\ DidOpen(u, v, t)
    <3>1. running'
      BY <2>1 DEF DidOpen
    <3> QED BY <1>0, <2>1, <3>1, DidOpenRenews, RenewalOwing
  <2>2. CASE \E u \in Uris, v \in 1..MaxVersion, t \in Texts :
               t \in Edits[u] /\ DidChange(u, v, t)
    <3>1. running'
      BY <2>2 DEF DidChange
    <3> QED BY <1>0, <2>2, <3>1, DidChangeRenews, RenewalOwing
  <2>3. CASE \E u \in Uris : DidSave(u)
    BY <2>3, IdleOwing DEF DidSave, session
  <2>4. CASE \E u \in Uris : DidClose(u)
    <3>1. running'
      BY <2>4 DEF DidClose
    <3> QED BY <1>0, <2>4, <3>1, DidCloseRenews, RenewalOwing
  <2>5. CASE \E F \in SUBSET unwatched \ {{}} : DidChangeWatchedFiles(F)
    BY <1>0, <2>5, WatchedRenews, RenewalOwing DEF DidChangeWatchedFiles
  <2>6. CASE \E s \in Settings : DidChangeConfiguration(s)
    BY <1>0, <2>6, ConfigurationRenews, RenewalOwing DEF DidChangeConfiguration
  <2>7. CASE Shutdown
    <3>1. \A u \in OpenDocs(docs') : docs'[u].generation \in cancelled'
      BY <2>7 DEF Shutdown
    <3> QED BY <1>0, <2>7, <3>1, ShutdownRenews, RenewalOwing
  <2> QED BY <1>1, <2>1, <2>2, <2>3, <2>4, <2>5, <2>6, <2>7 DEF Client
<1>2. CASE Runtime
  <2>1. CASE \E j \in jobs :
               \/ StartProcessing(j) \/ FinishProcessing(j)
               \/ StartValidation(j) \/ FinishValidation(j)
               \/ \E f \in Files : ReadResource(j, f) \/ CheckObservation(j, f)
    BY <2>1, RuntimeOwing
  <2>2. CASE AbandonedReturn
    BY <2>2, IdleOwing DEF AbandonedReturn, session
  <2>3. CASE \E j \in jobs : ProjectProcessingCompleted(j) \/ ProjectValidationCompleted(j)
    BY <1>0, <2>3, EventOwing
  <2> QED BY <1>2, <2>1, <2>2, <2>3 DEF Runtime
<1>3. CASE Environment
  BY <1>3, IdleOwing DEF Environment, WriteFile, session
<1>4. CASE UNCHANGED vars
  BY <1>4, IdleOwing DEF vars, session
<1> QED BY <1>1, <1>2, <1>3, <1>4 DEF Next

-----------------------------------------------------------------------------
(* What the editor shows. *)

(* An open document has a text.                                            *)
Written == \A u \in OpenDocs(docs) : docs[u].text # Unread

LEMMA InstallWrites ==
  ASSUME NEW d \in [Uris -> Document], NEW P, NEW U, Install(d, P, U)
  PROVE  \A u \in Uris : docs'[u].open = d[u].open /\ docs'[u].text = d[u].text
<1> SUFFICES ASSUME NEW u \in Uris
             PROVE  docs'[u].open = d[u].open /\ docs'[u].text = d[u].text
  OBVIOUS
<1>1. d[u] \in Document
  OBVIOUS
<1>2. docs'[u] = IF u \in P \cup U
                 THEN [d[u] EXCEPT !.generation = nextGeneration + Turn(P, U, u),
                                   !.status = "pending", !.read = Nothing, !.held = NoVersions,
                                   !.settings = Closed.settings]
                 ELSE d[u]
  BY DEF Install, Installed
<1> QED BY <1>1, <1>2 DEF Document

(* Opening, changing or closing u.                                         *)
LEMMA EditWrites ==
  ASSUME Inv, NEW u \in Uris, NEW e \in Document, NEW P, NEW U,
         Install([docs EXCEPT ![u] = e], P, U)
  PROVE  /\ EditorTexts' = [EditorTexts EXCEPT ![u] = IF e.open THEN e.text ELSE Unread]
         /\ Written /\ (e.open => e.text # Unread) => Written'
         /\ \A w \in Uris \ {u} : docs'[w].open = docs[w].open
         /\ docs'[u].open = e.open
<1> DEFINE d == [docs EXCEPT ![u] = e]
<1>1. /\ d \in [Uris -> Document] /\ d[u] = e
      /\ \A w \in Uris : w # u => d[w] = docs[w]
  BY DEF Inv, TypeOK
<1> HIDE DEF d
<1>2. \A w \in Uris : docs'[w].open = d[w].open /\ docs'[w].text = d[w].text
  <2>1. Install(d, P, U)
    BY DEF d
  <2> QED BY <1>1, <2>1, InstallWrites
<1>3. \A w \in Uris : EditorTexts'[w] =
        [EditorTexts EXCEPT ![u] = IF e.open THEN e.text ELSE Unread][w]
  BY <1>1, <1>2 DEF EditorTexts
<1>4. EditorTexts' = [EditorTexts EXCEPT ![u] = IF e.open THEN e.text ELSE Unread]
  BY <1>3 DEF EditorTexts
<1>5. Written /\ (e.open => e.text # Unread) => Written'
  BY <1>1, <1>2 DEF Written, OpenDocs
<1> QED BY <1>1, <1>2, <1>4, <1>5

LEMMA DidOpenWrites ==
  ASSUME Inv, NEW u \in Uris, NEW v \in OpenVersions, NEW t \in Texts, DidOpen(u, v, t)
  PROVE  /\ EditorTexts' = [EditorTexts EXCEPT ![u] = t]
         /\ Written => Written'
         /\ \A w \in Uris \ {u} : docs'[w].open = docs[w].open
         /\ docs'[u].open
<1> DEFINE e == [Closed EXCEPT !.open = TRUE, !.version = v, !.text = t, !.published = {u}]
           U == IF u \in NonFile THEN {} ELSE Dependents(u)
<1>1. e \in Document /\ e.open /\ e.text = t /\ t # Unread
  <2>1. v \in Nat /\ t # Unread
    BY SessionAssumption
  <2> QED BY <2>1, ClosedType DEF Document
<1> HIDE DEF e
<1>2. Install([docs EXCEPT ![u] = e], {u}, U)
  BY DEF DidOpen, e
<1> QED BY <1>1, <1>2, EditWrites

LEMMA DidChangeWrites ==
  ASSUME Inv, NEW u \in Uris, NEW v \in 1..MaxVersion, NEW t \in Texts, DidChange(u, v, t)
  PROVE  /\ EditorTexts' = [EditorTexts EXCEPT ![u] = t]
         /\ Written => Written'
         /\ \A w \in Uris : docs'[w].open = docs[w].open
<1> DEFINE e == [docs[u] EXCEPT !.version = v, !.text = t]
           U == IF u \in NonFile THEN {} ELSE Dependents(u)
<1>1. docs[u] \in Document /\ docs[u].open
  BY DEF Inv, TypeOK, DidChange
<1>2. e \in Document /\ e.open /\ e.text = t /\ t # Unread
  <2>1. v \in Nat /\ t # Unread
    BY SessionAssumption
  <2> QED BY <1>1, <2>1 DEF Document
<1>3. [docs EXCEPT ![u].version = v, ![u].text = t] = [docs EXCEPT ![u] = e]
  BY DEF Inv, TypeOK
<1> HIDE DEF e
<1>4. Install([docs EXCEPT ![u] = e], {u}, U)
  BY <1>3 DEF DidChange
<1> QED BY <1>1, <1>2, <1>4, EditWrites

LEMMA DidCloseWrites ==
  ASSUME Inv, NEW u \in Uris, DidClose(u)
  PROVE  /\ EditorTexts' = [EditorTexts EXCEPT ![u] = Unread]
         /\ Written => Written'
         /\ \A w \in Uris \ {u} : docs'[w].open = docs[w].open
         /\ ~docs'[u].open
<1>1. Install([docs EXCEPT ![u] = Closed], {}, Dependents(u))
  BY DEF DidClose
<1> QED BY <1>1, ClosedType, EditWrites

LEMMA ReanalyseWrites ==
  ASSUME Inv, NEW U, Install(docs, {}, U)
  PROVE  /\ EditorTexts' = EditorTexts
         /\ Written => Written'
         /\ \A w \in Uris : docs'[w].open = docs[w].open
<1>1. \A w \in Uris : docs'[w].open = docs[w].open /\ docs'[w].text = docs[w].text
  BY InstallWrites DEF Inv, TypeOK
<1> QED BY <1>1 DEF EditorTexts, Written, OpenDocs

LEMMA AdoptWrites ==
  ASSUME Inv, NEW j \in jobs, Adopt(j)
  PROVE  /\ EditorTexts' = EditorTexts
         /\ Written => Written'
         /\ \A w \in Uris : docs'[w].open = docs[w].open
<1>1. docs' = [docs EXCEPT ![j.uri] = Adopted(j)] /\ docs \in [Uris -> Document]
  BY DEF Adopt, Inv, TypeOK
<1>2. \A w \in Uris : docs'[w].open = docs[w].open /\ docs'[w].text = docs[w].text
  BY <1>1, AdoptedType DEF Inv
<1> QED BY <1>2 DEF EditorTexts, Written, OpenDocs

LEMMA InitWritten == Init => Written
BY ClosedType DEF Init, Written, OpenDocs

LEMMA NextWritten == Inv /\ Written /\ [Next]_vars => Written'
<1> SUFFICES ASSUME Inv, Written, [Next]_vars
             PROVE  Written'
  OBVIOUS
<1>1. docs' = docs => Written'
  BY DEF Written
<1>2. CASE Client
  <2>1. ASSUME NEW F, DidChangeWatchedFiles(F)
        PROVE  Written'
    BY <2>1, ReanalyseWrites DEF DidChangeWatchedFiles
  <2>2. ASSUME NEW s, DidChangeConfiguration(s)
        PROVE  Written'
    BY <2>2, ReanalyseWrites DEF DidChangeConfiguration
  <2>3. (\E u \in Uris : DidSave(u)) \/ Shutdown => docs' = docs
    BY DEF DidSave, Shutdown, session
  <2> QED BY <1>1, <1>2, <2>1, <2>2, <2>3, DidOpenWrites, DidChangeWrites, DidCloseWrites
          DEF Client
<1>3. ASSUME NEW j \in jobs, ProjectProcessingCompleted(j) \/ ProjectValidationCompleted(j)
      PROVE  Written'
  <2>1. Retry(j) => Written'
    BY ReanalyseWrites DEF Retry
  <2>2. Adopt(j) => Written'
    BY <1>3, AdoptWrites
  <2>3. Ignore(j) => docs' = docs
    BY DEF Ignore
  <2> QED BY <1>1, <1>3, <2>1, <2>2, <2>3
          DEF ProjectProcessingCompleted, ProjectValidationCompleted
<1>4. ASSUME NEW j \in jobs,
             \/ StartProcessing(j) \/ FinishProcessing(j)
             \/ StartValidation(j) \/ FinishValidation(j)
             \/ \E f \in Files : ReadResource(j, f) \/ CheckObservation(j, f)
      PROVE  docs' = docs
  BY <1>4, RuntimeStep DEF TaskOnly, session
<1>5. CASE Runtime
  <2>1. AbandonedReturn => docs' = docs
    BY DEF AbandonedReturn, session
  <2> QED BY <1>1, <1>3, <1>4, <1>5, <2>1 DEF Runtime
<1>6. CASE Environment \/ UNCHANGED vars
  BY <1>1, <1>6 DEF Environment, WriteFile, vars, session
<1> QED BY <1>2, <1>5, <1>6 DEF Next

-----------------------------------------------------------------------------
(* Every step is one that the service promises. *)

LEMMA ServiceNames ==
  /\ Service!Files = Files
  /\ Service!NoResult = NoResult
  /\ Written => Service!Open = OpenDocs(docs)
<1>1. Service!Files = Files
  BY DEF Service!Files, Files
<1>2. Service!NoResult = NoResult
  BY <1>1 DEF Service!NoResult, NoResult, Nothing, Closed
<1>3. Written => Service!Open = OpenDocs(docs)
  BY DEF Service!Open, EditorTexts, Written, OpenDocs
<1> QED BY <1>1, <1>2, <1>3

(* A document that rests on what changes observes it.                      *)
LEMMA RestersObserve ==
  ASSUME ReadsObserved, NEW r \in Uris, NEW f, Service!RestsOn(r, f)
  PROVE  /\ f \in Files /\ docs[r].open /\ docs[r].status # "pending"
         /\ f \in observations[r]
<1>1. f \in Files /\ Results[r].read[f] # Unread
  BY ServiceNames DEF Service!RestsOn
<1>2. docs[r].open /\ docs[r].status # "pending"
  <2> SUFFICES ASSUME ~(docs[r].open /\ docs[r].status # "pending")
               PROVE  FALSE
    OBVIOUS
  <2>1. Results[r].read = Nothing
    BY DEF Results, NoResult
  <2> QED BY <1>1, <2>1 DEF Nothing
<1>3. Results[r].read = docs[r].read
  BY <1>2 DEF Results, Result
<1> QED BY <1>1, <1>2, <1>3 DEF ReadsObserved, OpenDocs

(* The documents of D are analysed anew, the others of U are not open.     *)
LEMMA RenewalWithdraws ==
  ASSUME Inv, NEW D, NEW A, NEW N, Renews(D, A, N),
         NEW U \in SUBSET Uris, D \subseteq U, NEW O,
         \A r \in U \ D : ~docs'[r].open,
         \A r \in Uris \ U : docs'[r].open = docs[r].open,
         \A w \in DocFiles : docs'[w].open /\ ~docs[w].open => w \in O
  PROVE  Service!Withdraw(U, O)
<1>1. \A r \in U : Results'[r] = NoResult
  BY DEF Results, Renews, RenewsDocuments
<1>2. \A r \in Uris \ U : Results'[r] = Results[r]
  BY DEF Results, Renews, RenewsDocuments
<1>3. Results' = [r \in Uris |-> IF r \in U THEN NoResult ELSE Results[r]]
  BY <1>1, <1>2 DEF Results
<1>4. ASSUME NEW r \in Uris, NEW w \in Overlooked'[r]
      PROVE  w \in IF r \in U THEN {} ELSE Overlooked[r] \cup O
  <2>1. /\ r \in DocFiles /\ w \in DocFiles /\ docs'[r].open /\ docs'[w].open
        /\ \E k \in jobs' : /\ k.uri = r /\ k.generation = docs'[r].generation
                            /\ k.captured[w].generation = 0
    BY <1>4 DEF Overlooked
  <2>2. PICK k \in jobs' : /\ k.uri = r /\ k.generation = docs'[r].generation
                           /\ k.captured[w].generation = 0
    BY <2>1
  <2>3. k \in jobs
    <3> SUFFICES ASSUME k \in jobs' \ jobs
                 PROVE  FALSE
      OBVIOUS
    <3> QED BY <2>1, <2>2 DEF Renews, RenewsTasks, Fresh
  <2>4. r \in Uris \ D /\ docs'[r] = docs[r]
    BY <2>1, <2>2, <2>3, RenewedNotAwaited DEF Awaited
  <2>5. r \notin U
    BY <2>1, <2>4
  <2>6. docs[w].open => w \in Overlooked[r]
    BY <2>1, <2>2, <2>3, <2>4 DEF Overlooked
  <2> QED BY <2>1, <2>5, <2>6
<1>5. Overlooked' \in [Uris -> SUBSET DocFiles]
  BY DEF Overlooked
<1> QED BY <1>3, <1>4, <1>5, ServiceNames DEF Service!Withdraw

LEMMA UrisAreNotConfig == \A u \in Uris : u \in Files <=> u \in DocFiles
BY SessionAssumption DEF Files, DocFiles

(* Those who rest on u are analysed anew with it.                          *)
LEMMA DependentsRest ==
  ASSUME ReadsObserved, NEW u \in Uris, NEW U, u \in U, u \in DocFiles => Dependents(u) \subseteq U
  PROVE  \A r \in Uris \ U : ~Service!RestsOn(r, u)
<1> SUFFICES ASSUME NEW r \in Uris \ U, Service!RestsOn(r, u)
             PROVE  FALSE
  OBVIOUS
<1>1. u \in Files /\ docs[r].open /\ u \in observations[r]
  BY RestersObserve
<1>2. u \in DocFiles /\ r # u
  BY <1>1, UrisAreNotConfig
<1> QED BY <1>1, <1>2 DEF Dependents, ObservingDocuments, OpenDocs

LEMMA OpenPromised ==
  ASSUME Inv, Tasks, ReadsObserved, NEW u \in Uris, NEW v \in OpenVersions, NEW t \in Texts,
         DidOpen(u, v, t)
  PROVE  Service!Next
<1>1. PICK D \in SUBSET Uris :
        Renews(D, D, D) /\ u \in D /\ (u \in DocFiles => Dependents(u) \subseteq D)
  BY DidOpenRenews
<1>2. /\ EditorTexts' = [EditorTexts EXCEPT ![u] = t]
      /\ \A w \in Uris \ {u} : docs'[w].open = docs[w].open
  BY DidOpenWrites
<1>3. UNCHANGED <<settings, disk, unwatched>>
  BY DEF DidOpen
<1> DEFINE O == IF EditorTexts[u] = Unread THEN {u} ELSE {}
<1>4. \A w \in DocFiles : docs'[w].open /\ ~docs[w].open => w \in O
  BY <1>2, FilesFacts DEF EditorTexts
<1> HIDE DEF O
<1>5. Service!Withdraw(D, O)
  BY <1>1, <1>2, <1>4, RenewalWithdraws
<1>6. \A r \in Uris \ D : ~Service!RestsOn(r, u)
  BY <1>1, DependentsRest
<1>7. Service!Edit(u, t, D)
  BY <1>1, <1>2, <1>3, <1>5, <1>6 DEF Service!Edit, O
<1> QED BY <1>7 DEF Service!Next

LEMMA ChangePromised ==
  ASSUME Inv, Tasks, ReadsObserved, NEW u \in Uris, NEW v \in 1..MaxVersion, NEW t \in Texts,
         DidChange(u, v, t)
  PROVE  Service!Next
<1>1. PICK D \in SUBSET Uris :
        Renews(D, D, D) /\ u \in D /\ (u \in DocFiles => Dependents(u) \subseteq D)
  BY DidChangeRenews
<1>2. /\ EditorTexts' = [EditorTexts EXCEPT ![u] = t]
      /\ \A w \in Uris : docs'[w].open = docs[w].open
  BY DidChangeWrites
<1>3. UNCHANGED <<settings, disk, unwatched>>
  BY DEF DidChange
<1> DEFINE O == IF EditorTexts[u] = Unread THEN {u} ELSE {}
<1> HIDE DEF O
<1>5. Service!Withdraw(D, O)
  BY <1>1, <1>2, FilesFacts, RenewalWithdraws
<1>6. \A r \in Uris \ D : ~Service!RestsOn(r, u)
  BY <1>1, DependentsRest
<1>7. Service!Edit(u, t, D)
  BY <1>1, <1>2, <1>3, <1>5, <1>6 DEF Service!Edit, O
<1> QED BY <1>7 DEF Service!Next

LEMMA ClosePromised ==
  ASSUME Inv, Tasks, ReadsObserved, NEW u \in Uris, DidClose(u)
  PROVE  Service!Next
<1> DEFINE U == Dependents(u) \cup {u}
           O == IF EditorTexts[u] = Unread THEN {u} ELSE {}
<1>1. PICK A, N : Renews(Dependents(u), A, N)
  BY DidCloseRenews
<1>2. /\ EditorTexts' = [EditorTexts EXCEPT ![u] = Unread]
      /\ \A w \in Uris \ {u} : docs'[w].open = docs[w].open
      /\ ~docs'[u].open
  BY DidCloseWrites
<1>3. UNCHANGED <<settings, disk, unwatched>>
  BY DEF DidClose
<1>4. U \in SUBSET Uris /\ Dependents(u) \subseteq U /\ u \in U
  BY DEF Dependents, OpenDocs
<1>5. \A r \in U \ Dependents(u) : ~docs'[r].open
  BY <1>2
<1> HIDE DEF O, U
<1>6. Service!Withdraw(U, O)
  BY <1>1, <1>2, <1>4, <1>5, FilesFacts, RenewalWithdraws
<1>7. \A r \in Uris \ U : ~Service!RestsOn(r, u)
  BY <1>4, DependentsRest
<1>8. Service!Edit(u, Unread, U)
  BY <1>2, <1>3, <1>4, <1>6, <1>7 DEF Service!Edit, O
<1> QED BY <1>4, <1>8 DEF Service!Next

LEMMA ReportPromised ==
  ASSUME Inv, Tasks, ReadsObserved, NEW F \in SUBSET unwatched, DidChangeWatchedFiles(F)
  PROVE  Service!Next
<1>1. PICK D \in SUBSET Uris : Renews(D, D, D) /\ Watches(D)
  BY WatchedRenews
<1>2. PICK U : Install(docs, {}, U)
  BY DEF DidChangeWatchedFiles
<1>3. EditorTexts' = EditorTexts /\ \A w \in Uris : docs'[w].open = docs[w].open
  BY <1>2, ReanalyseWrites
<1>4. unwatched' = unwatched \ F /\ UNCHANGED <<settings, disk>>
  BY DEF DidChangeWatchedFiles
<1>5. Service!Withdraw(D, {})
  BY <1>1, <1>3, FilesFacts, RenewalWithdraws
<1>6. \A r \in Uris \ D : \A f \in F : ~Service!RestsOn(r, f)
  BY <1>1, <1>4, RestersObserve DEF Watches, OpenDocs
<1>7. Service!Report(F, D)
  BY <1>3, <1>4, <1>5, <1>6 DEF Service!Report
<1> QED BY <1>1, <1>7 DEF Service!Next

LEMMA ReconfigurePromised ==
  ASSUME Inv, Tasks, NEW s \in Settings, DidChangeConfiguration(s)
  PROVE  Service!Next
<1> DEFINE D == OpenDocs(docs)
<1>1. Renews(D, D, D) /\ D \subseteq Uris
  BY ConfigurationRenews DEF OpenDocs
<1>2. Install(docs, {}, D) /\ settings' = s /\ UNCHANGED <<disk, unwatched>>
  BY DEF DidChangeConfiguration
<1>3. EditorTexts' = EditorTexts /\ \A w \in Uris : docs'[w].open = docs[w].open
  BY <1>2, ReanalyseWrites
<1>4. \A w \in Uris \ D : ~docs'[w].open
  BY <1>3 DEF OpenDocs
<1> HIDE DEF D
<1>5. Service!Withdraw(Uris, {})
  BY <1>1, <1>3, <1>4, FilesFacts, RenewalWithdraws
<1>6. Service!Reconfigure(s)
  BY <1>2, <1>3, <1>5 DEF Service!Reconfigure
<1> QED BY <1>6 DEF Service!Next

(* What the server does of itself changes no result.                       *)
LEMMA RestartPromised ==
  ASSUME UNCHANGED <<EditorTexts, settings, disk, unwatched>>, Results' = Results,
         \A r \in Uris : Overlooked'[r] \subseteq Overlooked[r]
  PROVE  Service!Next
<1>1. Overlooked' \in [Uris -> SUBSET DocFiles] /\ Results \in [Uris -> {Results[r] : r \in Uris}]
  BY DEF Overlooked, Results
<1>2. Service!Withdraw({}, {})
  BY <1>1 DEF Service!Withdraw
<1> QED BY <1>2 DEF Service!Next, Service!Restart

LEMMA TasksPromised ==
  ASSUME UNCHANGED <<docs, settings, disk, unwatched>>,
         \A k \in jobs' : \E j \in jobs :
           k.uri = j.uri /\ k.generation = j.generation /\ k.captured = j.captured
  PROVE  Service!Next
<1>1. EditorTexts' = EditorTexts /\ Results' = Results
  BY DEF EditorTexts, Results
<1>2. \A r \in Uris : Overlooked'[r] \subseteq Overlooked[r]
  BY DEF Overlooked
<1> QED BY <1>1, <1>2, RestartPromised

LEMMA RetryPromised ==
  ASSUME Inv, Tasks, Owing, NEW j \in jobs, SnapshotIsCurrent(j), Retry(j)
  PROVE  Service!Next
<1> DEFINE D == {j.uri}
<1>1. Renews(D, D, D) /\ D \subseteq Uris
  BY RetryRenews, Generations
<1>2. Install(docs, {}, D) /\ UNCHANGED <<settings, disk, unwatched>>
  BY DEF Retry
<1>3. EditorTexts' = EditorTexts /\ \A w \in Uris : docs'[w].open = docs[w].open
  BY <1>2, ReanalyseWrites
<1>4. Results[j.uri] = NoResult
  BY <1>1 DEF SnapshotIsCurrent, Results, Owing, AwaitedPending, Awaited
<1> HIDE DEF D
<1>5. Service!Withdraw(D, {})
  BY <1>1, <1>3, FilesFacts, RenewalWithdraws
<1>6. Results' = Results
  <2>1. Results' = [r \in Uris |-> IF r \in D THEN NoResult ELSE Results[r]]
    BY <1>5, ServiceNames DEF Service!Withdraw
  <2> QED BY <1>4, <2>1 DEF Results, D
<1>7. \A r \in Uris : Overlooked'[r] \subseteq Overlooked[r]
  BY <1>5 DEF Service!Withdraw
<1> QED BY <1>2, <1>3, <1>6, <1>7, RestartPromised

-----------------------------------------------------------------------------
(* What is adopted is what one analysis of the present workspace gives. *)

(* The files reached depend on the contents of those files alone.          *)
LEMMA ReachedBy ==
  ASSUME NEW r \in DocFiles, NEW known, NEW content,
         \A w \in Service!Reached(r, known) : content[w] = known[w]
  PROVE  Service!Reached(r, content) = Service!Reached(r, known)
<1> DEFINE L == Service!Reached(r, known)
           Closing(S) == r \in S /\ \A w \in S : IncludedBy(known[w]) \subseteq S
           Reaching(S) == r \in S /\ \A w \in S : IncludedBy(content[w]) \subseteq S
<1>1. \A t : Service!IncludedBy(t) = IncludedBy(t)
  BY DEF Service!IncludedBy, IncludedBy
<1>2. L = {u \in DocFiles : \A S \in SUBSET DocFiles : Closing(S) => u \in S}
  BY <1>1 DEF Service!Reached
<1>3. Service!Reached(r, content) =
        {u \in DocFiles : \A S \in SUBSET DocFiles : Reaching(S) => u \in S}
  BY <1>1 DEF Service!Reached
<1>4. \A t : IncludedBy(t) \subseteq DocFiles
  BY SessionAssumption DEF IncludedBy
<1>5. L \in SUBSET DocFiles /\ r \in L
  BY <1>2
<1>6. \A w \in L : IncludedBy(known[w]) \subseteq L
  <2> SUFFICES ASSUME NEW w \in L, NEW v \in IncludedBy(known[w]),
                      NEW S \in SUBSET DocFiles, Closing(S)
               PROVE  v \in S
    BY <1>2, <1>4
  <2> QED BY <1>2
<1>7. Closing(L) /\ Reaching(L)
  BY <1>5, <1>6
<1>8. ASSUME NEW u \in L, NEW S \in SUBSET DocFiles, Reaching(S)
      PROVE  u \in S
  <2>1. S \cap L \in SUBSET DocFiles
    OBVIOUS
  <2>2. Closing(S \cap L)
    BY <1>5, <1>6, <1>8
  <2> QED BY <1>2, <2>1, <2>2
<1> HIDE DEF L, Closing, Reaching
<1>9. Service!Reached(r, content) = L
  BY <1>3, <1>5, <1>7, <1>8
<1> QED BY <1>9 DEF L

(* What an analysis needs is what is reached in what it knows.             *)
LEMMA NeededReached ==
  ASSUME NEW j, j.uri \in DocFiles, NEW content,
         \A w \in Needed(j) : content[w] = Known(j, w)
  PROVE  Service!Reached(j.uri, content) = Needed(j)
<1> DEFINE known == [w \in DocFiles |-> Known(j, w)]
<1>1. \A t : Service!IncludedBy(t) = IncludedBy(t)
  BY DEF Service!IncludedBy, IncludedBy
<1>2. \A S \in SUBSET DocFiles :
        (\A w \in S : IncludedBy(Known(j, w)) \subseteq S)
          <=> (\A w \in S : IncludedBy(known[w]) \subseteq S)
  OBVIOUS
<1>3. Service!Reached(j.uri, known) = Needed(j)
  <2> HIDE DEF known
  <2> QED BY <1>1, <1>2 DEF Service!Reached, Needed
<1>4. \A w \in Needed(j) : content[w] = known[w]
  BY NeededDocuments
<1> HIDE DEF known
<1> QED BY <1>3, <1>4, ReachedBy

(* What is known of the files: what the analysis has read of those whose   *)
(* change is still to be reported, and what is on disk of the others.      *)
Read(j, f) == IF f \in unwatched /\ j.read[f] # Unread THEN j.read[f] ELSE disk[f]

LEMMA ReadOnDisk ==
  ASSUME Inv, NEW j \in jobs, FoundUnchanged(j), j.unchecked = {},
         NEW f \in Candidates(j), j.read[f] # Unread
  PROVE  Read(j, f) = j.read[f]
BY DEF FoundUnchanged, Read

LEMMA KnownIsContent ==
  ASSUME Inv, NEW j \in jobs, SourcesAreCurrent(j), FoundUnchanged(j), j.unchecked = {},
         ~Rejected(j), ~ConfigFailed(j), Frontier(j) = {}, NEW u \in Needed(j)
  PROVE  /\ Known(j, u) = IF docs[u].open /\ j.captured[u].generation # 0
                          THEN EditorTexts[u] ELSE Read(j, u)
         /\ j.captured[u].generation # 0 => docs[u].open
<1>1. u \in DocFiles /\ u \in Uris /\ u # Config
  BY NeededDocuments, FilesFacts
<1>2. Known(j, u) # Unread
  BY DEF Frontier
<1>3. CASE j.captured[u].generation # 0
  <2>1. RevisionIsCurrent(u, j.captured[u])
    BY <1>1, <1>3 DEF SourcesAreCurrent, Retained
  <2>2. docs[u].open /\ docs[u].text = j.captured[u].text
    BY <1>1, <2>1 DEF RevisionIsCurrent, Inv, Consistent, GenerationsNameTexts, OpenDocs
  <2> QED BY <1>1, <1>3, <2>2 DEF Known, EditorTexts
<1>4. CASE j.captured[u].generation = 0
  <2>1. Known(j, u) = j.read[u]
    BY <1>4 DEF Known
  <2>2. u \in Candidates(j)
    BY <1>4 DEF Candidates, Observed
  <2>3. Read(j, u) = j.read[u]
    BY <1>2, <2>1, <2>2, ReadOnDisk
  <2> QED BY <1>4, <2>1, <2>3
<1> QED BY <1>3, <1>4

LEMMA AdoptedUsed ==
  ASSUME TypeOK, NEW j \in jobs
  PROVE  LET kept == IF Rejected(j) \/ ConfigFailed(j) THEN {} ELSE Needed(j)
         IN  /\ Adopted(j).status = IF Rejected(j) \/ ConfigFailed(j) THEN "problem" ELSE "view"
             /\ {u \in Uris : Adopted(j).held[u] # 0} =
                  {u \in kept : j.captured[u].version # 0}
             /\ Adopted(j).read =
                  [f \in Files |-> IF f = Config THEN j.read[f]
                                   ELSE IF f \in kept THEN Known(j, f) ELSE Unread]
<1> DEFINE kept == IF Rejected(j) \/ ConfigFailed(j) THEN {} ELSE Needed(j)
<1>1. docs[j.uri] \in Document /\ kept \subseteq Uris
  BY NeededDocuments DEF TypeOK, Job
<1>2. /\ Adopted(j).status = IF Rejected(j) \/ ConfigFailed(j) THEN "problem" ELSE "view"
      /\ Adopted(j).held = [u \in Uris |-> IF u \in kept THEN j.captured[u].version ELSE 0]
      /\ Adopted(j).read =
           [f \in Files |-> IF f = Config THEN j.read[f]
                            ELSE IF f \in kept THEN Known(j, f) ELSE Unread]
  BY <1>1 DEF Adopted, Document
<1> QED BY <1>1, <1>2

(* The open documents whose buffers the analysis j has taken.              *)
Taken(j) ==
  {u \in DocFiles : docs[u].open /\ (Rejected(j) \/ j.captured[u].generation # 0)}

LEMMA AnalysisAdopted ==
  ASSUME Inv, Tasks, Watched, Owing, NEW j \in jobs,
         SnapshotIsCurrent(j), SourcesAreCurrent(j), Returned(j),
         Rejected(j) \/ (j.stage = "validated" /\ j.valid)
  PROVE  Result(Adopted(j)) =
           Service!Analysis(j.uri, [f \in Files |-> Read(j, f)], Taken(j))
<1> DEFINE r == j.uri
           B == Taken(j)
           files == [f \in Files |-> Read(j, f)]
           content == [u \in DocFiles |-> IF u \in B THEN EditorTexts[u] ELSE files[u]]
<1>1. /\ j \in Job /\ r \in Uris /\ docs[r].open /\ Awaited(j) /\ j.generation \notin cancelled
      /\ running
  BY DEF Inv, TypeOK, Job, SnapshotIsCurrent, Awaited, Owing, Stopped, OpenDocs
<1>2. j.settings = settings
  BY <1>1 DEF Inv, Consistent, GenerationsNameSettings, Awaited
<1>3. Adopted(j).settings = settings
  BY <1>2, AdoptedType DEF Inv
<1>4. ~Rejected(j) => FoundUnchanged(j) /\ j.unchecked = {}
  BY <1>1 DEF Watched, Validated, Checking, FoundUnchanged
<1>5. ~Rejected(j) => Config \in Candidates(j)
  BY DEF Candidates, Observed
<1>6. r \in DocFiles <=> ~Rejected(j)
  BY <1>1 DEF DocFiles, Rejected
<1>7. CASE Rejected(j)
  <2>1. j.read[Config] = Unread
    BY <1>7 DEF Watched, RejectedUnread
  <2>2. Result(Adopted(j)) = Service!Problem(Unread)
    BY <1>3, <1>7, <2>1, AdoptedUsed, ServiceNames DEF Inv, Result, Service!Problem
  <2> QED BY <1>6, <1>7, <2>2 DEF Service!Analysis
<1>8. CASE ~Rejected(j) /\ ConfigFailed(j)
  <2>1. j.read[Config] \in Broken /\ j.read[Config] # Unread
    BY <1>8, SessionAssumption DEF ConfigFailed
  <2>2. files[Config] = j.read[Config]
    BY <1>4, <1>5, <1>8, <2>1, ReadOnDisk, FilesFacts
  <2> HIDE DEF files
  <2>5. /\ Adopted(j).status = "problem" /\ {u \in Uris : Adopted(j).held[u] # 0} = {}
        /\ Adopted(j).read = [f \in Files |-> IF f = Config THEN j.read[f] ELSE Unread]
    BY <1>8, AdoptedUsed DEF Inv
  <2>6. Adopted(j).read = [f \in Files |-> IF f = Config THEN files[Config] ELSE Unread]
    BY <2>2, <2>5
  <2>3. Result(Adopted(j)) = Service!Problem(files[Config])
    BY <1>3, <2>5, <2>6, ServiceNames DEF Result, Service!Problem
  <2>4. Result(Adopted(j)) = Service!Analysis(r, files, B)
    BY <1>6, <1>8, <2>1, <2>2, <2>3 DEF Service!Analysis
  <2> QED BY <2>4 DEF files
<1>9. CASE ~Rejected(j) /\ ~ConfigFailed(j)
  <2>1. Frontier(j) = {}
    BY <1>1 DEF Owing, Thorough
  <2>2. j.read[Config] # Unread
    BY <1>9, <2>1 DEF Frontier
  <2>3. files[Config] = j.read[Config] /\ files[Config] \notin Broken
    BY <1>4, <1>5, <1>9, <2>2, ReadOnDisk, FilesFacts DEF ConfigFailed
  <2>4. Needed(j) \subseteq DocFiles /\ DocFiles \subseteq Files /\ DocFiles \subseteq Uris
        /\ Config \notin DocFiles
    BY NeededDocuments, FilesFacts
  <2>5. ASSUME NEW u \in Needed(j)
        PROVE  content[u] = Known(j, u) /\ (u \in B <=> j.captured[u].generation # 0)
    BY <1>4, <1>9, <2>1, <2>4, KnownIsContent DEF Taken
  <2> HIDE DEF B, files, content
  <2>6. Service!Reached(r, content) = Needed(j)
    BY <1>6, <1>9, <2>5, NeededReached
  <2>7. {u \in Needed(j) : j.captured[u].version # 0} = B \cap Needed(j)
    <3>1. \A u \in Needed(j) : j.captured[u].generation # 0 <=> j.captured[u].version # 0
      BY <2>4 DEF Inv, Consistent, GenerationsHandedOut, Tasks, Versioned
    <3> QED BY <2>5, <3>1
  <2>8. Adopted(j).read =
          [f \in Files |-> IF f = Config THEN files[f]
                           ELSE IF f \in Needed(j) THEN content[f] ELSE Unread]
    BY <1>9, <2>3, <2>5, AdoptedUsed DEF Inv
  <2>9. {u \in Uris : Adopted(j).held[u] # 0} = B \cap Needed(j) /\ Adopted(j).status = "view"
    BY <1>9, <2>7, AdoptedUsed DEF Inv
  <2>10. Service!View(r, files, B) =
           [status |-> "view", used |-> B \cap Needed(j), settings |-> settings,
            read |-> [f \in Files |-> IF f = Config THEN files[f]
                                      ELSE IF f \in Needed(j) THEN content[f] ELSE Unread]]
    <3>1. content = Service!Content(files, B)
      BY DEF content, Service!Content
    <3>2. Service!Files = Files
      BY ServiceNames
    <3> QED BY <2>6, <3>1, <3>2 DEF Service!View
  <2>11. Result(Adopted(j)) = Service!View(r, files, B)
    BY <1>3, <2>8, <2>9, <2>10 DEF Result
  <2>12. Result(Adopted(j)) = Service!Analysis(r, files, B)
    BY <1>6, <1>9, <2>3, <2>11 DEF Service!Analysis
  <2> QED BY <2>12 DEF files, B
<1> QED BY <1>7, <1>8, <1>9

LEMMA AdoptPromised ==
  ASSUME Inv, Tasks, Watched, Owing, Written, NEW j \in jobs,
         SnapshotIsCurrent(j), SourcesAreCurrent(j), Returned(j), Adopt(j),
         Rejected(j) \/ (j.stage = "validated" /\ j.valid)
  PROVE  Service!Next
<1> DEFINE r == j.uri
           old == [f \in unwatched |-> Read(j, f)]
           B == Taken(j)
           files == [f \in Files |-> IF f \in unwatched THEN old[f] ELSE disk[f]]
<1>1. /\ j \in Job /\ r \in Uris /\ docs[r].open /\ Awaited(j)
      /\ docs \in [Uris -> Document] /\ unwatched \subseteq Files
      /\ disk \in [Files -> Texts \cup {Missing}]
  BY DEF Inv, TypeOK, Job, SnapshotIsCurrent, Awaited
<1>2. r \in Service!Open /\ Service!Open = OpenDocs(docs)
  BY <1>1, ServiceNames DEF OpenDocs
<1>3. Results[r].status = "pending"
  BY <1>1 DEF Owing, AwaitedPending, Results, NoResult
<1>4. old \in [unwatched -> Service!OnDisk]
  <2>1. \A f \in Files : j.read[f] \in Texts \cup {Missing, Unread}
    BY <1>1 DEF Job, Contents
  <2> QED BY <1>1, <2>1 DEF Read, Service!OnDisk
<1>5. B \in SUBSET Service!Open
  BY <1>2, FilesFacts DEF Taken, OpenDocs
<1>6. Service!Open \cap DocFiles \subseteq B \cup Overlooked[r]
  <2>1. ~Rejected(j) => r \in DocFiles
    BY <1>1 DEF Rejected, DocFiles
  <2> QED BY <1>1, <1>2, <2>1 DEF Taken, Overlooked, OpenDocs, Awaited
<1>7. files = [f \in Files |-> Read(j, f)]
  BY DEF Read
<1>8. Result(Adopted(j)) = Service!Analysis(r, files, B)
  BY <1>7, AnalysisAdopted
<1> HIDE DEF B, old
<1>9. /\ docs' = [docs EXCEPT ![r] = Adopted(j)] /\ jobs' = jobs \ {j}
      /\ UNCHANGED <<settings, disk, unwatched>>
  BY DEF Adopt
<1>10. EditorTexts' = EditorTexts /\ \A w \in Uris : docs'[w].open = docs[w].open
  BY AdoptWrites
<1>11. \A w \in Uris : docs'[w].generation = docs[w].generation
  BY <1>1, <1>9, AdoptedType DEF Inv
<1>12. Overlooked' \in [Uris -> SUBSET DocFiles]
       /\ \A w \in Uris : Overlooked'[w] \subseteq Overlooked[w]
  BY <1>9, <1>10, <1>11, FilesFacts DEF Overlooked
<1>13. Results' = [Results EXCEPT ![r] = Service!Analysis(r, files, B)]
  <2>1. docs'[r] = Adopted(j) /\ docs'[r].open /\ docs'[r].status # "pending"
    <3>1. docs'[r].status # "pending"
      BY AdoptKeepsDocuments
    <3> QED BY <1>1, <1>9, <1>10, <3>1
  <2>2. Results'[r] = Result(Adopted(j))
    BY <1>1, <2>1 DEF Results, Result
  <2>3. \A w \in Uris : w # r => Results'[w] = Results[w]
    BY <1>1, <1>9 DEF Results, Result
  <2> HIDE DEF files
  <2> QED BY <1>1, <1>8, <2>2, <2>3 DEF Results
<1>14. Service!Show(r)
  <2>1. Results' = [Results EXCEPT ![r] =
          Service!Analysis(r, Service!Seen(old), B)]
    BY <1>13, ServiceNames DEF Service!Seen
  <2> HIDE DEF files
  <2> QED BY <1>2, <1>3, <1>4, <1>5, <1>6, <1>9, <1>10, <1>12, <2>1 DEF Service!Show
<1> QED BY <1>1, <1>14 DEF Service!Next

LEMMA InitPromised == Init => Service!Init
<1> SUFFICES ASSUME Init
             PROVE  Service!Init
  OBVIOUS
<1>1. docs = [u \in Uris |-> Closed] /\ ~Closed.open /\ jobs = {}
  BY ClosedType DEF Init
<1>2. EditorTexts = [u \in Uris |-> Unread] /\ Results = [u \in Uris |-> NoResult]
      /\ Overlooked = [u \in Uris |-> {}]
  BY <1>1 DEF EditorTexts, Results, Overlooked
<1>3. settings \in Settings
  BY SessionAssumption DEF Init, Closed
<1> QED BY <1>2, <1>3, ServiceNames DEF Init, Service!Init, Service!OnDisk

LEMMA EventPromised ==
  ASSUME Inv, Tasks, Watched, Owing, Written, NEW j \in jobs,
         ProjectProcessingCompleted(j) \/ ProjectValidationCompleted(j)
  PROVE  Service!Next
<1>1. CASE Ignore(j)
  BY <1>1, TasksPromised DEF Ignore
<1>2. CASE SnapshotIsCurrent(j) /\ Retry(j)
  BY <1>2, RetryPromised
<1>3. CASE /\ SnapshotIsCurrent(j) /\ SourcesAreCurrent(j) /\ Adopt(j) /\ Returned(j)
           /\ Rejected(j) \/ (j.stage = "validated" /\ j.valid)
  BY <1>3, AdoptPromised
<1>4. CASE /\ Advance(j, [j EXCEPT !.stage = "queued"])
           /\ UNCHANGED <<docs, settings, disk, unwatched>>
  <2>1. LET k == [j EXCEPT !.stage = "queued"]
        IN  k.uri = j.uri /\ k.generation = j.generation /\ k.captured = j.captured
    BY DEF Inv, TypeOK, Job
  <2> QED BY <1>4, <2>1, TasksPromised DEF Advance
<1> QED BY <1>1, <1>2, <1>3, <1>4
        DEF ProjectProcessingCompleted, ProjectValidationCompleted, Returned

LEMMA RuntimePromised ==
  ASSUME Inv, NEW j \in jobs,
         \/ StartProcessing(j) \/ FinishProcessing(j)
         \/ StartValidation(j) \/ FinishValidation(j)
         \/ \E f \in Files : ReadResource(j, f) \/ CheckObservation(j, f)
  PROVE  Service!Next
<1>1. /\ UNCHANGED <<docs, settings, disk, unwatched>>
      /\ \/ jobs' = jobs \ {j}
         \/ \E k : SameTask(j, k) /\ Advance(j, k)
  BY RuntimeStep DEF TaskOnly, session
<1> QED BY <1>1, TasksPromised DEF Advance, SameTask

LEMMA ShutdownPromised ==
  ASSUME Shutdown
  PROVE  Service!Next
BY TasksPromised DEF Shutdown

LEMMA WriteFilePromised ==
  ASSUME NEW f \in Files, NEW c \in Texts \cup {Missing}, WriteFile(f, c)
  PROVE  Service!Next
<1>1. /\ disk' = [disk EXCEPT ![f] = c] /\ unwatched' = unwatched \cup {f}
      /\ UNCHANGED <<docs, settings, jobs>>
  BY DEF WriteFile, session
<1>2. UNCHANGED <<EditorTexts, settings, Results, Overlooked>>
  BY <1>1 DEF EditorTexts, Results, Overlooked
<1>3. Service!Write(f, c)
  BY <1>1, <1>2 DEF Service!Write
<1> QED BY <1>3, ServiceNames DEF Service!Next, Service!OnDisk

LEMMA IdlePromised ==
  ASSUME UNCHANGED <<docs, settings, jobs, disk, unwatched>>
  PROVE  UNCHANGED Service!vars
BY DEF Service!vars, EditorTexts, Results, Overlooked

LEMMA StepPromised ==
  Inv /\ Tasks /\ Watched /\ Owing /\ Written /\ [Next]_vars => [Service!Next]_(Service!vars)
<1> SUFFICES ASSUME Inv, Tasks, Watched, Owing, Written, [Next]_vars
             PROVE  Service!Next \/ UNCHANGED Service!vars
  OBVIOUS
<1>0. ReadsObserved
  BY DEF Watched
<1>1. CASE Client
  <2>1. CASE \E u \in Uris, v \in OpenVersions, t \in Texts : t \in Edits[u] /\ DidOpen(u, v, t)
    BY <1>0, <2>1, OpenPromised
  <2>2. CASE \E u \in Uris, v \in 1..MaxVersion, t \in Texts :
               t \in Edits[u] /\ DidChange(u, v, t)
    BY <1>0, <2>2, ChangePromised
  <2>3. CASE \E u \in Uris : DidSave(u)
    BY <2>3, IdlePromised DEF DidSave, session
  <2>4. CASE \E u \in Uris : DidClose(u)
    BY <1>0, <2>4, ClosePromised
  <2>5. CASE \E F \in SUBSET unwatched \ {{}} : DidChangeWatchedFiles(F)
    BY <1>0, <2>5, ReportPromised
  <2>6. CASE \E s \in Settings : DidChangeConfiguration(s)
    BY <2>6, ReconfigurePromised
  <2>7. CASE Shutdown
    BY <2>7, ShutdownPromised
  <2> QED BY <1>1, <2>1, <2>2, <2>3, <2>4, <2>5, <2>6, <2>7 DEF Client
<1>2. CASE Runtime
  <2>1. CASE \E j \in jobs :
               \/ StartProcessing(j) \/ FinishProcessing(j)
               \/ StartValidation(j) \/ FinishValidation(j)
               \/ \E f \in Files : ReadResource(j, f) \/ CheckObservation(j, f)
    BY <2>1, RuntimePromised
  <2>2. CASE AbandonedReturn
    BY <2>2, IdlePromised DEF AbandonedReturn, session
  <2>3. CASE \E j \in jobs : ProjectProcessingCompleted(j) \/ ProjectValidationCompleted(j)
    BY <2>3, EventPromised
  <2> QED BY <1>2, <2>1, <2>2, <2>3 DEF Runtime
<1>3. CASE Environment
  BY <1>3, WriteFilePromised DEF Environment
<1>4. CASE UNCHANGED vars
  BY <1>4, IdlePromised DEF vars, session
<1> QED BY <1>1, <1>2, <1>3, <1>4 DEF Next

(* Whatever the interleaving of edits, file changes, reads, validations    *)
(* and retries, and for every set of documents, texts and includes: what   *)
(* the server knows of a document is what one analysis of the workspace as *)
(* it is gives, and goes when something it rests on changes.               *)
THEOREM SessionAsPromised == Spec => Implements
<1>1. Spec => [](Inv /\ Tasks /\ Watched)
  <2>1. Init => Inv /\ Tasks /\ Watched
    BY InitInv, InitTasks, InitWatched
  <2>2. Inv /\ Tasks /\ Watched /\ [Next]_vars => (Inv /\ Tasks /\ Watched)'
    BY NextInv, NextTasks, NextWatched
  <2> QED BY <2>1, <2>2, PTL DEF Spec
<1>2. Init => Owing /\ Written
  BY InitOwing, InitWritten
<1>3. (Inv /\ Tasks /\ Watched) /\ (Owing /\ Written) /\ [Next]_vars => (Owing /\ Written)'
  BY NextOwing, NextWritten
<1>4. (Inv /\ Tasks /\ Watched) /\ (Owing /\ Written) /\ [Next]_vars
        => [Service!Next]_(Service!vars)
  BY StepPromised
<1> QED BY <1>1, <1>2, <1>3, <1>4, InitPromised, PTL DEF Spec, Implements, Service!Spec

-----------------------------------------------------------------------------
(* A result stays the analysis of the workspace as it changes: what changes *)
(* and is not withdrawn with it was neither read nor reached.               *)

(* An analysis rests on the configuration and on whatever it reaches.      *)
LEMMA AnalysisRests ==
  ASSUME TypeOK, NEW r \in DocFiles, NEW old \in [unwatched -> Service!OnDisk],
         NEW B \in SUBSET Service!Open,
         Results[r] = Service!Analysis(r, Service!Seen(old), B)
  PROVE  /\ Service!RestsOn(r, Config)
         /\ Service!Seen(old)[Config] \notin Broken =>
              \A u \in Service!Reached(r, Service!Content(Service!Seen(old), B)) :
                Service!RestsOn(r, u)
<1> DEFINE files == Service!Seen(old)
           content == Service!Content(files, B)
<1>1. Service!Files = Files /\ Unread \notin Service!OnDisk
  BY ServiceNames, SessionAssumption DEF Service!OnDisk
<1>2. \A f \in Files : files[f] \in Service!OnDisk
  BY <1>1 DEF TypeOK, Service!Seen, Service!OnDisk
<1>3. \A u \in DocFiles : content[u] # Unread
  <2> HIDE DEF files
  <2> QED BY <1>1, <1>2, FilesFacts DEF Service!Content, Service!Open
<1>4. Service!Reached(r, content) \subseteq DocFiles
  BY DEF Service!Reached
<1> HIDE DEF files, content
<1>5. CASE files[Config] \in Broken
  <2>1. Results[r] = Service!Problem(files[Config])
    BY <1>5 DEF Service!Analysis, files
  <2>2. Results[r].read[Config] = files[Config]
    BY <1>1, <2>1, FilesFacts DEF Service!Problem
  <2> QED BY <1>1, <1>2, <1>5, <2>2, FilesFacts DEF Service!RestsOn, files
<1>6. CASE files[Config] \notin Broken
  <2>1. Results[r] = Service!View(r, files, B)
    BY <1>6 DEF Service!Analysis, files
  <2>2. Results[r].read = [f \in Files |-> IF f = Config THEN files[f]
                             ELSE IF f \in Service!Reached(r, content) THEN content[f] ELSE Unread]
    BY <1>1, <2>1 DEF Service!View, content
  <2>3. Results[r].read[Config] = files[Config]
    BY <2>2, FilesFacts
  <2>4. \A u \in Service!Reached(r, content) : Results[r].read[u] = content[u]
    BY <1>4, <2>2, FilesFacts
  <2> QED BY <1>1, <1>2, <1>3, <1>4, <2>3, <2>4, FilesFacts DEF Service!RestsOn, content, files
<1> QED BY <1>5, <1>6

(* An analysis is the same if what it rests on is.                         *)
LEMMA SameAnalysis ==
  ASSUME NEW r \in Uris, settings' = settings, NEW old, NEW B, NEW new, NEW C,
         r \in DocFiles =>
           /\ Service!Seen(new)'[Config] = Service!Seen(old)[Config]
           /\ Service!Seen(old)[Config] \notin Broken =>
                \A u \in Service!Reached(r, Service!Content(Service!Seen(old), B)) :
                  /\ Service!Content(Service!Seen(new), C)'[u]
                       = Service!Content(Service!Seen(old), B)[u]
                  /\ u \in C <=> u \in B
  PROVE  Service!Analysis(r, Service!Seen(new), C)' = Service!Analysis(r, Service!Seen(old), B)
<1> DEFINE files == Service!Seen(old)
           content == Service!Content(files, B)
           later == Service!Seen(new)'
           changed == Service!Content(Service!Seen(new), C)'
           reached == Service!Reached(r, content)
<1> HIDE DEF files, content, later, changed, reached
<1>0. Service!Files = Files /\ Config \in Files
  BY ServiceNames, FilesFacts
<1>1. CASE r \notin DocFiles
  BY <1>1 DEF Service!Analysis, Service!Problem
<1>2. CASE r \in DocFiles /\ files[Config] \in Broken
  BY <1>2 DEF Service!Analysis, Service!Problem, files
<1>3. CASE r \in DocFiles /\ files[Config] \notin Broken
  <2>1. \A u \in reached : changed[u] = content[u] /\ (u \in C <=> u \in B)
    BY <1>3 DEF files, content, changed, reached
  <2>2. Service!Reached(r, changed) = reached
    BY <1>3, <2>1, ReachedBy DEF reached
  <2>3. later[Config] = files[Config]
    BY <1>3 DEF files, later
  <2>4. Service!View(r, files, B) =
          [status |-> "view", used |-> B \cap reached, settings |-> settings,
           read |-> [f \in Files |-> IF f = Config THEN files[f]
                                     ELSE IF f \in reached THEN content[f] ELSE Unread]]
    BY <1>0 DEF Service!View, reached, content
  <2>5. Service!View(r, Service!Seen(new), C)' =
          [status |-> "view", used |-> C \cap reached, settings |-> settings',
           read |-> [f \in Files |-> IF f = Config THEN later[f]
                                     ELSE IF f \in reached THEN changed[f] ELSE Unread]]
    BY <1>0, <2>2 DEF Service!View, changed, later
  <2>6. C \cap reached = B \cap reached
    BY <2>1
  <2>7. [f \in Files |-> IF f = Config THEN later[f]
                         ELSE IF f \in reached THEN changed[f] ELSE Unread]
          = [f \in Files |-> IF f = Config THEN files[f]
                             ELSE IF f \in reached THEN content[f] ELSE Unread]
    BY <2>1, <2>3
  <2>8. Service!View(r, Service!Seen(new), C)' = Service!View(r, files, B)
    BY <2>4, <2>5, <2>6, <2>7
  <2> QED BY <1>3, <2>3, <2>8 DEF Service!Analysis, files, later
<1> QED BY <1>1, <1>2, <1>3

(* The change and the report of a file, and the change of a text, leave    *)
(* alone every result they do not withdraw.                                *)
LEMMA EditKeepsCurrent ==
  ASSUME TypeOK, Service!Current, NEW u \in Uris, NEW t, NEW U, Service!Edit(u, t, U)
  PROVE  Service!Current'
<1> SUFFICES ASSUME NEW r \in Uris, Results'[r].status # "pending"
             PROVE  /\ r \in Service!Open'
                    /\ \E new \in [unwatched' -> Service!OnDisk], C \in SUBSET Service!Open' :
                         Results'[r] = Service!Analysis(r, Service!Seen(new), C)'
  BY DEF Service!Current
<1>1. /\ EditorTexts' = [EditorTexts EXCEPT ![u] = t] /\ u \in U
      /\ ~Service!RestsOn(r, u) \/ r \in U
      /\ UNCHANGED <<settings, disk, unwatched>>
      /\ Results' = [q \in Uris |-> IF q \in U THEN NoResult ELSE Results[q]]
  BY ServiceNames DEF Service!Edit, Service!Withdraw
<1>2. r \notin U /\ Results'[r] = Results[r] /\ r # u
  BY <1>1 DEF NoResult
<1>3. PICK old \in [unwatched -> Service!OnDisk], B \in SUBSET Service!Open :
        r \in Service!Open /\ Results[r] = Service!Analysis(r, Service!Seen(old), B)
  BY <1>2 DEF Service!Current
<1>4. /\ EditorTexts \in [Uris -> {EditorTexts[w] : w \in Uris}]
      /\ \A w \in Uris \ {u} : EditorTexts'[w] = EditorTexts[w]
  BY <1>1 DEF EditorTexts
<1>5. Service!Open \ {u} \subseteq Service!Open'
  BY <1>4 DEF Service!Open
<1> DEFINE C == B \ {u}
<1>6. C \in SUBSET Service!Open' /\ r \in Service!Open'
  BY <1>2, <1>3, <1>5
<1>7. Service!Seen(old)' = Service!Seen(old)
  BY <1>1 DEF Service!Seen
<1>8. ASSUME r \in DocFiles, Service!Seen(old)[Config] \notin Broken,
             NEW w \in Service!Reached(r, Service!Content(Service!Seen(old), B))
      PROVE  /\ Service!Content(Service!Seen(old), C)'[w]
                  = Service!Content(Service!Seen(old), B)[w]
             /\ w \in C <=> w \in B
  <2>1. w \in DocFiles /\ Service!RestsOn(r, w)
    BY <1>3, <1>8, AnalysisRests DEF Service!Reached
  <2>2. w # u
    BY <1>1, <1>2, <2>1
  <2>3. Service!Content(Service!Seen(old), C)'[w]
          = IF w \in C THEN EditorTexts'[w] ELSE Service!Seen(old)[w]
    BY <1>7, <2>1 DEF Service!Content
  <2>4. Service!Content(Service!Seen(old), B)[w]
          = IF w \in B THEN EditorTexts[w] ELSE Service!Seen(old)[w]
    BY <2>1 DEF Service!Content
  <2> QED BY <1>4, <2>1, <2>2, <2>3, <2>4, FilesFacts
<1> HIDE DEF C
<1>9. Service!Analysis(r, Service!Seen(old), C)' = Service!Analysis(r, Service!Seen(old), B)
  BY <1>1, <1>7, <1>8, SameAnalysis
<1> QED BY <1>1, <1>2, <1>3, <1>6, <1>9

LEMMA WriteKeepsCurrent ==
  ASSUME TypeOK, Service!Current, NEW f \in Files, NEW c, Service!Write(f, c)
  PROVE  Service!Current'
<1> SUFFICES ASSUME NEW r \in Uris, Results'[r].status # "pending"
             PROVE  /\ r \in Service!Open'
                    /\ \E new \in [unwatched' -> Service!OnDisk], C \in SUBSET Service!Open' :
                         Results'[r] = Service!Analysis(r, Service!Seen(new), C)'
  BY DEF Service!Current
<1>1. /\ disk' = [disk EXCEPT ![f] = c] /\ unwatched' = unwatched \cup {f}
      /\ UNCHANGED <<EditorTexts, settings, Results>>
  BY DEF Service!Write
<1>2. PICK old \in [unwatched -> Service!OnDisk], B \in SUBSET Service!Open :
        r \in Service!Open /\ Results[r] = Service!Analysis(r, Service!Seen(old), B)
  BY <1>1 DEF Service!Current
<1>3. Service!Open' = Service!Open
  BY <1>1 DEF Service!Open
<1>4. PICK new : new = [g \in unwatched' |-> IF g \in unwatched THEN old[g] ELSE disk[g]]
  OBVIOUS
<1>5. new \in [unwatched' -> Service!OnDisk]
  BY <1>1, <1>4 DEF TypeOK, Service!OnDisk
<1>6. Service!Seen(new)' = Service!Seen(old)
  <2>1. ASSUME NEW g \in Files
        PROVE  (IF g \in unwatched' THEN new[g] ELSE disk'[g])
                 = IF g \in unwatched THEN old[g] ELSE disk[g]
    BY <1>1, <1>4 DEF TypeOK
  <2> QED BY <2>1, ServiceNames DEF Service!Seen
<1>7. Service!Content(Service!Seen(new), B)' = Service!Content(Service!Seen(old), B)
  BY <1>1, <1>6 DEF Service!Content
<1>8. Service!Analysis(r, Service!Seen(new), B)' = Service!Analysis(r, Service!Seen(old), B)
  BY <1>1, <1>6, <1>7, SameAnalysis
<1> QED BY <1>1, <1>2, <1>3, <1>5, <1>8

LEMMA ReportKeepsCurrent ==
  ASSUME TypeOK, Service!Current, NEW F \in SUBSET unwatched, NEW U, Service!Report(F, U)
  PROVE  Service!Current'
<1> SUFFICES ASSUME NEW r \in Uris, Results'[r].status # "pending"
             PROVE  /\ r \in Service!Open'
                    /\ \E new \in [unwatched' -> Service!OnDisk], C \in SUBSET Service!Open' :
                         Results'[r] = Service!Analysis(r, Service!Seen(new), C)'
  BY DEF Service!Current
<1>1. /\ unwatched' = unwatched \ F /\ UNCHANGED <<EditorTexts, settings, disk>>
      /\ r \notin U => \A f \in F : ~Service!RestsOn(r, f)
      /\ Results' = [q \in Uris |-> IF q \in U THEN NoResult ELSE Results[q]]
  BY ServiceNames DEF Service!Report, Service!Withdraw
<1>2. r \notin U /\ Results'[r] = Results[r]
  BY <1>1 DEF NoResult
<1>3. PICK old \in [unwatched -> Service!OnDisk], B \in SUBSET Service!Open :
        r \in Service!Open /\ Results[r] = Service!Analysis(r, Service!Seen(old), B)
  BY <1>2 DEF Service!Current
<1>4. Service!Open' = Service!Open
  BY <1>1 DEF Service!Open
<1>5. PICK new : new = [g \in unwatched' |-> old[g]]
  OBVIOUS
<1>6. new \in [unwatched' -> Service!OnDisk]
  BY <1>1, <1>5
<1>7. \A g \in Files \ F : Service!Seen(new)'[g] = Service!Seen(old)[g]
  BY <1>1, <1>5, ServiceNames DEF Service!Seen
<1>8. r \in DocFiles => Service!Seen(new)'[Config] = Service!Seen(old)[Config]
  BY <1>1, <1>2, <1>3, <1>7, AnalysisRests, FilesFacts
<1>9. ASSUME r \in DocFiles, Service!Seen(old)[Config] \notin Broken,
             NEW w \in Service!Reached(r, Service!Content(Service!Seen(old), B))
      PROVE  Service!Content(Service!Seen(new), B)'[w]
               = Service!Content(Service!Seen(old), B)[w]
  <2>1. w \in DocFiles /\ Service!RestsOn(r, w)
    BY <1>3, <1>9, AnalysisRests DEF Service!Reached
  <2>2. Service!Seen(new)'[w] = Service!Seen(old)[w]
    BY <1>1, <1>2, <1>7, <2>1, FilesFacts
  <2>3. Service!Content(Service!Seen(new), B)'[w]
          = IF w \in B THEN EditorTexts'[w] ELSE Service!Seen(new)'[w]
    BY <2>1 DEF Service!Content
  <2>4. Service!Content(Service!Seen(old), B)[w]
          = IF w \in B THEN EditorTexts[w] ELSE Service!Seen(old)[w]
    BY <2>1 DEF Service!Content
  <2> QED BY <1>1, <2>2, <2>3, <2>4
<1>10. Service!Analysis(r, Service!Seen(new), B)' = Service!Analysis(r, Service!Seen(old), B)
  BY <1>1, <1>8, <1>9, SameAnalysis
<1> QED BY <1>1, <1>2, <1>3, <1>4, <1>6, <1>10

LEMMA ShowKeepsCurrent ==
  ASSUME Service!Current, NEW q \in Uris, Service!Show(q)
  PROVE  Service!Current'
<1> SUFFICES ASSUME NEW r \in Uris, Results'[r].status # "pending"
             PROVE  /\ r \in Service!Open'
                    /\ \E new \in [unwatched' -> Service!OnDisk], C \in SUBSET Service!Open' :
                         Results'[r] = Service!Analysis(r, Service!Seen(new), C)'
  BY DEF Service!Current
<1>1. UNCHANGED <<EditorTexts, settings, disk, unwatched>>
  BY DEF Service!Show
<1>2. Service!Open' = Service!Open
  BY <1>1 DEF Service!Open
<1>3. \A old, B : Service!Analysis(r, Service!Seen(old), B)' = Service!Analysis(r, Service!Seen(old), B)
  <2> TAKE old, B
  <2>1. Service!Seen(old)' = Service!Seen(old)
    BY <1>1 DEF Service!Seen
  <2>2. Service!Content(Service!Seen(old), B)' = Service!Content(Service!Seen(old), B)
    BY <1>1, <2>1 DEF Service!Content
  <2> QED BY <1>1, <2>1, <2>2, SameAnalysis
<1>4. PICK old \in [unwatched -> Service!OnDisk], B \in SUBSET Service!Open :
        r \in Service!Open /\ Results'[r] = Service!Analysis(r, Service!Seen(old), B)
  <2>1. Results \in [Uris -> {Results[w] : w \in Uris}]
    BY DEF Results
  <2>2. CASE r = q
    BY <2>1, <2>2 DEF Service!Show
  <2>3. CASE r # q
    <3>1. Results'[r] = Results[r]
      BY <2>1, <2>3 DEF Service!Show
    <3> QED BY <3>1 DEF Service!Current
  <2> QED BY <2>2, <2>3
<1> QED BY <1>1, <1>2, <1>3, <1>4

LEMMA SameStateCurrent ==
  ASSUME Service!Current, UNCHANGED <<EditorTexts, settings, disk, unwatched>>,
         \A r \in Uris : Results'[r] = Results[r] \/ Results'[r] = NoResult
  PROVE  Service!Current'
<1> SUFFICES ASSUME NEW r \in Uris, Results'[r].status # "pending"
             PROVE  /\ r \in Service!Open'
                    /\ \E new \in [unwatched' -> Service!OnDisk], C \in SUBSET Service!Open' :
                         Results'[r] = Service!Analysis(r, Service!Seen(new), C)'
  BY DEF Service!Current
<1>1. Results'[r] = Results[r]
  BY DEF NoResult
<1>2. PICK old \in [unwatched -> Service!OnDisk], B \in SUBSET Service!Open :
        r \in Service!Open /\ Results[r] = Service!Analysis(r, Service!Seen(old), B)
  BY <1>1 DEF Service!Current
<1>3. Service!Open' = Service!Open /\ Service!Seen(old)' = Service!Seen(old)
  BY DEF Service!Open, Service!Seen
<1>4. Service!Content(Service!Seen(old), B)' = Service!Content(Service!Seen(old), B)
  BY <1>3 DEF Service!Content
<1>5. Service!Analysis(r, Service!Seen(old), B)' = Service!Analysis(r, Service!Seen(old), B)
  BY <1>3, <1>4, SameAnalysis
<1> QED BY <1>1, <1>2, <1>3, <1>5

LEMMA NextCurrent ==
  TypeOK /\ Service!Current /\ [Service!Next]_(Service!vars) => Service!Current'
<1> SUFFICES ASSUME TypeOK, Service!Current, Service!Next \/ UNCHANGED Service!vars
             PROVE  Service!Current'
  OBVIOUS
<1>1. CASE Service!Restart
  BY <1>1, SameStateCurrent, ServiceNames DEF Service!Restart, Service!Withdraw
<1>2. CASE \E u \in Uris, t \in Texts \cup {Unread}, U \in SUBSET Uris : Service!Edit(u, t, U)
  BY <1>2, EditKeepsCurrent
<1>3. CASE \E f \in Service!Files, c \in Service!OnDisk : Service!Write(f, c)
  BY <1>3, ServiceNames, WriteKeepsCurrent
<1>4. CASE \E F \in SUBSET unwatched, U \in SUBSET Uris : Service!Report(F, U)
  BY <1>4, ReportKeepsCurrent
<1>5. CASE \E s \in Settings : Service!Reconfigure(s)
  <2>1. \A r \in Uris : Results'[r] = NoResult
    BY <1>5, ServiceNames DEF Service!Reconfigure, Service!Withdraw
  <2> QED BY <2>1 DEF Service!Current, NoResult
<1>6. CASE \E r \in Uris : Service!Show(r)
  BY <1>6, ShowKeepsCurrent
<1>7. CASE UNCHANGED Service!vars
  BY <1>7, SameStateCurrent DEF Service!vars
<1> QED BY <1>1, <1>2, <1>3, <1>4, <1>5, <1>6, <1>7 DEF Service!Next

(* However long ago it was computed and whatever was edited, written,      *)
(* reported, opened and closed since: every result the server holds is the *)
(* one an analysis would give now, of the editors' texts and the files, up *)
(* to changes the watcher has still to report.                             *)
THEOREM ResultsStayCurrent == Spec => []ResultsAreCurrent
<1>1. Spec => []TypeOK
  BY TypeCorrect
<1>2. Spec => Service!Init /\ [][Service!Next]_(Service!vars)
  BY SessionAsPromised DEF Implements, Service!Spec
<1>3. Service!Init => Service!Current
  <2>1. \A r \in Uris : NoResult.status = "pending"
    BY DEF NoResult
  <2> QED BY <2>1, ServiceNames DEF Service!Init, Service!Current
<1>4. TypeOK /\ Service!Current /\ [Service!Next]_(Service!vars) => Service!Current'
  BY NextCurrent
<1> QED BY <1>1, <1>2, <1>3, <1>4, PTL DEF ResultsAreCurrent

-----------------------------------------------------------------------------
(* After the last notification.  LspConvergence is what is left of the     *)
(* session when every open document has been given a new snapshot and      *)
(* neither the client nor the files change any more: the stage of the      *)
(* analysis each document waits for, and which of the generations it has   *)
(* captured are superseded.                                                *)

FileDocs == OpenDocs(docs) \cap DocFiles

(* What each document keeps of what it captured: the open documents it     *)
(* reaches in the texts as they are.                                       *)
Keeping ==
  [d \in FileDocs |->
     IF disk[Config] \in Broken THEN FileDocs
     ELSE FileDocs \cap Service!Reached(d, Service!Content(disk, FileDocs))]

Analyses(d) == {j \in jobs : j.uri = d /\ Awaited(j)}
Stage(d) == IF Analyses(d) = {} THEN "adopted" ELSE (CHOOSE j \in Analyses(d) : TRUE).stage
Outdated(d) ==
  {e \in FileDocs : \E j \in Analyses(d) : j.captured[e].generation # docs[e].generation}

Converging(D, K) == INSTANCE LspConvergence
  WITH Docs <- D, Keeps <- K,
       stage <- [d \in D |-> Stage(d)], stale <- [d \in D |-> K[d] \cap Outdated(d)]

(* An analysis begun after the last notification: it has the texts and the *)
(* files as they are, and what it validates is unchanged.                  *)
Undisturbed(j) ==
  /\ j.version = docs[j.uri].version
  /\ \A w \in FileDocs : j.captured[w].generation # 0 /\ j.captured[w].text = docs[w].text
  /\ \A w \in Uris \ FileDocs : j.captured[w].generation = 0
  /\ \A f \in Files : j.read[f] \in {Unread, disk[f]}
  /\ j.stage = "validating" => \A f \in j.unchecked : j.read[f] = disk[f]
  /\ j.stage = "validated" => j.valid

Calm(D, K) ==
  /\ running /\ FileDocs = D /\ Keeping = K
  /\ \A d \in D : \A j \in Analyses(d) : Undisturbed(j)

(* What an analysis that has returned rests on is what its document keeps. *)
LEMMA RetainedKept ==
  ASSUME Inv, Tasks, Owing, running, NEW d \in FileDocs, NEW j \in Analyses(d),
         Undisturbed(j), Returned(j)
  PROVE  /\ ~Rejected(j) /\ SnapshotIsCurrent(j)
         /\ \A f \in Candidates(j) : j.read[f] = disk[f]
         /\ Retained(j) = Keeping[d]
         /\ SourcesAreCurrent(j) <=> Keeping[d] \cap Outdated(d) = {}
<1>1. /\ j \in jobs /\ j \in Job /\ j.uri = d /\ Awaited(j) /\ d \in DocFiles /\ docs[d].open
      /\ docs \in [Uris -> Document] /\ disk \in [Files -> Texts \cup {Missing}]
      /\ FileDocs \subseteq DocFiles
  BY DEF Analyses, FileDocs, OpenDocs, Inv, TypeOK
<1>2. d \in Uris /\ d \notin NonFile /\ ~Rejected(j)
  BY <1>1 DEF DocFiles, Rejected
<1>3. j.generation \notin cancelled
  BY <1>1, <1>2 DEF Tasks, Uncancelled, Awaited, OpenDocs
<1>4. SnapshotIsCurrent(j)
  BY <1>1, <1>3 DEF SnapshotIsCurrent, Undisturbed, Awaited
<1>5. Frontier(j) = {}
  BY <1>1, <1>3 DEF Owing, Thorough
<1>6. j.read[Config] = disk[Config]
  <2>1. CASE ConfigFailed(j)
    BY <2>1, FilesFacts, SessionAssumption DEF ConfigFailed, Undisturbed
  <2>2. CASE ~ConfigFailed(j)
    BY <1>2, <1>5, <2>2, FilesFacts DEF Frontier, Undisturbed
  <2> QED BY <2>1, <2>2
<1>7. ConfigFailed(j) <=> disk[Config] \in Broken
  BY <1>6 DEF ConfigFailed
<1>8. Needed(j) \subseteq DocFiles
  BY NeededDocuments
<1>9. \A w \in DocFiles : j.captured[w].generation = 0 <=> w \notin FileDocs
  BY FilesFacts DEF Undisturbed
<1>10. ASSUME ~ConfigFailed(j), NEW w \in Needed(j)
       PROVE  /\ Service!Content(disk, FileDocs)[w] = Known(j, w)
              /\ w \notin FileDocs => j.read[w] = disk[w]
  <2>1. w \in DocFiles /\ w \in Uris /\ w \in Files
    BY <1>8, FilesFacts
  <2>2. Known(j, w) # Unread
    <3>1. j.read[Config] # Unread
      BY <1>1, <1>6, FilesFacts, SessionAssumption
    <3> QED BY <1>2, <1>5, <1>10, <3>1 DEF Frontier
  <2>3. CASE w \in FileDocs
    <3>1. docs[w].open /\ Known(j, w) = docs[w].text
      BY <2>1, <2>3 DEF Known, Undisturbed, FileDocs, OpenDocs
    <3>2. EditorTexts[w] = docs[w].text
      BY <2>1, <3>1 DEF EditorTexts
    <3> QED BY <2>1, <2>3, <3>1, <3>2 DEF Service!Content
  <2>4. CASE w \notin FileDocs
    <3>1. Known(j, w) = j.read[w]
      BY <1>9, <2>1, <2>4 DEF Known
    <3>2. j.read[w] = disk[w]
      BY <2>1, <2>2, <3>1 DEF Undisturbed
    <3> QED BY <2>1, <2>4, <3>1, <3>2 DEF Service!Content
  <2> QED BY <2>3, <2>4
<1>11. ~ConfigFailed(j) => Service!Reached(d, Service!Content(disk, FileDocs)) = Needed(j)
  BY <1>1, <1>10, NeededReached
<1>12. ASSUME NEW f \in Candidates(j)
       PROVE  j.read[f] = disk[f]
  <2>1. CASE f = Config
    BY <1>6, <2>1
  <2>2. CASE f # Config
    <3>1. ~ConfigFailed(j) /\ f \in Needed(j) /\ j.captured[f].generation = 0
      BY <1>2, <2>2, <1>12 DEF Candidates, Observed
    <3> QED BY <1>8, <1>9, <1>10, <3>1
  <2> QED BY <2>1, <2>2
<1>13. \A u \in Uris : j.captured[u].generation # 0 <=> u \in FileDocs
  BY DEF Undisturbed
<1>14. Retained(j) = Keeping[d]
  <2>0. FileDocs \subseteq Uris
    BY <1>1, FilesFacts
  <2>1. Retained(j) = {u \in FileDocs : ConfigFailed(j) \/ u \in Needed(j)}
    BY <1>13, <2>0 DEF Retained
  <2>2. Keeping[d] = IF disk[Config] \in Broken THEN FileDocs
                     ELSE FileDocs \cap Service!Reached(d, Service!Content(disk, FileDocs))
    BY DEF Keeping
  <2> QED BY <1>7, <1>11, <2>1, <2>2
<1>15. Analyses(d) = {j}
  BY <1>1 DEF Analyses, Awaited, Tasks, OneJob
<1>16. \A u \in Retained(j) : RevisionIsCurrent(u, j.captured[u]) <=> u \notin Outdated(d)
  <2> SUFFICES ASSUME NEW u \in Retained(j)
               PROVE  RevisionIsCurrent(u, j.captured[u]) <=> u \notin Outdated(d)
    OBVIOUS
  <2>1. u \in Uris /\ u \in FileDocs /\ docs[u].open /\ u \in OpenDocs(docs)
    BY <1>13 DEF Retained, FileDocs, OpenDocs
  <2>2. docs[u].generation = j.captured[u].generation => docs[u].version = j.captured[u].version
    BY <1>1, <2>1 DEF Inv, Consistent, GenerationsNameTexts
  <2>3. u \in Outdated(d) <=> j.captured[u].generation # docs[u].generation
    BY <1>15, <2>1 DEF Outdated
  <2> QED BY <2>1, <2>2, <2>3 DEF RevisionIsCurrent
<1>17. SourcesAreCurrent(j) <=> Keeping[d] \cap Outdated(d) = {}
  BY <1>14, <1>16 DEF SourcesAreCurrent
<1> QED BY <1>2, <1>4, <1>12, <1>14, <1>17

(* A document waits for one analysis, whose stage is the document's.       *)
LEMMA OneAnalysis ==
  ASSUME Tasks, NEW d, NEW j \in Analyses(d)
  PROVE  /\ Analyses(d) = {j} /\ Stage(d) = j.stage
         /\ Outdated(d) = {e \in FileDocs : j.captured[e].generation # docs[e].generation}
<1>1. Analyses(d) = {j}
  BY DEF Analyses, Awaited, Tasks, OneJob
<1>2. (CHOOSE i \in Analyses(d) : TRUE) = j
  BY <1>1
<1> QED BY <1>1, <1>2 DEF Stage, Outdated

LEMMA SameCardinality ==
  ASSUME NEW D, NEW K, NEW S
  PROVE  Converging(D, K)!Cardinality(S) = Cardinality(S)
BY DEF Cardinality, Converging!Cardinality

(* The awaited analyses are some of those that hold a permit.              *)
LEMMA PermitsLeft ==
  ASSUME Inv, Tasks, NEW D, D = FileDocs, NEW K, Permits > 0
  PROVE  Converging(D, K)!Permits > 0
<1> DEFINE busy == {d \in D : Stage(d) \in {"processing", "validating"}}
           T == Threads(jobs)
           f == [j \in T |-> j.uri]
           image == {f[j] : j \in T}
<1>1. IsFiniteSet(T) /\ Cardinality(T) \in Nat
  BY FS_Subset, FS_CardinalityType DEF Inv, TypeOK, Threads
<1>2. f \in Surjection(T, image)
  BY DEF Surjection
<1>3. IsFiniteSet(image) /\ Cardinality(image) <= Cardinality(T)
  <2> HIDE DEF f, image, T
  <2> QED BY <1>1, <1>2, FS_Surjection
<1>4. busy \subseteq image
  <2> SUFFICES ASSUME NEW d \in busy
               PROVE  d \in image
    OBVIOUS
  <2>1. Analyses(d) # {}
    BY DEF Stage
  <2>2. PICK j : j \in Analyses(d)
    BY <2>1
  <2>3. Stage(d) = j.stage
    BY <2>2, OneAnalysis
  <2>4. j \in T /\ j.uri = d
    BY <2>2, <2>3 DEF Analyses, Threads
  <2> QED BY <2>4
<1> HIDE DEF image, T
<1>5. IsFiniteSet(busy) /\ Cardinality(busy) <= Cardinality(image)
  BY <1>3, <1>4, FS_Subset
<1>6. Cardinality(busy) \in Nat /\ Cardinality(image) \in Nat
  BY <1>3, <1>5, FS_CardinalityType
<1>7. Converging(D, K)!Permits = MaxAnalyses - Cardinality(busy)
  <2>1. {d \in D : [e \in D |-> Stage(e)][d] \in {"processing", "validating"}} = busy
    OBVIOUS
  <2> HIDE DEF busy
  <2> QED BY <2>1, SameCardinality DEF Converging!Permits
<1>8. Permits = MaxAnalyses - Cardinality(T)
  BY DEF Permits, T
<1> HIDE DEF busy
<1> QED BY <1>1, <1>3, <1>5, <1>6, <1>7, <1>8, SessionAssumption

(* What the runtime leaves alone of the documents.                         *)
SameEditors ==
  /\ disk' = disk /\ running' = running
  /\ \A u \in Uris : /\ docs'[u].open = docs[u].open
                     /\ docs'[u].version = docs[u].version
                     /\ docs'[u].text = docs[u].text

LEMMA ReanalyseKeepsEditors ==
  ASSUME Inv, Tasks, NEW U \in SUBSET OpenDocs(docs), Install(docs, {}, U),
         UNCHANGED <<disk, running>>
  PROVE  SameEditors
<1>1. Edited(docs, {}, U)
  BY DEF Edited, OpenDocs, Inv, TypeOK, Tasks, Versioned
<1>2. \A u \in Uris : docs'[u].open = docs[u].open /\ docs'[u].version = docs[u].version
  BY <1>1, InstallWatches
<1>3. \A u \in Uris : docs'[u].text = docs[u].text
  BY InstallWrites DEF Inv, TypeOK
<1> QED BY <1>2, <1>3 DEF SameEditors

LEMMA RuntimeKeepsEditors ==
  ASSUME Inv, Tasks, [Runtime]_vars
  PROVE  SameEditors
<1>1. CASE UNCHANGED <<docs, disk, running>>
  BY <1>1 DEF SameEditors
<1>2. CASE \E j \in jobs : SnapshotIsCurrent(j) /\ Retry(j)
  <2>1. PICK j \in jobs : SnapshotIsCurrent(j) /\ Retry(j)
    BY <1>2
  <2>2. {j.uri} \in SUBSET OpenDocs(docs)
    BY <2>1, Generations DEF SnapshotIsCurrent, OpenDocs
  <2>3. Install(docs, {}, {j.uri}) /\ UNCHANGED <<disk, running>>
    BY <2>1 DEF Retry
  <2> QED BY <2>2, <2>3, ReanalyseKeepsEditors
<1>3. CASE \E j \in jobs : Adopt(j)
  <2>1. PICK j \in jobs : Adopt(j)
    BY <1>3
  <2>2. docs' = [docs EXCEPT ![j.uri] = Adopted(j)] /\ UNCHANGED <<disk, running>>
        /\ docs \in [Uris -> Document]
    BY <2>1 DEF Adopt, Inv, TypeOK
  <2> QED BY <2>2, AdoptedType DEF SameEditors, Inv
<1>4. CASE \E j \in jobs : ProjectProcessingCompleted(j) \/ ProjectValidationCompleted(j)
  BY <1>1, <1>2, <1>3, <1>4
     DEF ProjectProcessingCompleted, ProjectValidationCompleted, Ignore
<1>5. CASE \E j \in jobs :
             \/ StartProcessing(j) \/ FinishProcessing(j)
             \/ StartValidation(j) \/ FinishValidation(j)
             \/ \E f \in Files : ReadResource(j, f) \/ CheckObservation(j, f)
  <2>1. TaskOnly
    BY <1>5, RuntimeStep
  <2> QED BY <1>1, <2>1 DEF TaskOnly, session
<1>6. CASE AbandonedReturn \/ UNCHANGED vars
  BY <1>1, <1>6 DEF AbandonedReturn, vars, session
<1> QED BY <1>4, <1>5, <1>6 DEF Runtime

LEMMA SameKeeping ==
  ASSUME SameEditors
  PROVE  FileDocs' = FileDocs /\ Keeping' = Keeping /\ EditorTexts' = EditorTexts
<1>1. FileDocs' = FileDocs
  BY FilesFacts DEF SameEditors, FileDocs, OpenDocs
<1>2. EditorTexts' = EditorTexts
  BY DEF SameEditors, EditorTexts
<1>3. Service!Content(disk, FileDocs)' = Service!Content(disk, FileDocs)
  BY <1>1, <1>2 DEF Service!Content, SameEditors
<1>4. Keeping' = Keeping
  BY <1>1, <1>3 DEF Keeping, SameEditors
<1> QED BY <1>1, <1>2, <1>4

(* What an analysis has is as good after such a step.                      *)
LEMMA StillUndisturbed ==
  ASSUME SameEditors, NEW j, j.uri \in Uris
  PROVE  Undisturbed(j)' <=> Undisturbed(j)
<1>1. FileDocs' = FileDocs /\ FileDocs \subseteq Uris
  BY SameKeeping DEF FileDocs, OpenDocs
<1> QED BY <1>1 DEF Undisturbed, SameEditors

(* Steps that concern no document of the file system, or a superseded      *)
(* analysis, are not seen.                                                 *)
LEMMA Unseen ==
  ASSUME NEW D, NEW K, Calm(D, K), SameEditors,
         \A d \in D : Analyses(d)' = Analyses(d) /\ docs'[d].generation = docs[d].generation
  PROVE  Calm(D, K)' /\ UNCHANGED Converging(D, K)!vars
<1>1. FileDocs' = D /\ FileDocs = D /\ Keeping' = K /\ D \subseteq Uris
  BY SameKeeping DEF Calm, FileDocs, OpenDocs
<1>2. \A d \in D : \A j \in Analyses(d) : Undisturbed(j)'
  BY <1>1, StillUndisturbed DEF Calm, Analyses
<1>3. ASSUME NEW d \in D
      PROVE  Stage(d)' = Stage(d) /\ Outdated(d)' = Outdated(d)
  <2>1. Analyses(d)' = Analyses(d) /\ \A e \in D : docs'[e].generation = docs[e].generation
    OBVIOUS
  <2>2. Stage(d)' = Stage(d)
    BY <2>1 DEF Stage
  <2>3. Outdated(d)' = Outdated(d)
    BY <1>1, <2>1 DEF Outdated
  <2> QED BY <2>2, <2>3
<1>4. UNCHANGED Converging(D, K)!vars
  BY <1>3 DEF Converging!vars
<1> QED BY <1>1, <1>2, <1>4 DEF Calm, SameEditors

LEMMA ElsewhereUnseen ==
  ASSUME Inv, NEW D, NEW K, Calm(D, K), SameEditors, NEW j \in jobs,
         \A d \in D : j \notin Analyses(d) /\ docs'[d].generation = docs[d].generation,
         jobs' = jobs \ {j} \/ \E k : SameTask(j, k) /\ Advance(j, k)
  PROVE  Calm(D, K)' /\ UNCHANGED Converging(D, K)!vars
<1>1. D \subseteq Uris
  BY DEF Calm, FileDocs, OpenDocs
<1>2. ASSUME NEW d \in D
      PROVE  Analyses(d)' = Analyses(d)
  <2>1. \A i : i.uri = d => (Awaited(i)' <=> Awaited(i))
    BY <1>1 DEF Awaited, SameEditors
  <2>2. \A k : SameTask(j, k) => ~(k.uri = d /\ Awaited(k))
    BY DEF SameTask, Analyses, Awaited
  <2>3. \A i : i.uri = d /\ Awaited(i) => (i \in jobs' <=> i \in jobs)
    BY <2>2 DEF Advance, Analyses
  <2> QED BY <2>1, <2>3 DEF Analyses
<1> QED BY <1>2, Unseen

(* A step of the analysis that d waits for.                                *)
LEMMA AnalysisMoves ==
  ASSUME Inv, Tasks, NEW D, NEW K, Calm(D, K), docs' = docs, UNCHANGED <<disk, running>>,
         NEW d \in D, NEW j \in Analyses(d), NEW k, SameTask(j, k), Advance(j, k),
         Undisturbed(k)
  PROVE  /\ Calm(D, K)' /\ Converging(D, K)!Move(d, j.stage, k.stage)
         /\ [e \in D |-> K[e] \cap Outdated(e)]' = [e \in D |-> K[e] \cap Outdated(e)]
<1>0. SameEditors
  BY DEF SameEditors
<1>1. FileDocs' = D /\ FileDocs = D /\ Keeping' = K /\ D \subseteq Uris
  BY <1>0, SameKeeping DEF Calm, FileDocs, OpenDocs
<1>2. \A i : Awaited(i)' <=> Awaited(i)
  BY DEF Awaited
<1>3. Analyses(d) = {j} /\ Stage(d) = j.stage
      /\ Outdated(d) = {e \in FileDocs : j.captured[e].generation # docs[e].generation}
  BY OneAnalysis
<1>4. Analyses(d)' = {k}
  BY <1>2, <1>3 DEF Analyses, SameTask, Advance, Awaited
<1>5. \A e \in D : e # d => Analyses(e)' = Analyses(e)
  BY <1>2 DEF Analyses, SameTask, Advance
<1>6. Stage(d)' = k.stage
  <2>1. (CHOOSE i \in {k} : TRUE) = k
    OBVIOUS
  <2> QED BY <1>4, <2>1 DEF Stage
<1>7. Outdated(d)' = Outdated(d)
  BY <1>1, <1>3, <1>4 DEF Outdated, SameTask
<1>8. ASSUME NEW e \in D, e # d
      PROVE  Stage(e)' = Stage(e) /\ Outdated(e)' = Outdated(e)
  <2>1. Analyses(e)' = Analyses(e)
    BY <1>5, <1>8
  <2>2. Stage(e)' = Stage(e)
    BY <2>1 DEF Stage
  <2>3. Outdated(e)' = Outdated(e)
    BY <1>1, <2>1 DEF Outdated
  <2> QED BY <2>2, <2>3
<1>9. [e \in D |-> Stage(e)]' = [[e \in D |-> Stage(e)] EXCEPT ![d] = k.stage]
  BY <1>6, <1>8
<1>10. Converging(D, K)!Move(d, j.stage, k.stage)
  <2>1. [e \in D |-> Stage(e)][d] = j.stage
    BY <1>3
  <2> QED BY <1>9, <2>1 DEF Converging!Move
<1>11. [e \in D |-> K[e] \cap Outdated(e)]' = [e \in D |-> K[e] \cap Outdated(e)]
  BY <1>7, <1>8
<1>12. \A e \in D : \A i \in Analyses(e)' : Undisturbed(i)'
  <2>1. k.uri = d /\ Undisturbed(k)'
    BY <1>0, <1>1, StillUndisturbed DEF SameTask, Analyses
  <2>2. \A e \in D : e # d => \A i \in Analyses(e) : Undisturbed(i)'
    BY <1>0, <1>1, StillUndisturbed DEF Calm, Analyses
  <2> QED BY <1>4, <1>5, <2>1, <2>2
<1>13. Calm(D, K)'
  BY <1>1, <1>12 DEF Calm
<1> QED BY <1>10, <1>11, <1>13

(* What a step must be: a step of LspConvergence, or none.                 *)
ConvergingStep(D, K) == Calm(D, K)' /\ [Converging(D, K)!Next]_(Converging(D, K)!vars)

(* A task or a thread that a document waits for moves on.                  *)
LEMMA TaskConverges ==
  ASSUME Inv, Tasks, Owing, NEW D, NEW K, Calm(D, K), NEW j \in jobs,
         \/ StartProcessing(j) \/ FinishProcessing(j)
         \/ StartValidation(j) \/ FinishValidation(j)
         \/ \E f \in Files : ReadResource(j, f) \/ CheckObservation(j, f)
  PROVE  ConvergingStep(D, K)
<1>0. /\ TaskOnly /\ UNCHANGED <<docs, disk, running>> /\ SameEditors
      /\ \/ jobs' = jobs \ {j} /\ j.generation \in cancelled
         \/ \E k : SameTask(j, k) /\ Advance(j, k)
  BY RuntimeStep DEF TaskOnly, session, SameEditors
<1>1. CASE \A d \in D : j \notin Analyses(d)
  BY <1>0, <1>1, ElsewhereUnseen DEF ConvergingStep
<1>2. CASE \E d \in D : j \in Analyses(d)
  <2>0. PICK d \in D : j \in Analyses(d)
    BY <1>2
  <2>1. /\ j \in Job /\ j.uri = d /\ Awaited(j) /\ running /\ d \in FileDocs /\ FileDocs = D
        /\ Keeping = K /\ Undisturbed(j) /\ d \in Uris
    BY <2>0 DEF Analyses, Calm, Inv, TypeOK, FileDocs, OpenDocs
  <2>2. j.generation \notin cancelled
    BY <2>1 DEF Tasks, Uncancelled, Awaited, OpenDocs
  <2>3. ASSUME NEW k, SameTask(j, k), Advance(j, k), Undisturbed(k)
        PROVE  /\ Calm(D, K)' /\ Converging(D, K)!Move(d, j.stage, k.stage)
               /\ [e \in D |-> K[e] \cap Outdated(e)]' = [e \in D |-> K[e] \cap Outdated(e)]
    BY <1>0, <2>0, <2>3, AnalysisMoves
  <2>4. CASE StartProcessing(j)
    <3> DEFINE k == [j EXCEPT !.stage = "processing"]
    <3>1. Advance(j, k) /\ j.stage = "waiting" /\ Permits > 0
      BY <2>2, <2>4 DEF StartProcessing
    <3>2. SameTask(j, k) /\ k.stage = "processing" /\ Undisturbed(k)
      BY <2>1 DEF SameTask, Job, Undisturbed
    <3> HIDE DEF k
    <3>3. Converging(D, K)!StartProcessing(d)
      BY <2>1, <2>3, <3>1, <3>2, PermitsLeft DEF Converging!StartProcessing
    <3> QED BY <2>3, <3>1, <3>2, <3>3 DEF ConvergingStep, Converging!Next
  <2>5. CASE FinishProcessing(j)
    <3> DEFINE k == [j EXCEPT !.stage = "processed"]
    <3>1. Advance(j, k) /\ j.stage = "processing"
      BY <2>5 DEF FinishProcessing
    <3>2. SameTask(j, k) /\ k.stage = "processed" /\ Undisturbed(k)
      BY <2>1 DEF SameTask, Job, Undisturbed
    <3> HIDE DEF k
    <3>3. Converging(D, K)!FinishProcessing(d)
      BY <2>3, <3>1, <3>2 DEF Converging!FinishProcessing
    <3> QED BY <2>3, <3>1, <3>2, <3>3 DEF ConvergingStep, Converging!Next
  <2>6. CASE StartValidation(j)
    <3> DEFINE k == [j EXCEPT !.stage = "validating", !.unchecked = Candidates(j)]
    <3>1. Advance(j, k) /\ j.stage = "queued" /\ Permits > 0
      BY <2>2, <2>6 DEF StartValidation
    <3>2. \A f \in Candidates(j) : j.read[f] = disk[f]
      BY <2>0, <2>1, <3>1, RetainedKept DEF Returned
    <3>3. SameTask(j, k) /\ k.stage = "validating" /\ Undisturbed(k)
      BY <2>1, <3>2 DEF SameTask, Job, Undisturbed
    <3> HIDE DEF k
    <3>4. Converging(D, K)!StartValidation(d)
      BY <2>1, <2>3, <3>1, <3>3, PermitsLeft DEF Converging!StartValidation
    <3> QED BY <2>3, <3>1, <3>3, <3>4 DEF ConvergingStep, Converging!Next
  <2>7. CASE FinishValidation(j)
    <3>1. PICK valid \in BOOLEAN :
            /\ valid \/ (\E f \in j.unchecked : disk[f] # j.read[f]) \/ j.generation \in cancelled
            /\ j.stage = "validating"
            /\ Advance(j, [j EXCEPT !.stage = "validated", !.unchecked = {}, !.valid = valid])
      BY <2>7 DEF FinishValidation
    <3>2. valid
      BY <2>1, <2>2, <3>1 DEF Undisturbed
    <3> DEFINE k == [j EXCEPT !.stage = "validated", !.unchecked = {}, !.valid = valid]
    <3>3. SameTask(j, k) /\ k.stage = "validated" /\ Undisturbed(k)
      BY <2>1, <3>2 DEF SameTask, Job, Undisturbed
    <3> HIDE DEF k
    <3>4. Advance(j, k)
      BY <3>1 DEF k
    <3>5. Converging(D, K)!FinishValidation(d)
      BY <2>3, <3>1, <3>3, <3>4 DEF Converging!FinishValidation
    <3> QED BY <2>3, <3>3, <3>4, <3>5 DEF ConvergingStep, Converging!Next
  <2>8. ASSUME NEW k, SameTask(j, k), Advance(j, k), Undisturbed(k), k.stage = j.stage
        PROVE  ConvergingStep(D, K)
    <3>1. [e \in D |-> Stage(e)]' = [e \in D |-> Stage(e)]
      BY <2>3, <2>8 DEF Converging!Move
    <3> QED BY <2>3, <2>8, <3>1 DEF ConvergingStep, Converging!vars
  <2>9. CASE \E f \in Files : ReadResource(j, f)
    <3>0. PICK f \in Files : ReadResource(j, f)
      BY <2>9
    <3> DEFINE k == [j EXCEPT !.read[f] = disk[f]]
    <3>1. Advance(j, k) /\ j.stage = "processing"
      BY <3>0 DEF ReadResource
    <3>2. SameTask(j, k) /\ k.stage = j.stage /\ Undisturbed(k)
      BY <2>1, <3>1 DEF SameTask, Job, Undisturbed
    <3> HIDE DEF k
    <3> QED BY <2>8, <3>1, <3>2
  <2>10. CASE \E f \in Files : CheckObservation(j, f)
    <3>0. PICK f \in Files : CheckObservation(j, f)
      BY <2>10
    <3> DEFINE k == [j EXCEPT !.unchecked = @ \ {f}]
    <3>1. Advance(j, k) /\ j.stage = "validating"
      BY <3>0 DEF CheckObservation
    <3>2. SameTask(j, k) /\ k.stage = j.stage /\ Undisturbed(k)
      BY <2>1, <3>1 DEF SameTask, Job, Undisturbed
    <3> HIDE DEF k
    <3> QED BY <2>8, <3>1, <3>2
  <2> QED BY <2>4, <2>5, <2>6, <2>7, <2>9, <2>10
<1> QED BY <1>1, <1>2

(* The turns of a batch are in the order of the documents.                 *)
LEMMA TurnOrder ==
  ASSUME NEW U \in SUBSET Uris, NEW u \in U, NEW v \in U
  PROVE  Turn({}, U, u) <= Turn({}, U, v) <=> u <= v
<1>1. u \in Nat /\ v \in Nat /\ \A w \in U : w \in Nat
  BY SessionAssumption
<1>2. ASSUME NEW x \in U, NEW y \in U, x <= y
      PROVE  Turn({}, U, x) <= Turn({}, U, y)
  <2> DEFINE W(z) == {w \in U : w <= z}
  <2>0. x \in Nat /\ y \in Nat
    BY <1>1
  <2>1. W(x) \subseteq W(y)
    <3> SUFFICES ASSUME NEW w \in U, w <= x
                 PROVE  w <= y
      OBVIOUS
    <3>1. w \in Nat
      BY <1>1
    <3> QED BY <1>2, <2>0, <3>1
  <2>2. IsFiniteSet(W(y)) /\ Cardinality(W(x)) \in Nat /\ Cardinality(W(y)) \in Nat
    BY DocumentSets
  <2>3. Cardinality(W(x)) <= Cardinality(W(y))
    BY <2>1, <2>2, FS_Subset
  <2>4. Turn({}, U, x) = Cardinality({}) + Cardinality(W(x))
        /\ Turn({}, U, y) = Cardinality({}) + Cardinality(W(y))
    BY DEF Turn
  <2>5. Cardinality({}) = 0
    BY FS_EmptySet
  <2> HIDE DEF W
  <2> QED BY <2>2, <2>3, <2>4, <2>5
<1>3. Turn({}, U, u) \in Nat /\ Turn({}, U, v) \in Nat
  BY TurnBounds
<1>4. ASSUME Turn({}, U, u) <= Turn({}, U, v), v <= u
      PROVE  u = v
  <2>1. Turn({}, U, u) = Turn({}, U, v)
    BY <1>2, <1>3, <1>4
  <2> QED BY <2>1, TurnDistinct
<1> QED BY <1>1, <1>2, <1>4

(* What the snapshots of a batch capture: every open document, with the    *)
(* generation it keeps if its turn is over or it has none.                 *)
LEMMA SnapshotCaptures ==
  ASSUME Inv, Tasks, NEW U \in SUBSET OpenDocs(docs), Install(docs, {}, U),
         UNCHANGED <<disk, running>>,
         NEW u \in U, u \in DocFiles, NEW s, NEW k, k = Snapshot(docs, {}, U, u, s)
  PROVE  /\ k.uri = u /\ k.stage = "waiting" /\ k.generation = docs'[u].generation
         /\ Undisturbed(k)'
         /\ \A w \in FileDocs :
              k.captured[w].generation = docs'[w].generation <=> w \notin U \/ w <= u
<1>1. Edited(docs, {}, U) /\ U \subseteq Uris /\ {} \cup U = U /\ u \in Uris /\ u \notin NonFile
  BY DEF Edited, OpenDocs, Inv, TypeOK, Tasks, Versioned, DocFiles
<1>2. Reinstalled(docs, {}, U)
  BY <1>1, InstalledDocuments
<1>3. SameEditors
  BY ReanalyseKeepsEditors
<1>4. FileDocs' = FileDocs /\ FileDocs \subseteq Uris /\ FileDocs \subseteq DocFiles
      /\ \A w \in FileDocs : docs[w].open
  BY <1>3, SameKeeping DEF FileDocs, OpenDocs
<1>5. k.captured = Captured(docs, {}, U, u) /\ k.stage = "waiting" /\ k.read = Nothing
      /\ k.uri = u /\ k.version = docs[u].version
      /\ k.generation = nextGeneration + Turn({}, U, u)
  BY DEF Snapshot
<1>6. ASSUME NEW w \in FileDocs
      PROVE  /\ k.captured[w].text = docs[w].text
             /\ k.captured[w].generation =
                  IF w \in U /\ w <= u THEN docs'[w].generation ELSE docs[w].generation
  <2>1. w \in Uris /\ docs[w].open /\ w \notin NonFile
    BY <1>4 DEF DocFiles
  <2>2. Captured(docs, {}, U, u)[w] =
          [version |-> docs[w].version, text |-> docs[w].text,
           generation |-> IF w \in {} \cup U /\ Turn({}, U, w) <= Turn({}, U, u)
                          THEN nextGeneration + Turn({}, U, w) ELSE docs[w].generation]
    BY <1>1, <2>1 DEF Captured
  <2>3. w \in U => (Turn({}, U, w) <= Turn({}, U, u) <=> w <= u)
                   /\ docs'[w].generation = nextGeneration + Turn({}, U, w)
    BY <1>1, <1>2, TurnOrder DEF Reinstalled
  <2> QED BY <1>1, <1>5, <2>2, <2>3
<1>7. ASSUME NEW w \in Uris \ FileDocs
      PROVE  k.captured[w].generation = 0
  <2>1. w \in NonFile \/ ~docs[w].open
    BY DEF FileDocs, OpenDocs, DocFiles
  <2>2. Captured(docs, {}, U, u)[w] = NoRevision
    BY <2>1 DEF Captured
  <2> QED BY <1>5, <2>2 DEF NoRevision
<1>8. ASSUME NEW w \in FileDocs
      PROVE  /\ docs[w].generation \in Nat /\ docs[w].generation > 0
             /\ docs[w].generation <= nextGeneration /\ nextGeneration \in Nat
             /\ w \in U => docs'[w].generation \in Nat /\ docs'[w].generation > nextGeneration
             /\ w \notin U => docs'[w].generation = docs[w].generation
  BY <1>1, <1>2, <1>4, Generations DEF Reinstalled, Inv, Consistent, GenerationsHandedOut, OpenDocs
<1>9. \A w \in FileDocs : k.captured[w].generation = docs'[w].generation <=> w \notin U \/ w <= u
  BY <1>6, <1>8
<1>10. Undisturbed(k)
  <2>1. \A w \in FileDocs : k.captured[w].generation # 0
    BY <1>6, <1>8
  <2>2. \A f \in Files : k.read[f] = Unread
    BY <1>5 DEF Nothing
  <2> QED BY <1>5, <1>6, <1>7, <2>1, <2>2 DEF Undisturbed
<1>11. Undisturbed(k)'
  BY <1>1, <1>3, <1>5, <1>10, StillUndisturbed
<1>12. k.generation = docs'[u].generation
  BY <1>1, <1>2, <1>5 DEF Reinstalled
<1> QED BY <1>5, <1>9, <1>11, <1>12

(* A document that is given a new snapshot waits for its analysis alone.   *)
LEMMA NewAnalysis ==
  ASSUME Inv, Tasks, NEW U \in SUBSET OpenDocs(docs), NEW done, NEW s,
         Install(docs, {}, U), Schedule(done, docs, {}, U, s), NEW u \in U
  PROVE  \E k : Analyses(u)' = {k} /\ k = Snapshot(docs, {}, U, u, s)
<1>1. Edited(docs, {}, U) /\ U \subseteq Uris /\ {} \cup U = U
  BY DEF Edited, OpenDocs, Inv, TypeOK, Tasks, Versioned
<1>2. Reinstalled(docs, {}, U)
  BY <1>1, InstalledDocuments
<1>3. PICK k : k = Snapshot(docs, {}, U, u, s)
  OBVIOUS
<1>4. k.uri = u /\ k.generation = nextGeneration + Turn({}, U, u)
  BY <1>3 DEF Snapshot
<1>5. /\ docs'[u].open /\ docs'[u].generation = k.generation
      /\ docs'[u].generation \in Nat /\ docs'[u].generation > nextGeneration
  BY <1>1, <1>2, <1>4, Generations DEF Reinstalled, OpenDocs
<1>6. k \in jobs'
  BY <1>1, <1>3 DEF Schedule
<1>7. ASSUME NEW i \in jobs', i.uri = u, Awaited(i)'
      PROVE  i = k
  <2>1. i.generation = docs'[u].generation
    BY <1>7 DEF Awaited
  <2>2. i \notin jobs
    BY <1>5, <2>1, Generations
  <2>3. PICK w \in U : i = Snapshot(docs, {}, U, w, s)
    BY <1>1, <2>2 DEF Schedule
  <2>4. w = u
    BY <1>7, <2>3 DEF Snapshot
  <2> QED BY <1>3, <2>3, <2>4
<1>8. Analyses(u)' = {k}
  BY <1>4, <1>5, <1>6, <1>7 DEF Analyses, Awaited
<1> QED BY <1>3, <1>8

(* A superseded result is computed again: its document captures the        *)
(* current generations, and whoever captured its old one is stale.         *)
LEMMA RetryConverges ==
  ASSUME Inv, Tasks, NEW D, NEW K, Calm(D, K), NEW d \in D, NEW j \in Analyses(d),
         SnapshotIsCurrent(j), Retry(j)
  PROVE  Calm(D, K)' /\ Converging(D, K)!Retry(d)
<1>0. j \in jobs /\ j.uri = d /\ d \in DocFiles /\ d \in Uris /\ d \in Nat /\ docs[d].open
  BY FilesFacts, SessionAssumption DEF Analyses, Calm, FileDocs, OpenDocs
<1>1. /\ {d} \in SUBSET OpenDocs(docs)
      /\ Install(docs, {}, {d}) /\ Schedule({j}, docs, {}, {d}, settings)
      /\ UNCHANGED <<disk, running>>
  BY <1>0 DEF Retry, OpenDocs
<1>2. SameEditors
  BY <1>1, ReanalyseKeepsEditors
<1>3. /\ FileDocs = D /\ FileDocs' = D /\ Keeping' = K /\ D \subseteq Uris
      /\ \A e \in D : docs[e].open
  BY <1>2, SameKeeping DEF Calm, FileDocs, OpenDocs
<1>4. Reinstalled(docs, {}, {d})
  <2>1. Edited(docs, {}, {d})
    BY <1>0 DEF Edited, OpenDocs, Inv, TypeOK, Tasks, Versioned
  <2> QED BY <1>1, <2>1, InstalledDocuments
<1>5. /\ \A u \in Uris \ {d} : docs'[u] = docs[u]
      /\ docs'[d].generation \in Nat /\ docs'[d].generation > nextGeneration
  BY <1>4, Generations DEF Reinstalled
<1>6. PICK k : Analyses(d)' = {k} /\ k = Snapshot(docs, {}, {d}, d, settings)
  BY <1>1, NewAnalysis
<1>7. /\ k.uri = d /\ k.stage = "waiting" /\ Undisturbed(k)'
      /\ \A w \in D : k.captured[w].generation = docs'[w].generation
  <2>1. /\ k.uri = d /\ k.stage = "waiting" /\ Undisturbed(k)'
        /\ \A w \in FileDocs :
             k.captured[w].generation = docs'[w].generation <=> w \notin {d} \/ w <= d
    <3>1. /\ UNCHANGED <<disk, running>> /\ Install(docs, {}, {d}) /\ d \in {d} /\ d \in DocFiles
          /\ {d} \in SUBSET OpenDocs(docs) /\ k = Snapshot(docs, {}, {d}, d, settings)
      BY <1>0, <1>1, <1>6
    <3>2. k.uri = d /\ k.stage = "waiting"
      BY <3>1, SnapshotCaptures
    <3>3. Undisturbed(k)'
      BY <3>1, SnapshotCaptures
    <3>4. \A w \in FileDocs :
             k.captured[w].generation = docs'[w].generation <=> w \notin {d} \/ w <= d
      BY <3>1, SnapshotCaptures
    <3> QED BY <3>2, <3>3, <3>4
  <2> QED BY <1>0, <1>3, <2>1
<1>8. ASSUME NEW e \in D, e # d
      PROVE  Analyses(e)' = Analyses(e)
  <2>1. docs'[e] = docs[e]
    BY <1>3, <1>5, <1>8
  <2>2. \A i : i.uri = e => (i \in jobs' <=> i \in jobs)
    BY <1>0, <1>1, <1>8 DEF Schedule, Snapshot, Aborted
  <2> QED BY <2>1, <2>2 DEF Analyses, Awaited
<1>9. Calm(D, K)'
  <2>1. \A e \in D : \A i \in Analyses(e)' : Undisturbed(i)'
    <3>1. \A i \in Analyses(d)' : Undisturbed(i)'
      BY <1>6, <1>7
    <3>2. \A e \in D : e # d => \A i \in Analyses(e) : Undisturbed(i)'
      BY <1>2, <1>3, StillUndisturbed DEF Calm, Analyses
    <3> QED BY <1>8, <3>1, <3>2
  <2> QED BY <1>1, <1>3, <2>1 DEF Calm
<1>10. Stage(d)' = "waiting" /\ Outdated(d)' = {}
  <2>1. (CHOOSE i \in {k} : TRUE) = k
    OBVIOUS
  <2>2. Stage(d)' = "waiting"
    BY <1>6, <1>7, <2>1 DEF Stage
  <2>3. Outdated(d)' = {}
    BY <1>3, <1>6, <1>7 DEF Outdated
  <2> QED BY <2>2, <2>3
<1>11. ASSUME NEW e \in D, e # d
       PROVE  /\ Stage(e)' = Stage(e)
              /\ Stage(e) = "adopted" => Outdated(e)' = Outdated(e)
              /\ Stage(e) # "adopted" => Outdated(e)' = Outdated(e) \cup {d}
  <2>0. Analyses(e)' = Analyses(e)
    BY <1>8, <1>11
  <2>1. Stage(e)' = Stage(e)
    BY <2>0 DEF Stage
  <2>2. CASE Analyses(e) = {}
    BY <1>8, <1>11, <2>1, <2>2 DEF Stage, Outdated
  <2>3. CASE Analyses(e) # {}
    <3>1. PICK i : i \in Analyses(e)
      BY <2>3
    <3>2. /\ Analyses(e) = {i} /\ Stage(e) = i.stage
          /\ Outdated(e) = {w \in FileDocs : i.captured[w].generation # docs[w].generation}
      BY <3>1, OneAnalysis
    <3>3. i \in jobs /\ i \in Job /\ i.stage # "adopted"
      BY <3>1 DEF Analyses, Inv, TypeOK, Job, Stages
    <3>4. i.captured[d].generation \in Nat /\ i.captured[d].generation <= nextGeneration
          /\ nextGeneration \in Nat
      BY <1>0, <3>3 DEF Inv, TypeOK, Consistent, GenerationsHandedOut, Job, Revision
    <3>5. i.captured[d].generation # docs'[d].generation
      BY <1>5, <3>4
    <3>6. Analyses(e)' = {i}
      BY <1>8, <1>11, <3>2
    <3>7. Outdated(e)' = {w \in D : i.captured[w].generation # docs'[w].generation}
      BY <1>3, <3>6 DEF Outdated
    <3>8. Outdated(e)' = Outdated(e) \cup {d}
      BY <1>3, <1>5, <3>2, <3>5, <3>7
    <3> QED BY <2>1, <3>2, <3>3, <3>8
  <2> QED BY <2>2, <2>3
<1> DEFINE stages == [e \in D |-> Stage(e)]
           stales == [e \in D |-> K[e] \cap Outdated(e)]
<1>12. stages' = [stages EXCEPT ![d] = "waiting"]
  BY <1>10, <1>11
<1>13. stales' = [e \in D |-> IF e = d THEN {}
                              ELSE IF stages[e] # "adopted" /\ d \in K[e] THEN stales[e] \cup {d}
                              ELSE stales[e]]
  <2> SUFFICES ASSUME NEW e \in D
               PROVE  K[e] \cap Outdated(e)' =
                        IF e = d THEN {}
                        ELSE IF Stage(e) # "adopted" /\ d \in K[e] THEN (K[e] \cap Outdated(e)) \cup {d}
                        ELSE K[e] \cap Outdated(e)
    OBVIOUS
  <2>1. CASE e = d
    BY <1>10, <2>1
  <2>2. CASE e # d
    BY <1>11, <2>2
  <2> QED BY <2>1, <2>2
<1> QED BY <1>9, <1>12, <1>13 DEF Converging!Retry, Converging!HoldsOn

(* Adopting a result ends what its document waits for.                     *)
LEMMA AdoptConverges ==
  ASSUME Inv, Tasks, NEW D, NEW K, Calm(D, K), NEW d \in D, NEW j \in Analyses(d),
         Adopt(j), UNCHANGED running, K[d] \cap Outdated(d) = {}
  PROVE  /\ Calm(D, K)' /\ Converging(D, K)!Move(d, j.stage, "adopted")
         /\ [e \in D |-> K[e] \cap Outdated(e)]' = [e \in D |-> K[e] \cap Outdated(e)]
<1>0. j \in jobs /\ j.uri = d /\ d \in Uris /\ Analyses(d) = {j} /\ Stage(d) = j.stage
  BY OneAnalysis DEF Analyses, Calm, FileDocs, OpenDocs
<1>1. /\ docs' = [docs EXCEPT ![d] = Adopted(j)] /\ docs \in [Uris -> Document]
      /\ jobs' = jobs \ {j} /\ UNCHANGED <<disk, running>>
  BY <1>0 DEF Adopt, Inv, TypeOK
<1>2. /\ Adopted(j).open = docs[d].open /\ Adopted(j).version = docs[d].version
      /\ Adopted(j).text = docs[d].text /\ Adopted(j).generation = docs[d].generation
  BY <1>0, AdoptedType DEF Inv
<1>3. SameEditors /\ \A u \in Uris : docs'[u].generation = docs[u].generation
  BY <1>0, <1>1, <1>2 DEF SameEditors
<1>4. FileDocs = D /\ FileDocs' = D /\ Keeping' = K /\ D \subseteq Uris
  BY <1>3, SameKeeping DEF Calm, FileDocs, OpenDocs
<1>5. \A i : i.uri \in Uris => (Awaited(i)' <=> Awaited(i))
  BY <1>3 DEF Awaited, SameEditors
<1>6. Analyses(d)' = {}
  BY <1>0, <1>1, <1>5 DEF Analyses
<1>7. \A e \in D : e # d => Analyses(e)' = Analyses(e)
  BY <1>0, <1>1, <1>4, <1>5 DEF Analyses
<1>8. Calm(D, K)'
  <2>1. \A e \in D : \A i \in Analyses(e) : Undisturbed(i)'
    BY <1>3, <1>4, StillUndisturbed DEF Calm, Analyses
  <2>2. \A e \in D : \A i \in Analyses(e)' : Undisturbed(i)'
    BY <1>6, <1>7, <2>1
  <2> QED BY <1>1, <1>4, <2>2 DEF Calm
<1>9. Stage(d)' = "adopted" /\ Outdated(d)' = {}
  BY <1>6 DEF Stage, Outdated
<1>10. ASSUME NEW e \in D, e # d
       PROVE  Stage(e)' = Stage(e) /\ Outdated(e)' = Outdated(e)
  <2>1. Analyses(e)' = Analyses(e)
    BY <1>7, <1>10
  <2>2. Stage(e)' = Stage(e)
    BY <2>1 DEF Stage
  <2>3. Outdated(e)' = Outdated(e)
    BY <1>3, <1>4, <2>1 DEF Outdated
  <2> QED BY <2>2, <2>3
<1>11. [e \in D |-> Stage(e)]' = [[e \in D |-> Stage(e)] EXCEPT ![d] = "adopted"]
  BY <1>9, <1>10
<1>12. Converging(D, K)!Move(d, j.stage, "adopted")
  <2>1. [e \in D |-> Stage(e)][d] = j.stage
    BY <1>0
  <2> QED BY <1>11, <2>1 DEF Converging!Move
<1>13. [e \in D |-> K[e] \cap Outdated(e)]' = [e \in D |-> K[e] \cap Outdated(e)]
  <2>1. \A e \in D : K[e] \cap Outdated(e)' = K[e] \cap Outdated(e)
    BY <1>9, <1>10
  <2> QED BY <2>1
<1> QED BY <1>8, <1>12, <1>13

(* The event of an analysis no document waits for, or one outside the file *)
(* system waits for.                                                       *)
LEMMA OtherEventUnseen ==
  ASSUME Inv, Tasks, NEW D, NEW K, Calm(D, K), SameEditors, NEW j \in jobs,
         \A d \in D : j \notin Analyses(d),
         ProjectProcessingCompleted(j) \/ ProjectValidationCompleted(j)
  PROVE  Calm(D, K)' /\ UNCHANGED Converging(D, K)!vars
<1>0. j \in Job /\ j.uri \in Uris /\ D \subseteq Uris
  BY DEF Inv, TypeOK, Job, Calm, FileDocs, OpenDocs
<1>1. CASE Ignore(j)
  BY <1>1, ElsewhereUnseen DEF Ignore
<1>2. CASE SnapshotIsCurrent(j) /\ (Retry(j) \/ Adopt(j))
  <2>1. j.uri \notin D
    BY <1>2 DEF SnapshotIsCurrent, Analyses, Awaited
  <2>2. CASE Retry(j)
    <3>1. {j.uri} \in SUBSET OpenDocs(docs) /\ Install(docs, {}, {j.uri})
          /\ Schedule({j}, docs, {}, {j.uri}, settings)
      BY <1>0, <1>2, <2>2 DEF Retry, SnapshotIsCurrent, OpenDocs
    <3>2. Edited(docs, {}, {j.uri})
      BY <3>1 DEF Edited, OpenDocs, Inv, TypeOK, Tasks, Versioned
    <3>3. Reinstalled(docs, {}, {j.uri})
      BY <3>1, <3>2, InstalledDocuments
    <3>4. \A d \in D : docs'[d] = docs[d]
      BY <1>0, <2>1, <3>3 DEF Reinstalled
    <3>5. \A i : i.uri \in D => (i \in jobs' <=> i \in jobs)
      BY <2>1, <3>1 DEF Schedule, Snapshot, Aborted
    <3>6. \A d \in D : Analyses(d)' = Analyses(d)
      BY <3>4, <3>5 DEF Analyses, Awaited
    <3> QED BY <3>4, <3>6, Unseen
  <2>3. CASE Adopt(j)
    <3>1. docs' = [docs EXCEPT ![j.uri] = Adopted(j)] /\ jobs' = jobs \ {j}
          /\ docs \in [Uris -> Document]
      BY <2>3 DEF Adopt, Inv, TypeOK
    <3>2. \A d \in D : docs'[d].generation = docs[d].generation
      BY <1>0, <2>1, <3>1
    <3> QED BY <3>1, <3>2, ElsewhereUnseen
  <2> QED BY <1>2, <2>2, <2>3
<1>3. CASE docs' = docs /\ Advance(j, [j EXCEPT !.stage = "queued"])
  <2>1. SameTask(j, [j EXCEPT !.stage = "queued"])
    BY <1>0 DEF SameTask, Job
  <2>2. \E k : SameTask(j, k) /\ Advance(j, k)
    BY <1>3, <2>1
  <2> QED BY <1>3, <2>2, ElsewhereUnseen
<1> QED BY <1>1, <1>2, <1>3 DEF ProjectProcessingCompleted, ProjectValidationCompleted

(* The event of the analysis a document waits for.                         *)
LEMMA EventConverges ==
  ASSUME Inv, Tasks, Owing, NEW D, NEW K, Calm(D, K), SameEditors, NEW j \in jobs,
         ProjectProcessingCompleted(j) \/ ProjectValidationCompleted(j)
  PROVE  ConvergingStep(D, K)
<1>1. CASE \A d \in D : j \notin Analyses(d)
  BY <1>1, OtherEventUnseen DEF ConvergingStep
<1>2. CASE \E d \in D : j \in Analyses(d)
  <2>0. PICK d \in D : j \in Analyses(d)
    BY <1>2
  <2>1. /\ j \in Job /\ j.uri = d /\ Undisturbed(j) /\ running /\ d \in FileDocs /\ Keeping = K
        /\ j.stage \in {"processed", "validated"}
    BY <2>0 DEF Analyses, Calm, Inv, TypeOK, ProjectProcessingCompleted,
                ProjectValidationCompleted
  <2>2. /\ ~Rejected(j) /\ SnapshotIsCurrent(j)
        /\ SourcesAreCurrent(j) <=> K[d] \cap Outdated(d) = {}
    BY <2>0, <2>1, RetainedKept DEF Returned
  <2>3. [e \in D |-> Stage(e)][d] = j.stage
        /\ [e \in D |-> K[e] \cap Outdated(e)][d] = K[d] \cap Outdated(d)
    BY <2>0, OneAnalysis
  <2>4. CASE Retry(j) /\ ~SourcesAreCurrent(j)
    <3>1. Calm(D, K)' /\ Converging(D, K)!Retry(d)
      BY <2>0, <2>2, <2>4, RetryConverges
    <3>2. Converging(D, K)!ProjectProcessingCompleted(d)
          \/ Converging(D, K)!ProjectValidationCompleted(d)
      BY <2>1, <2>2, <2>3, <2>4, <3>1
         DEF Converging!ProjectProcessingCompleted, Converging!ProjectValidationCompleted
    <3> QED BY <3>1, <3>2 DEF ConvergingStep, Converging!Next
  <2>5. CASE /\ j.stage = "processed" /\ SourcesAreCurrent(j)
             /\ Advance(j, [j EXCEPT !.stage = "queued"])
             /\ docs' = docs /\ UNCHANGED <<disk, running>>
    <3> DEFINE k == [j EXCEPT !.stage = "queued"]
    <3>1. /\ j.stage = "processed" /\ SourcesAreCurrent(j) /\ Advance(j, k)
          /\ docs' = docs /\ UNCHANGED <<disk, running>>
      BY <2>5
    <3>2. SameTask(j, k) /\ k.stage = "queued" /\ Undisturbed(k)
      BY <2>1 DEF SameTask, Job, Undisturbed
    <3> HIDE DEF k
    <3>3. /\ Calm(D, K)' /\ Converging(D, K)!Move(d, j.stage, k.stage)
          /\ [e \in D |-> K[e] \cap Outdated(e)]' = [e \in D |-> K[e] \cap Outdated(e)]
      BY <2>0, <3>1, <3>2, AnalysisMoves
    <3>4. Converging(D, K)!ProjectProcessingCompleted(d)
      BY <2>2, <2>3, <3>1, <3>2, <3>3 DEF Converging!ProjectProcessingCompleted
    <3> QED BY <3>3, <3>4 DEF ConvergingStep, Converging!Next
  <2>6. CASE j.stage = "validated" /\ SourcesAreCurrent(j) /\ Adopt(j)
    <3>2. UNCHANGED running
      BY <2>6 DEF Adopt
    <3>3. /\ Calm(D, K)' /\ Converging(D, K)!Move(d, j.stage, "adopted")
          /\ [e \in D |-> K[e] \cap Outdated(e)]' = [e \in D |-> K[e] \cap Outdated(e)]
      BY <2>0, <2>2, <2>6, <3>2, AdoptConverges
    <3>4. Converging(D, K)!ProjectValidationCompleted(d)
      BY <2>2, <2>3, <2>6, <3>3 DEF Converging!ProjectValidationCompleted
    <3> QED BY <3>3, <3>4 DEF ConvergingStep, Converging!Next
  <2> QED BY <2>1, <2>2, <2>4, <2>5, <2>6
          DEF ProjectProcessingCompleted, ProjectValidationCompleted, Undisturbed
<1> QED BY <1>1, <1>2

LEMMA RuntimeConverges ==
  ASSUME Inv, Tasks, Owing, NEW D, NEW K, Calm(D, K), [Runtime]_vars
  PROVE  ConvergingStep(D, K)
<1>0. SameEditors
  BY RuntimeKeepsEditors
<1>1. CASE \E j \in jobs :
             \/ StartProcessing(j) \/ FinishProcessing(j)
             \/ StartValidation(j) \/ FinishValidation(j)
             \/ \E f \in Files : ReadResource(j, f) \/ CheckObservation(j, f)
  BY <1>1, TaskConverges
<1>2. CASE \E j \in jobs : ProjectProcessingCompleted(j) \/ ProjectValidationCompleted(j)
  BY <1>0, <1>2, EventConverges
<1>3. CASE AbandonedReturn \/ UNCHANGED vars
  <2>1. docs' = docs /\ jobs' = jobs
    BY <1>3 DEF AbandonedReturn, vars, session
  <2>2. \A d \in D : Analyses(d)' = Analyses(d)
    BY <2>1 DEF Analyses, Awaited
  <2> QED BY <1>0, <2>1, <2>2, Unseen DEF ConvergingStep
<1> QED BY <1>1, <1>2, <1>3 DEF Runtime

(* Every open document has just been given a new snapshot.                 *)
Begun ==
  /\ running
  /\ \A d \in FileDocs :
       /\ \E j \in Analyses(d) : j.stage = "waiting" /\ Undisturbed(j)
       /\ Outdated(d) = {e \in FileDocs : e > d}

LEMMA BegunConverging ==
  ASSUME Tasks, Begun, NEW D, NEW K, FileDocs = D, Keeping = K
  PROVE  Calm(D, K) /\ Converging(D, K)!Init
<1>1. ASSUME NEW d \in D
      PROVE  /\ Stage(d) = "waiting" /\ \A j \in Analyses(d) : Undisturbed(j)
             /\ K[d] \cap Outdated(d) = {e \in K[d] : e > d}
  <2>1. PICK j : j \in Analyses(d) /\ j.stage = "waiting" /\ Undisturbed(j)
    BY DEF Begun
  <2>2. Analyses(d) = {j} /\ Stage(d) = j.stage
    BY <2>1, OneAnalysis
  <2>3. Outdated(d) = {e \in FileDocs : e > d}
    BY DEF Begun
  <2>4. K[d] \subseteq FileDocs
    BY DEF Keeping
  <2> QED BY <2>1, <2>2, <2>3, <2>4
<1>2. Calm(D, K)
  BY <1>1 DEF Calm, Begun
<1>3. Converging(D, K)!Init
  BY <1>1 DEF Converging!Init
<1> QED BY <1>2, <1>3

(* The documents are what LspConvergence assumes of its constants.         *)
LEMMA ConvergingConstants ==
  FileDocs \subseteq Nat /\ IsFiniteSet(FileDocs) /\ Keeping \in [FileDocs -> SUBSET FileDocs]
<1>1. FileDocs \in SUBSET Uris
  BY DEF FileDocs, OpenDocs
<1>2. FileDocs \subseteq Nat /\ IsFiniteSet(FileDocs)
  BY <1>1, DocumentSets, SessionAssumption
<1>3. Keeping \in [FileDocs -> SUBSET FileDocs]
  BY DEF Keeping
<1> QED BY <1>2, <1>3

(* A notification that gives every open document a new snapshot: a change  *)
(* of the settings, or a batch of changed files over the watch limits.     *)
RestartsAll ==
  /\ \/ \E F \in SUBSET unwatched \ {{}} : DidChangeWatchedFiles(F)
     \/ \E s \in Settings : DidChangeConfiguration(s)
  /\ \A u \in OpenDocs(docs) : docs'[u].generation # docs[u].generation

LEMMA RestartBegins ==
  ASSUME Inv, Tasks, RestartsAll
  PROVE  Begun'
<1> DEFINE U == OpenDocs(docs)
<1>1. PICK s : Install(docs, {}, U) /\ Schedule({}, docs, {}, U, s)
               /\ UNCHANGED <<disk, running>> /\ running
  <2>1. CASE \E t \in Settings : DidChangeConfiguration(t)
    BY <2>1 DEF DidChangeConfiguration
  <2>2. CASE \E F \in SUBSET unwatched \ {{}} : DidChangeWatchedFiles(F)
    <3>1. PICK V \in SUBSET U :
            /\ Install(docs, {}, V) /\ Schedule({}, docs, {}, V, settings)
            /\ UNCHANGED <<disk, running>> /\ running
      BY <2>2 DEF DidChangeWatchedFiles, OpenObservers
    <3>2. Edited(docs, {}, V)
      BY <3>1 DEF Edited, OpenDocs, Inv, TypeOK, Tasks, Versioned
    <3>3. \A u \in Uris \ V : docs'[u] = docs[u]
      BY <3>1, <3>2, InstalledDocuments DEF Reinstalled
    <3>4. V = U
      BY <3>1, <3>3 DEF RestartsAll, OpenDocs
    <3> QED BY <3>1, <3>4
  <2> QED BY <2>1, <2>2 DEF RestartsAll
<1>2. SameEditors
  BY <1>1, ReanalyseKeepsEditors
<1>3. FileDocs' = FileDocs /\ FileDocs \subseteq U /\ FileDocs \subseteq DocFiles
      /\ FileDocs \subseteq Nat
  BY <1>2, SameKeeping, SessionAssumption DEF FileDocs, OpenDocs
<1>4. ASSUME NEW d \in FileDocs
      PROVE  /\ \E j \in Analyses(d)' : j.stage = "waiting" /\ Undisturbed(j)'
             /\ Outdated(d)' = {e \in FileDocs : e > d}
  <2>0. U \in SUBSET OpenDocs(docs) /\ d \in U /\ d \in DocFiles
    BY <1>3
  <2> HIDE DEF U
  <2>1. PICK k : Analyses(d)' = {k} /\ k = Snapshot(docs, {}, U, d, s)
    BY <1>1, <2>0, NewAnalysis
  <2>2. k.stage = "waiting"
    BY <1>1, <2>0, <2>1, SnapshotCaptures
  <2>3. Undisturbed(k)'
    BY <1>1, <2>0, <2>1, SnapshotCaptures
  <2>4. \A w \in FileDocs :
          k.captured[w].generation = docs'[w].generation <=> w \notin U \/ w <= d
    BY <1>1, <2>0, <2>1, SnapshotCaptures
  <2>5. \A w \in FileDocs : k.captured[w].generation # docs'[w].generation <=> w > d
    BY <1>3, <2>4
  <2>6. Outdated(d)' = {e \in FileDocs : e > d}
    BY <1>3, <2>1, <2>5 DEF Outdated
  <2> QED BY <2>1, <2>2, <2>3, <2>6
<1>5. running'
  BY <1>1
<1> QED BY <1>3, <1>4, <1>5 DEF Begun

(* Whenever every open document is given a new snapshot (reconfigure_      *)
(* documents, or a batch of changed files over the watch limits), each of  *)
(* them waits for an analysis that captured every open document, and the   *)
(* generations it captured are superseded exactly for the documents whose  *)
(* turn came later.                                                        *)
THEOREM RestartsBeginAnalyses == Spec => [][RestartsAll => Begun']_vars
<1>1. Spec => [](Inv /\ Tasks)
  BY SpecTasks
<1>2. Inv /\ Tasks => [RestartsAll => Begun']_vars
  BY RestartBegins
<1> QED BY <1>1, <1>2, PTL

(* From there on, as long as neither the client nor a file changes         *)
(* anything, the session takes the steps of LspConvergence and no others,  *)
(* starting where that specification starts: D and K stand for the open    *)
(* documents and what each of them keeps at that moment.  This ties the    *)
(* retries that never end (retry_completion) to the code of the session.   *)
THEOREM QuietSessionConverges ==
  ASSUME NEW CONSTANT D, NEW CONSTANT K
  PROVE  Spec => []((Begun /\ FileDocs = D /\ Keeping = K) /\ [][Runtime]_vars
                      => /\ D \subseteq Nat /\ IsFiniteSet(D) /\ K \in [D -> SUBSET D]
                         /\ Converging(D, K)!Init
                         /\ [][Converging(D, K)!Next]_(Converging(D, K)!vars))
<1> DEFINE Start == Begun /\ FileDocs = D /\ Keeping = K
           Sound == Inv /\ Tasks /\ Owing
           Fit == D \subseteq Nat /\ IsFiniteSet(D) /\ K \in [D -> SUBSET D]
<1>1. Sound /\ Start => Calm(D, K) /\ Converging(D, K)!Init /\ Fit
  BY BegunConverging, ConvergingConstants
<1>2. Sound /\ Calm(D, K) /\ [Runtime]_vars
        => Calm(D, K)' /\ [Converging(D, K)!Next]_(Converging(D, K)!vars)
  BY RuntimeConverges DEF ConvergingStep
<1>3. Spec => []Sound
  <2>1. Init => Owing
    BY InitOwing
  <2>2. Inv /\ Tasks /\ Owing /\ [Next]_vars => Owing'
    BY NextOwing
  <2>3. Spec => [](Inv /\ Tasks)
    BY SpecTasks
  <2> QED BY <2>1, <2>2, <2>3, PTL DEF Spec
<1> HIDE DEF Start, Sound, Fit
<1>4. []Sound => [](Start /\ [][Runtime]_vars
                     => /\ Fit /\ Converging(D, K)!Init
                        /\ [][Converging(D, K)!Next]_(Converging(D, K)!vars))
  BY <1>1, <1>2, PTL
<1> QED BY <1>3, <1>4, PTL DEF Start, Fit

(* How far an analysis is; what a document keeps of superseded snapshots.  *)
Progress ==
  [waiting |-> 0, processing |-> 1, processed |-> 2, queued |-> 3, validating |-> 4,
   validated |-> 5, adopted |-> 6]
Superseded(K, d) == K[d] \cap Outdated(d)

(* One document moves on: its analysis comes further, or it begins again   *)
(* because something it keeps was superseded, and now nothing is.  Only    *)
(* documents that keep it notice.                                          *)
MovesOn(D, K) ==
  \E d \in D :
    /\ \/ /\ Progress[Stage(d)]' = Progress[Stage(d)] + 1
          /\ Superseded(K, d)' = Superseded(K, d)
       \/ Superseded(K, d) # {} /\ Superseded(K, d)' = {}
    /\ \A e \in D \ {d} :
         /\ Stage(e)' = Stage(e)
         /\ Superseded(K, e)' = Superseded(K, e) \/ d \in K[e]

LEMMA StepMovesOn ==
  ASSUME NEW D, NEW K, Converging(D, K)!Next
  PROVE  MovesOn(D, K)
<1> DEFINE stages == [d \in D |-> Stage(d)]
           stales == [d \in D |-> K[d] \cap Outdated(d)]
<1>1. \A d \in D : /\ stages[d] = Stage(d) /\ stages'[d] = Stage(d)'
                   /\ stales[d] = Superseded(K, d) /\ stales'[d] = Superseded(K, d)'
  BY DEF Superseded
<1>2. ASSUME NEW d \in D, NEW from, NEW to, Converging(D, K)!Move(d, from, to)
      PROVE  /\ stages[d] = from /\ stages'[d] = to
             /\ \A e \in D \ {d} : stages'[e] = stages[e]
  <2>1. stages[d] = from /\ stages' = [stages EXCEPT ![d] = to]
    BY <1>2 DEF Converging!Move
  <2> QED BY <2>1
<1>3. ASSUME NEW d \in D, stales[d] # {}, Converging(D, K)!Retry(d)
      PROVE  MovesOn(D, K)
  <2>1. /\ stages' = [stages EXCEPT ![d] = "waiting"]
        /\ stales' = [e \in D |-> IF e = d THEN {}
                        ELSE IF stages[e] # "adopted" /\ d \in K[e] THEN stales[e] \cup {d}
                        ELSE stales[e]]
    BY <1>3 DEF Converging!Retry, Converging!HoldsOn
  <2>2. /\ stales'[d] = {}
        /\ \A e \in D \ {d} :
             stages'[e] = stages[e] /\ (stales'[e] = stales[e] \/ d \in K[e])
    <3> HIDE DEF stages, stales
    <3> QED BY <2>1
  <2> HIDE DEF stages, stales
  <2>3. Superseded(K, d) # {} /\ Superseded(K, d)' = {}
    BY <1>1, <1>3, <2>2
  <2>4. \A e \in D \ {d} :
          Stage(e)' = Stage(e) /\ (Superseded(K, e)' = Superseded(K, e) \/ d \in K[e])
    BY <1>1, <2>2
  <2> QED BY <2>3, <2>4 DEF MovesOn
<1>4. ASSUME NEW d \in D, NEW from \in DOMAIN Progress, NEW to \in DOMAIN Progress,
             Converging(D, K)!Move(d, from, to), stales' = stales,
             Progress[to] = Progress[from] + 1
      PROVE  MovesOn(D, K)
  <2>1. Stage(d) = from /\ Stage(d)' = to /\ \A e \in D \ {d} : Stage(e)' = Stage(e)
    BY <1>1, <1>2, <1>4
  <2> HIDE DEF stages, stales
  <2>2. \A e \in D : Superseded(K, e)' = Superseded(K, e)
    BY <1>1, <1>4
  <2>3. Progress[Stage(d)]' = Progress[Stage(d)] + 1
    BY <1>4, <2>1 DEF Progress
  <2> QED BY <2>1, <2>2, <2>3 DEF MovesOn
<1>5. PICK d \in D :
        \/ Converging(D, K)!StartProcessing(d) \/ Converging(D, K)!FinishProcessing(d)
        \/ Converging(D, K)!ProjectProcessingCompleted(d)
        \/ Converging(D, K)!StartValidation(d) \/ Converging(D, K)!FinishValidation(d)
        \/ Converging(D, K)!ProjectValidationCompleted(d)
  BY DEF Converging!Next
<1>6. \/ stales[d] # {} /\ Converging(D, K)!Retry(d)
      \/ \E m \in {<<"waiting", "processing">>, <<"processing", "processed">>,
                   <<"processed", "queued">>, <<"queued", "validating">>,
                   <<"validating", "validated">>, <<"validated", "adopted">>} :
           Converging(D, K)!Move(d, m[1], m[2]) /\ stales' = stales
  BY <1>5 DEF Converging!StartProcessing, Converging!FinishProcessing,
              Converging!ProjectProcessingCompleted, Converging!StartValidation,
              Converging!FinishValidation, Converging!ProjectValidationCompleted
<1> HIDE DEF stales
<1>7. \A m \in {<<"waiting", "processing">>, <<"processing", "processed">>,
                <<"processed", "queued">>, <<"queued", "validating">>,
                <<"validating", "validated">>, <<"validated", "adopted">>} :
        /\ m[1] \in DOMAIN Progress /\ m[2] \in DOMAIN Progress
        /\ Progress[m[2]] = Progress[m[1]] + 1
  BY DEF Progress
<1> QED BY <1>3, <1>4, <1>6, <1>7

(* Every step of a quiet session that a document notices takes one of them *)
(* forward: its analysis comes further with nothing newly superseded, or a *)
(* retry (retry_completion) leaves it with nothing superseded, at the cost *)
(* of those that keep it.  So if no document keeps, through others, one    *)
(* that keeps it, there are only finitely many retries.                    *)
THEOREM QuietSessionMovesOn ==
  ASSUME NEW CONSTANT D, NEW CONSTANT K
  PROVE  Spec => []((Begun /\ FileDocs = D /\ Keeping = K) /\ [][Runtime]_vars
                      => [][MovesOn(D, K)]_(Converging(D, K)!vars))
<1>1. [Converging(D, K)!Next]_(Converging(D, K)!vars)
        => [MovesOn(D, K)]_(Converging(D, K)!vars)
  BY StepMovesOn
<1>2. Spec => []((Begun /\ FileDocs = D /\ Keeping = K) /\ [][Runtime]_vars
                   => /\ D \subseteq Nat /\ IsFiniteSet(D) /\ K \in [D -> SUBSET D]
                      /\ Converging(D, K)!Init
                      /\ [][Converging(D, K)!Next]_(Converging(D, K)!vars))
  BY QuietSessionConverges
<1> QED BY <1>1, <1>2, PTL
=============================================================================
