-------------------------- MODULE ManagedBundleProofs -------------------------
(***************************************************************************)
(* For any number of savers, files, generations and edits: what is served  *)
(* is one generation, savers leave unknown files alone, and a save that    *)
(* nobody disturbs is not refused and leaves exactly its generation.  Of   *)
(* two overlapping saves of different generations at most one succeeds.    *)
(***************************************************************************)
EXTENDS ManagedBundle, TLAPS

(* What each place of a saver says about the names it works on.            *)
WorkingAt(s, x) ==
  /\ x.at \in {"write", "fill", "recheck", "rename", "publish"} => x.todo \subseteq FilesOf(Saves[s])
  /\ x.at \in {"fill", "recheck", "rename"} => x.file \in Listing(Saves[s])
  /\ x.at \in {"recheck", "rename", "remove"} => x.file \in Listing(x.base)
  /\ x.at \in {"stale", "remove"} => x.todo \subseteq FilesOf(x.base)
Working(s) == WorkingAt(s, saver[s])

(* What has been copied is of the manifest's generation.                   *)
Copied ==
  /\ reader.at # "closed" => reader.manifest \in Generations
  /\ reader.at = "verify" => reader.copy = <<>>
  /\ reader.at \in {"copy", "served"} =>
       reader.copy = [n \in FilesOf(reader.manifest) \ reader.todo |-> Bundle[reader.manifest][n]]
  /\ reader.todo \subseteq FilesOf(reader.manifest)
  /\ reader.at = "served" => reader.todo = {}

IInv == TypeOK /\ (\A s \in Savers : Working(s)) /\ Copied

LEMMA BundleFacts ==
  ASSUME NEW g \in Generations \cup {None}
  PROVE  /\ FilesOf(g) \subseteq Files /\ Listing(g) \subseteq Names
         /\ DirsOf(g) \subseteq Dirs
         /\ FilesOf(g) \subseteq Listing(g)
         /\ \A n \in Listing(g) : Content(g, n) \in Contents \cup Generations
  BY BundleAssumption DEF FilesOf, Listing, DirsOf, Content, Names, Contents, Root, None, Manifest

LEMMA EmptyCopy == DOMAIN <<>> = {} /\ <<>> \in [{} -> Contents \cup {Absent, Partial, Edited}]
  OBVIOUS

LEMMA NoCopy == Closed \in Reader
  <1>1. <<>> \in UNION {[N -> Contents \cup {Absent, Partial, Edited}] : N \in SUBSET Files}
    BY EmptyCopy
  <1> QED
    BY <1>1 DEF Closed, Reader

LEMMA FreshSaver == Fresh \in Saver
  BY DEF Fresh, Saver, Names

LEMMA InitIInv == Init => IInv
  <1> SUFFICES ASSUME Init PROVE IInv
    OBVIOUS
  <1>1. TypeOK
    <2>1. PICK g \in Generations \cup {None} :
            /\ disk = [n \in Names |-> IF n \in Listing(g) THEN Content(g, n) ELSE Absent]
            /\ dirs = DirsOf(g)
      BY DEF Init
    <2>2. disk \in [Names -> Contents \cup Generations \cup {Absent, Partial, Edited}] /\ dirs \subseteq Dirs
      BY <2>1, BundleFacts
    <2> QED
      BY <2>2, FreshSaver, NoCopy DEF Init, TypeOK, Fresh
  <1>2. \A s \in Savers : Working(s)
    BY DEF Init, Working, WorkingAt, Fresh
  <1>3. Copied
    BY DEF Init, Copied, Closed
  <1> QED
    BY <1>1, <1>2, <1>3 DEF IInv

-----------------------------------------------------------------------------
(* What has to be shown of a saver's step.                                 *)
Moves(s) ==
  /\ saver' = [saver EXCEPT ![s] = saver'[s]] /\ saver'[s] \in Saver
  /\ WorkingAt(s, saver'[s])
  /\ UNCHANGED <<reader, edits>>
  /\ disk' \in [Names -> Contents \cup Generations \cup {Absent, Partial, Edited}]
  /\ dirs' \subseteq Dirs
  /\ temps' \in [Savers -> Dirs \cup {Root, None}]
  /\ \A t \in Savers \ {s} : temps'[t] = temps[t]
  /\ temps'[s] # None => saver'[s].at \in {"recheck", "rename", "failed"}

LEMMA SaverMoves ==
  ASSUME IInv, NEW s \in Savers, Moves(s)
  PROVE  IInv'
  <1> USE DEF IInv, Moves
  <1>1. saver' \in [Savers -> Saver] /\ \A t \in Savers \ {s} : saver'[t] = saver[t]
    BY DEF TypeOK
  <1>2. TypeOK'
    BY <1>1 DEF TypeOK
  <1>3. \A t \in Savers : Working(t)'
    BY <1>1 DEF Working, WorkingAt
  <1>4. Copied'
    BY DEF Copied
  <1> QED
    BY <1>2, <1>3, <1>4

(* What is known before a saver's step.                                    *)
LEMMA SaverFacts ==
  ASSUME IInv, NEW s \in Savers
  PROVE  /\ saver \in [Savers -> Saver] /\ saver[s] \in Saver
         /\ WorkingAt(s, saver[s])
         /\ Saves[s] \in Generations
         /\ Listing(Saves[s]) = FilesOf(Saves[s]) \cup {Manifest}
         /\ FilesOf(Saves[s]) \subseteq Files /\ DirsOf(Saves[s]) \subseteq Dirs
         /\ FilesOf(Goal(s)) \subseteq Files
         /\ FilesOf(saver[s].base) \subseteq Files /\ DirsOf(saver[s].base) \subseteq Dirs
         /\ disk \in [Names -> Contents \cup Generations \cup {Absent, Partial, Edited}]
         /\ dirs \subseteq Dirs
         /\ temps \in [Savers -> Dirs \cup {Root, None}]
         /\ temps[s] # None => saver[s].at \in {"recheck", "rename", "failed"}
  <1>1. saver[s] \in Saver /\ Saves[s] \in Generations
    BY BundleAssumption DEF IInv, TypeOK
  <1>2. saver[s].base \in Generations \cup {None} /\ Goal(s) \in Generations \cup {None}
    BY <1>1 DEF Saver, Goal
  <1>3. Listing(Saves[s]) = FilesOf(Saves[s]) \cup {Manifest}
    BY <1>1, BundleAssumption DEF Listing, FilesOf
  <1> QED
    BY <1>1, <1>2, <1>3, BundleFacts DEF IInv, TypeOK, Working

(* A saver that moves on to another place and stage.                       *)
Moved(x, place, stage, todo) ==
  [at |-> place, base |-> x.base, stage |-> stage, todo |-> todo, file |-> x.file]

LEMMA MovedType ==
  ASSUME NEW x \in Saver, NEW place \in {"manifest", "saved"} \cup Checks \cup Changes, NEW stage \in 0..4,
         NEW todo \in SUBSET (Files \cup Dirs)
  PROVE  Moved(x, place, stage, todo) \in Saver
  BY DEF Moved, Saver, Ended

LEMMA CheckStep ==
  ASSUME IInv, NEW s \in Savers,
         Begin(s) \/ ReadManifest(s) \/ List(s) \/ Verify(s) \/ Verified(s)
  PROVE  Moves(s)
  <1> USE DEF At, Go, SaverOnly
  <1>0. saver[s] \in Saver
    BY SaverFacts
  <1>1. CASE Begin(s)
    <2>1. saver'[s] = Moved(saver[s], IF Lists(None) THEN "list" ELSE "manifest",
                            IF Lists(None) THEN 2 ELSE 1, saver[s].todo)
      BY <1>1, SaverFacts DEF Begin, Saver, Moved
    <2>2. saver'[s] \in Saver /\ saver'[s].at \in {"list", "manifest"}
      <3>1. saver[s].todo \in SUBSET (Files \cup Dirs)
        BY <1>0 DEF Saver
      <3> QED
        BY <1>0, <2>1, <3>1, MovedType DEF Checks, Moved
    <2> QED
      BY <1>1, <2>2, SaverFacts DEF Begin, Moves, WorkingAt
  <1>2. CASE ReadManifest(s)
    <2>1. saver'[s] \in Saver /\ saver'[s].at \in {"list", "refused"}
      BY <1>2, SaverFacts DEF ReadManifest, Saver, Checks, Ended
    <2> QED
      BY <1>2, <2>1, SaverFacts DEF ReadManifest, Moves, WorkingAt
  <1>3. CASE List(s)
    <2>1. saver'[s] \in Saver /\ saver'[s].at \in {"verify", "refused"}
      BY <1>3, SaverFacts DEF List, Saver, Checks, Ended
    <2> QED
      BY <1>3, <2>1, SaverFacts DEF List, Moves, WorkingAt
  <1>4. CASE Verify(s)
    <2>1. saver'[s] \in Saver /\ saver'[s].at \in {"verify", "refused"}
      BY <1>4, SaverFacts DEF Verify, Saver, Checks, Ended
    <2> QED
      BY <1>4, <2>1, SaverFacts DEF Verify, Moves, WorkingAt
  <1>5. CASE Verified(s)
    <2>1. saver[s].stage \in 0..4 /\ saver[s].todo = {}
      BY <1>0, <1>5 DEF Verified, Saver
    <2> DEFINE place == CASE saver[s].stage = 1 -> "list" [] saver[s].stage = 2 -> "write" [] OTHER -> "saved"
               stage == IF saver[s].stage = 4 THEN 4 ELSE saver[s].stage + 1
               todo == IF saver[s].stage = 2 THEN FilesOf(Saves[s]) ELSE {}
    <2>2. saver'[s] = Moved(saver[s], place, stage, todo)
      BY <1>0, <1>5, SaverFacts DEF Verified, Moved, Saver
    <2>3. saver'[s] \in Saver
      <3>1. place \in {"saved"} \cup Checks \cup Changes /\ stage \in 0..4
        BY <2>1 DEF Checks, Changes
      <3>2. todo \in SUBSET (Files \cup Dirs)
        BY SaverFacts
      <3> HIDE DEF place, stage, todo
      <3> QED
        BY <1>0, <2>2, <3>1, <3>2, MovedType
    <2>4. WorkingAt(s, saver'[s])
      <3>1. CASE saver[s].stage = 2
        BY <1>0, <2>2, <3>1 DEF WorkingAt, Saver, Moved
      <3>2. CASE saver[s].stage # 2
        BY <1>0, <2>2, <3>2 DEF WorkingAt, Saver, Moved
      <3> QED
        BY <3>1, <3>2
    <2>5. saver' = [saver EXCEPT ![s] = saver'[s]]
      <3>1. saver \in [Savers -> Saver]
        BY SaverFacts
      <3>2. saver' = [saver EXCEPT ![s].at = place, ![s].stage = stage, ![s].todo = todo]
        BY <1>5 DEF Verified
      <3> HIDE DEF place, stage, todo
      <3> QED
        BY <3>1, <3>2
    <2>6. dirs' \subseteq Dirs
      BY <1>5, SaverFacts DEF Verified
    <2> QED
      BY <1>5, <2>3, <2>4, <2>5, <2>6, SaverFacts DEF Verified, Moves
  <1> QED
    BY <1>1, <1>2, <1>3, <1>4, <1>5

LEMMA WriteStep ==
  ASSUME IInv, NEW s \in Savers,
         (\E n \in Names : Create(s, n) \/ Replace(s, n)) \/ Fill(s) \/ Recheck(s) \/ Rename(s)
  PROVE  Moves(s)
  <1> USE DEF At, Go, SaverOnly, Refuse, Dropped
  <1>0. saver[s] \in Saver
    BY SaverFacts
  <1>1. ASSUME NEW n \in Names, Create(s, n) PROVE Moves(s)
    <2>1. n \in Listing(Saves[s]) /\ saver[s].at \in {"write", "publish"}
      BY <1>1, SaverFacts DEF Create, Turn, WorkingAt
    <2>2. \/ saver'[s] = [saver[s] EXCEPT !.at = "fill", !.file = n]
          \/ saver'[s] = [saver[s] EXCEPT !.at = "refused"]
      BY <1>1, SaverFacts DEF Create, Saver
    <2>3. saver'[s] \in Saver
      BY <2>2, SaverFacts DEF Saver, Changes, Ended
    <2>4. WorkingAt(s, saver'[s])
      BY <2>1, <2>2, SaverFacts DEF WorkingAt, Saver
    <2> QED
      BY <1>1, <2>1, <2>3, <2>4, SaverFacts DEF Create, Moves
  <1>2. ASSUME NEW n \in Names, Replace(s, n) PROVE Moves(s)
    <2>1. n \in Listing(Saves[s]) /\ saver[s].at \in {"write", "publish"}
      BY <1>2, SaverFacts DEF Replace, Turn, WorkingAt
    <2>2. \/ saver'[s] = [saver[s] EXCEPT !.at = "recheck", !.file = n]
          \/ saver'[s] = [saver[s] EXCEPT !.at = "refused"] /\ temps' = temps
      BY <1>2, SaverFacts DEF Replace, Saver
    <2>3. saver'[s] \in Saver
      BY <2>2, SaverFacts DEF Saver, Changes, Ended
    <2>4. WorkingAt(s, saver'[s])
      BY <1>2, <2>1, <2>2, SaverFacts DEF Replace, WorkingAt, Saver
    <2>5. DirOf(n) \in Dirs \cup {Root}
      BY BundleAssumption DEF DirOf, Names
    <2>6. temps'[s] # None => saver'[s].at = "recheck"
      BY <2>1, <2>2, SaverFacts DEF Saver
    <2> QED
      BY <1>2, <2>3, <2>4, <2>5, <2>6, SaverFacts DEF Replace, Moves
  <1>3. CASE Fill(s) \/ Rename(s)
    <2>1. saver[s].file \in Listing(Saves[s]) /\ saver[s].at \in {"fill", "rename"}
      BY <1>3, SaverFacts DEF Fill, Rename, WorkingAt
    <2>2. Content(Saves[s], saver[s].file) \in Contents \cup Generations
      BY <2>1, SaverFacts, BundleFacts
    <2>3. disk' \in [Names -> Contents \cup Generations \cup {Absent, Partial, Edited}]
      BY <1>3, <2>2, SaverFacts DEF Fill, Rename, NewContent
    <2>4. saver'[s] = Moved(saver[s], IF saver[s].file = Manifest THEN "list" ELSE "write",
                            IF saver[s].file = Manifest THEN 4 ELSE 3, saver[s].todo \ {saver[s].file})
      <3>1. Written(s) /\ saver \in [Savers -> Saver]
        BY <1>3, SaverFacts DEF Fill, Rename
      <3> QED
        BY <1>0, <3>1 DEF Written, Saver, Moved
    <2>5. saver'[s] \in Saver
      <3>1. saver[s].todo \ {saver[s].file} \in SUBSET (Files \cup Dirs)
        BY <1>0 DEF Saver
      <3> QED
        BY <1>0, <2>4, <3>1, MovedType DEF Checks, Changes
    <2>6. WorkingAt(s, saver'[s])
      BY <2>1, <2>4, SaverFacts DEF WorkingAt, Saver, Moved
    <2>7. saver' = [saver EXCEPT ![s] = saver'[s]]
      BY <1>3, SaverFacts DEF Fill, Rename, Written
    <2>8. /\ temps' \in [Savers -> Dirs \cup {Root, None}]
          /\ \A t \in Savers \ {s} : temps'[t] = temps[t]
          /\ temps'[s] = None
      BY <1>3, SaverFacts DEF Fill, Rename
    <2> QED
      BY <1>3, <2>3, <2>5, <2>6, <2>7, <2>8, SaverFacts DEF Fill, Rename, Moves
  <1>4. CASE Recheck(s)
    <2>1. \/ saver'[s] = [saver[s] EXCEPT !.at = "rename"]
          \/ saver'[s] = [saver[s] EXCEPT !.at = "refused"] /\ temps'[s] = None
      BY <1>4, SaverFacts DEF Recheck, Saver
    <2>2. saver'[s] \in Saver
      BY <2>1, SaverFacts DEF Saver, Changes, Ended
    <2>3. WorkingAt(s, saver'[s])
      BY <1>4, <2>1, SaverFacts DEF Recheck, WorkingAt, Saver
    <2>4. temps'[s] # None => saver'[s].at = "rename"
      BY <2>1, SaverFacts DEF Saver
    <2> QED
      BY <1>4, <2>2, <2>3, <2>4, SaverFacts DEF Recheck, Moves
  <1> QED
    BY <1>1, <1>2, <1>3, <1>4

LEMMA RemoveStep ==
  ASSUME IInv, NEW s \in Savers,
         \/ WrittenAll(s) \/ CheckStale(s) \/ Remove(s) \/ RemovedAll(s) \/ Prune(s) \/ Pruned(s)
         \/ Fail(s)
  PROVE  Moves(s)
  <1> USE DEF At, Go, SaverOnly, Refuse, Dropped
  <1>0. saver[s] \in Saver /\ saver \in [Savers -> Saver]
    BY SaverFacts
  <1>1. CASE WrittenAll(s)
    <2>1. saver'[s] = Moved(saver[s], "stale", saver[s].stage, FilesOf(saver[s].base) \ FilesOf(Saves[s]))
      BY <1>0, <1>1 DEF WrittenAll, Moved, Saver
    <2>2. saver'[s] \in Saver
      <3>1. saver[s].stage \in 0..4 /\ FilesOf(saver[s].base) \ FilesOf(Saves[s]) \in SUBSET (Files \cup Dirs)
        BY <1>0, SaverFacts DEF Saver
      <3> QED
        BY <1>0, <2>1, <3>1, MovedType DEF Changes
    <2>3. WorkingAt(s, saver'[s])
      BY <2>1 DEF WorkingAt, Moved
    <2> QED
      BY <1>1, <2>2, <2>3, SaverFacts DEF WrittenAll, Moves
  <1>2. CASE CheckStale(s)
    <2>1. \/ /\ saver'[s].at = "remove" /\ saver'[s].file \in saver[s].todo
             /\ saver'[s].base = saver[s].base /\ saver'[s].todo = saver[s].todo
          \/ saver'[s].at = "refused"
      BY <1>0, <1>2 DEF CheckStale, Saver
    <2>2. saver[s].todo \subseteq FilesOf(saver[s].base) /\ FilesOf(saver[s].base) \subseteq Files
      BY <1>2, SaverFacts DEF CheckStale, WorkingAt
    <2>3. saver'[s] \in Saver
      BY <1>0, <1>2, <2>2 DEF CheckStale, Saver, Names, Changes, Ended
    <2>4. FilesOf(saver[s].base) \subseteq Listing(saver[s].base)
      BY DEF FilesOf, Listing
    <2>5. WorkingAt(s, saver'[s])
      BY <2>1, <2>2, <2>4 DEF WorkingAt
    <2> QED
      BY <1>2, <2>3, <2>5, SaverFacts DEF CheckStale, Moves
  <1>3. CASE Remove(s)
    <2>1. \/ saver'[s] = [saver[s] EXCEPT !.at = "stale", !.todo = @ \ {saver[s].file}]
          \/ saver'[s] = [saver[s] EXCEPT !.at = "refused"]
      BY <1>0, <1>3 DEF Remove, Saver
    <2>2. saver'[s] \in Saver
      BY <1>0, <2>1, ZenonT(40) DEF Saver, Changes, Ended
    <2>3. WorkingAt(s, saver[s]) /\ saver[s].at = "remove"
      BY <1>3, SaverFacts DEF Remove
    <2>4. WorkingAt(s, saver'[s])
      BY <1>0, <2>1, <2>3 DEF WorkingAt, Saver
    <2>5. disk' \in [Names -> Contents \cup Generations \cup {Absent, Partial, Edited}]
      BY <1>3, SaverFacts DEF Remove
    <2> QED
      BY <1>3, <2>2, <2>4, <2>5, SaverFacts DEF Remove, Moves
  <1>4. CASE RemovedAll(s)
    <2>1. saver'[s] = Moved(saver[s], "prune", saver[s].stage, DirsOf(saver[s].base) \ DirsOf(Saves[s]))
      BY <1>0, <1>4 DEF RemovedAll, Moved, Saver
    <2>2. saver'[s] \in Saver
      <3>1. saver[s].stage \in 0..4 /\ DirsOf(saver[s].base) \ DirsOf(Saves[s]) \in SUBSET (Files \cup Dirs)
        BY <1>0, SaverFacts DEF Saver
      <3> QED
        BY <1>0, <2>1, <3>1, MovedType DEF Changes
    <2>3. WorkingAt(s, saver'[s])
      BY <2>1 DEF WorkingAt, Moved
    <2> QED
      BY <1>4, <2>2, <2>3, SaverFacts DEF RemovedAll, Moves
  <1>5. CASE Prune(s)
    <2>1. saver'[s] \in Saver /\ saver'[s].at \in {"prune", "refused"}
      BY <1>0, <1>5 DEF Prune, Saver, Changes, Ended
    <2>2. WorkingAt(s, saver'[s])
      BY <2>1 DEF WorkingAt
    <2> QED
      BY <1>5, <2>1, <2>2, SaverFacts DEF Prune, Moves
  <1>6. CASE Pruned(s)
    <2>1. saver'[s] = [saver[s] EXCEPT !.at = "publish"] /\ saver[s].todo = {}
      BY <1>0, <1>6 DEF Pruned
    <2>2. saver'[s] \in Saver
      BY <1>0, <2>1 DEF Saver, Changes
    <2>3. WorkingAt(s, saver'[s])
      BY <1>0, <2>1 DEF WorkingAt, Saver
    <2> QED
      BY <1>6, <2>2, <2>3, SaverFacts DEF Pruned, Moves
  <1>7. CASE Fail(s)
    <2>1. saver'[s] = [saver[s] EXCEPT !.at = "failed"]
      BY <1>0, <1>7 DEF Fail
    <2>2. saver'[s] \in Saver /\ saver'[s].at = "failed"
      BY <1>0, <2>1 DEF Saver, Ended
    <2>3. WorkingAt(s, saver'[s])
      BY <2>2 DEF WorkingAt
    <2> QED
      BY <1>7, <2>2, <2>3, SaverFacts DEF Fail, Moves
  <1> QED
    BY <1>1, <1>2, <1>3, <1>4, <1>5, <1>6, <1>7

LEMMA SaveStep ==
  ASSUME IInv, NEW s \in Savers, Save(s)
  PROVE  Moves(s)
  BY CheckStep, WriteStep, RemoveStep DEF Save

-----------------------------------------------------------------------------
(* The reader's copy grows by what its check admits.                       *)
LEMMA ReadStep ==
  ASSUME IInv, Read
  PROVE  IInv'
  <1> USE DEF ReaderOnly
  <1>0. reader \in Reader /\ Copied /\ TypeOK /\ UNCHANGED <<disk, dirs, temps, saver, edits>>
    BY DEF IInv, TypeOK, Read, OpenBundle, VerifyFile, CopyFile
  <1>1. reader' \in Reader /\ Copied'
    <2>1. CASE OpenBundle
      <3>1. disk[Manifest] \in Generations /\ FilesOf(disk[Manifest]) \subseteq Files
        BY <2>1, BundleFacts DEF OpenBundle
      <3>2. reader' = [at |-> "verify", manifest |-> disk[Manifest], todo |-> FilesOf(disk[Manifest]), copy |-> <<>>]
        BY <2>1 DEF OpenBundle, Closed
      <3>3. reader' \in Reader
        BY <3>1, <3>2, NoCopy DEF Reader, Closed
      <3> QED
        BY <3>1, <3>2, <3>3 DEF Copied
    <2>2. ASSUME NEW n \in Files, VerifyFile(n) PROVE reader' \in Reader /\ Copied'
      <3>1. CASE reader' = Closed
        BY <3>1, NoCopy DEF Copied, Closed
      <3>2. CASE reader' = [reader EXCEPT !.todo = @ \ {n}]
        <4>1. reader' \in Reader /\ reader'.at = "verify" /\ reader'.manifest = reader.manifest
              /\ reader'.copy = reader.copy /\ reader'.todo \subseteq reader.todo
          BY <1>0, <2>2, <3>2 DEF VerifyFile, Reader
        <4> QED
          BY <1>0, <2>2, <4>1 DEF Copied, VerifyFile
      <3>3. CASE reader' = [reader EXCEPT !.at = "copy", !.todo = FilesOf(reader.manifest)]
        <4>1. reader.manifest \in Generations /\ reader.copy = <<>>
          BY <1>0, <2>2 DEF VerifyFile, Copied
        <4>2. FilesOf(reader.manifest) \subseteq Files
          BY <4>1, BundleFacts
        <4>3. reader' \in Reader /\ reader'.at = "copy" /\ reader'.manifest = reader.manifest
              /\ reader'.copy = <<>> /\ reader'.todo = FilesOf(reader.manifest)
          BY <1>0, <3>3, <4>1, <4>2 DEF Reader
        <4>4. <<>> = [m \in {} |-> Bundle[reader.manifest][m]]
          BY EmptyCopy
        <4> QED
          BY <4>1, <4>3, <4>4 DEF Copied
      <3> QED
        BY <2>2, <3>1, <3>2, <3>3 DEF VerifyFile
    <2>3. ASSUME NEW n \in Files, CopyFile(n) PROVE reader' \in Reader /\ Copied'
      <3>1. CASE disk[n] # Bundle[reader.manifest][n]
        BY <2>3, <3>1, NoCopy DEF CopyFile, Copied, Closed
      <3>2. CASE disk[n] = Bundle[reader.manifest][n]
        <4> DEFINE copy == [m \in FilesOf(reader.manifest) \ (reader.todo \ {n}) |-> Bundle[reader.manifest][m]]
        <4>1. /\ reader.manifest \in Generations /\ n \in reader.todo
              /\ reader.todo \subseteq FilesOf(reader.manifest)
              /\ reader.copy = [m \in FilesOf(reader.manifest) \ reader.todo |-> Bundle[reader.manifest][m]]
          BY <1>0, <2>3 DEF CopyFile, Copied
        <4>2. CopyWith(n) = copy
          BY <3>2, <4>1 DEF CopyWith
        <4>3. FilesOf(reader.manifest) = DOMAIN Bundle[reader.manifest] /\ FilesOf(reader.manifest) \subseteq Files
          BY <4>1, BundleFacts, BundleAssumption DEF FilesOf
        <4>4. \A m \in FilesOf(reader.manifest) : Bundle[reader.manifest][m] \in Contents
          BY <4>1, <4>3, BundleAssumption
        <4>5. copy \in UNION {[N -> Contents \cup {Absent, Partial, Edited}] : N \in SUBSET Files}
          <5> DEFINE N == FilesOf(reader.manifest) \ (reader.todo \ {n})
          <5>1. N \in SUBSET Files /\ copy \in [N -> Contents \cup {Absent, Partial, Edited}]
            BY <4>3, <4>4
          <5> QED
            BY <5>1
        <4>6. reader' = [at |-> IF reader.todo = {n} THEN "served" ELSE "copy", manifest |-> reader.manifest,
                         todo |-> reader.todo \ {n}, copy |-> copy]
          <5> HIDE DEF copy
          <5> QED
            BY <1>0, <2>3, <3>2, <4>2 DEF CopyFile, Reader
        <4>7. reader' \in Reader
          <5> HIDE DEF copy
          <5> QED
            BY <1>0, <4>1, <4>5, <4>6 DEF Reader
        <4> QED
          BY <4>1, <4>6, <4>7 DEF Copied
      <3> QED
        BY <3>1, <3>2
    <2> QED
      BY <2>1, <2>2, <2>3 DEF Read
  <1>2. TypeOK'
    BY <1>0, <1>1 DEF TypeOK
  <1>3. \A s \in Savers : Working(s)'
    BY <1>0 DEF IInv, Working, WorkingAt
  <1> QED
    BY <1>1, <1>2, <1>3 DEF IInv

LEMMA EditStep ==
  ASSUME IInv, NEW n \in Names, NEW content \in {Edited, Absent}, Edit(n, content)
  PROVE  IInv'
  <1>1. UNCHANGED <<dirs, temps, saver, reader>>
    BY DEF Edit
  <1>2. TypeOK'
    BY <1>1 DEF IInv, TypeOK, Edit
  <1> QED
    BY <1>1, <1>2 DEF IInv, Working, WorkingAt, Copied

LEMMA IInvariant == Spec => []IInv
  <1>1. IInv /\ [Next]_vars => IInv'
    <2>1. IInv /\ UNCHANGED vars => IInv'
      BY DEF vars, IInv, TypeOK, Working, WorkingAt, Copied
    <2>2. IInv /\ Next => IInv'
      BY SaveStep, SaverMoves, ReadStep, EditStep DEF Next
    <2> QED
      BY <2>1, <2>2
  <1> QED
    BY <1>1, InitIInv, PTL DEF Spec

-----------------------------------------------------------------------------
(* Every variable of the savers, the reader and the directory keeps its    *)
(* type, and a temporary file belongs to a saver that may still have one   *)
(* (save_managed_bundle, TemporaryReplacement).                            *)
THEOREM TypeCorrect == Spec => []TypeOK
  <1>1. IInv => TypeOK
    BY DEF IInv
  <1> QED
    BY <1>1, IInvariant, PTL

(* BundleSnapshot::from_reader returns one generation whole, whatever any  *)
(* number of savers and editors do while it copies.                        *)
THEOREM SnapshotsWhole == Spec => []ServedIsWhole
  <1>1. IInv => ServedIsWhole
    <2> SUFFICES ASSUME IInv, reader.at = "served" PROVE reader.copy = Bundle[reader.manifest]
      BY DEF ServedIsWhole
    <2>1. reader.manifest \in Generations
          /\ reader.copy = [n \in FilesOf(reader.manifest) |-> Bundle[reader.manifest][n]]
      BY DEF IInv, Copied
    <2>2. FilesOf(reader.manifest) = DOMAIN Bundle[reader.manifest]
      BY <2>1, BundleAssumption DEF FilesOf
    <2> QED
      BY <2>1, <2>2, BundleAssumption
  <1> QED
    BY <1>1, IInvariant, PTL

(* No step of save_managed_bundle changes a file that exists and is not    *)
(* listed in the manifest its saver started from.                          *)
THEOREM UnknownFilesSurvive == Spec => UnknownFilesKept
  <1> DEFINE Kept(s) == \A n \in Names : disk'[n] # disk[n] /\ disk[n] \notin {Absent, Partial} =>
                          n \in Listing(saver[s].base)
             Step == \A s \in Savers : Saving(s) => Kept(s)
  <1>1. IInv /\ [Next]_vars => Step
    <2> SUFFICES ASSUME IInv, [Next]_vars, NEW s \in Savers, Saving(s) PROVE Kept(s)
      OBVIOUS
    <2>1. Save(s)
      <3>1. Next
        BY DEF Saving, vars
      <3>2. ~Read /\ ~\E n \in Names, content \in {Edited, Absent} : Edit(n, content)
        BY DEF Saving, Read, OpenBundle, VerifyFile, CopyFile, ReaderOnly, Edit
      <3>3. PICK t \in Savers : Save(t)
        BY <3>1, <3>2 DEF Next
      <3>4. s = t
        BY <3>3, SaveStep, SaverFacts DEF Saving, Moves
      <3> QED
        BY <3>3, <3>4
    <2>2. /\ WorkingAt(s, saver[s])
          /\ disk \in [Names -> Contents \cup Generations \cup {Absent, Partial, Edited}]
      BY SaverFacts
    <2>3. CASE Fill(s) \/ Rename(s) \/ Remove(s) \/ \E n \in Names : Create(s, n)
      BY <2>2, <2>3 DEF Fill, Rename, NewContent, Remove, Create, WorkingAt, At, Refuse
    <2>4. CASE disk' = disk
      BY <2>4
    <2>5. disk' = disk \/ Fill(s) \/ Rename(s) \/ Remove(s) \/ \E n \in Names : Create(s, n)
      BY <2>1 DEF Save, Begin, ReadManifest, List, Verify, Verified, Replace, Recheck, WrittenAll, CheckStale,
                  RemovedAll, Prune, Pruned, Fail, Refuse
    <2> QED
      BY <2>3, <2>4, <2>5
  <1>2. Spec => [][Step]_vars
    BY <1>1, IInvariant, PTL DEF Spec
  <1> QED
    BY <1>2 DEF UnknownFilesKept

-----------------------------------------------------------------------------
(* A save that nobody disturbs. *)

(* What a saver's place says of its stage and of what it works on.         *)
PlacedAt(s, x) ==
  /\ x.at = "idle" => x.base = None /\ x.stage = 0
  /\ x.at = "manifest" => x.stage = 1
  /\ x.at \in Checks => x.stage \in {1, 2, 4}
  /\ x.at = "verify" => x.todo \subseteq FilesOf(IF x.stage = 4 THEN Saves[s] ELSE x.base)
  /\ x.at \in Changes => x.stage = 3
  /\ x.at = "saved" => x.stage = 4
  /\ x.at \in {"fill", "recheck", "rename"} => x.file \in x.todo \/ (x.file = Manifest /\ x.todo = {})
  /\ x.at = "fill" => x.file \notin Listing(x.base)
  /\ x.at \in {"stale", "remove"} => x.todo \subseteq FilesOf(x.base) \ FilesOf(Saves[s])
  /\ x.at = "remove" => x.file \in x.todo
  /\ x.at = "prune" => x.todo \subseteq DirsOf(x.base) \ DirsOf(Saves[s])
  /\ x.at = "publish" => x.todo = {}
Placed(s) == PlacedAt(s, saver[s]) /\ (temps[s] # None => Changed(s))

(* What generation g has under the name n.                                 *)
Held(g, n) == IF n \in Listing(g) THEN Content(g, n) ELSE Absent

Untouched == \E g \in Generations \cup {None} :
               /\ \A n \in Names : disk[n] = Held(g, n)
               /\ dirs = DirsOf(g)

(* The names a saver has not dealt with yet, and the directories there are *)
(* meanwhile.                                                              *)
Publishing(x) == x.at = "publish" \/ (x.at \in {"fill", "recheck", "rename"} /\ x.file = Manifest)
OldNames(s, x) ==
  IF x.at \in Checks /\ x.stage # 4 THEN Names
  ELSE IF x.at \in Checks \cup {"saved"} THEN {}
  ELSE IF x.at = "prune" \/ Publishing(x) THEN {Manifest}
  ELSE IF x.at \in {"stale", "remove"} THEN x.todo \cup {Manifest}
  ELSE x.todo \cup (FilesOf(x.base) \ FilesOf(Saves[s])) \cup {Manifest}
DirsNow(s, x) ==
  IF x.at \in Checks /\ x.stage # 4 THEN DirsOf(x.base)
  ELSE IF x.at = "prune" THEN DirsOf(Saves[s]) \cup x.todo
  ELSE IF x.at \in Checks \cup {"saved"} \/ Publishing(x) THEN DirsOf(Saves[s])
  ELSE DirsOf(x.base) \cup DirsOf(Saves[s])

(* The directory is where the saver believes it to be.                     *)
InStepAt(s, x) ==
  /\ x.at # "refused"
  /\ x.at \in {"idle", "manifest"} => Untouched
  /\ x.at = "manifest" => disk[Manifest] # Absent
  /\ x.at \in Checks \cup Changes \cup {"saved"} =>
       /\ \A n \in Names :
            disk[n] = IF x.at = "fill" /\ n = x.file THEN Partial
                      ELSE IF n \in OldNames(s, x) THEN Held(x.base, n) ELSE Held(Saves[s], n)
       /\ dirs = DirsNow(s, x)
InStep(s) == InStepAt(s, saver[s])

Alone(s) == edits = 0 /\ \A t \in Savers \ {s} : ~Changed(t)

UInv ==
  /\ IInv
  /\ \A s \in Savers : Placed(s)
  /\ \A s \in Savers : Alone(s) => InStep(s)

LEMMA HeldFacts ==
  ASSUME NEW g \in Generations \cup {None}
  PROVE  /\ \A n \in Listing(g) : /\ Held(g, n) = Content(g, n)
                                 /\ Held(g, n) \notin {Absent, Partial}
         /\ \A n : n \notin Listing(g) => Held(g, n) = Absent
         /\ g # None => Manifest \in Listing(g) /\ Held(g, Manifest) = g
         /\ \A n \in FilesOf(g) : n # Manifest /\ Content(g, n) = Bundle[g][n]
         /\ \A n : n # Manifest => (n \in Listing(g) <=> n \in FilesOf(g))
         /\ Listing(None) = {} /\ FilesOf(None) = {} /\ DirsOf(None) = {}
  <1>1. FilesOf(g) \subseteq Files /\ Manifest \notin Files
    BY BundleFacts, BundleAssumption
  <1>2. \A n \in Listing(g) : Content(g, n) \in Contents \cup Generations
    BY BundleFacts
  <1>3. Absent \notin Contents \cup Generations /\ Partial \notin Contents \cup Generations
    BY BundleAssumption
  <1>4. FilesOf(None) = {} /\ Listing(None) = {} /\ DirsOf(None) = {}
    BY DEF FilesOf, Listing, DirsOf
  <1>5. /\ \A n \in FilesOf(g) : n # Manifest /\ Content(g, n) = Bundle[g][n]
        /\ Content(g, Manifest) = g
    BY <1>1 DEF Content
  <1>6. /\ g # None => Manifest \in Listing(g)
        /\ \A n : n # Manifest => (n \in Listing(g) <=> n \in FilesOf(g))
    BY DEF Listing, FilesOf
  <1> QED
    BY <1>2, <1>3, <1>4, <1>5, <1>6 DEF Held

(* What the directory of one generation lists.                             *)
LEMMA HeldLists ==
  ASSUME NEW g \in Generations \cup {None}, \A n \in Names : disk[n] = Held(g, n),
         dirs = DirsOf(g), \A s \in Savers : temps[s] = None,
         temps \in [Savers -> Dirs \cup {Root, None}]
  PROVE  Lists(g) /\ (Lists(None) <=> g = None)
  <1>1. Present = Listing(g)
    <2>1. Listing(g) \subseteq Names
      BY BundleFacts
    <2> QED
      BY <2>1, HeldFacts DEF Present
  <1>2. temps = [s \in Savers |-> None]
    OBVIOUS
  <1>3. Listing(g) = {} <=> g = None
    BY HeldFacts
  <1>4. Listing(None) = {} /\ DirsOf(None) = {}
    BY HeldFacts
  <1> QED
    BY <1>1, <1>2, <1>3, <1>4 DEF Lists

LEMMA InitUInv == Init => UInv
  <1> SUFFICES ASSUME Init PROVE UInv
    OBVIOUS
  <1>1. Untouched
    BY DEF Init, Untouched, Held
  <1>2. \A s \in Savers : saver[s] = Fresh /\ temps[s] = None
    BY DEF Init
  <1>3. \A s \in Savers : Placed(s)
    BY <1>2 DEF Placed, PlacedAt, Fresh, Checks, Changes
  <1>4. \A s \in Savers : InStep(s)
    BY <1>1, <1>2 DEF InStep, InStepAt, Fresh, Checks, Changes
  <1> QED
    BY <1>3, <1>4, InitIInv DEF UInv

(* What is known before a step of s.                                       *)
LEMMA UFacts ==
  ASSUME UInv, NEW s \in Savers
  PROVE  /\ IInv /\ saver[s] \in Saver /\ PlacedAt(s, saver[s])
         /\ saver \in [Savers -> Saver]
         /\ saver[s].base \in Generations \cup {None} /\ saver[s].stage \in 0..4
         /\ Saves[s] \in Generations /\ Saves[s] # None
         /\ Alone(s) => InStepAt(s, saver[s])
         /\ Alone(s) => \A t \in Savers \ {s} : temps[t] = None
         /\ temps[s] # None => saver[s].at \in {"recheck", "rename", "failed"} /\ saver[s].stage >= 3
  <1>1. \A t \in Savers : Placed(t)
    BY DEF UInv
  <1>2. IInv /\ saver[s] \in Saver /\ saver \in [Savers -> Saver]
    BY SaverFacts DEF UInv
  <1>3. Saves[s] \in Generations /\ Saves[s] # None
    BY BundleAssumption
  <1> QED
    BY <1>1, <1>2, <1>3, SaverFacts DEF UInv, InStep, Placed, Alone, Changed, Saver

(* Where a step leads, if it is a step to another place.                   *)
LEMMA Goes ==
  ASSUME UInv, NEW s \in Savers, NEW place, Go(s, place)
  PROVE  /\ saver'[s].at = place /\ saver'[s].base = saver[s].base /\ saver'[s].stage = saver[s].stage
         /\ saver'[s].todo = saver[s].todo /\ saver'[s].file = saver[s].file
  BY UFacts DEF Go, Saver

LEMMA BeginPlaced ==
  ASSUME UInv, NEW s \in Savers, Begin(s) \/ ReadManifest(s)
  PROVE  Placed(s)' /\ (Alone(s) => InStep(s)')
  <1> DEFINE x == saver[s]  y == saver'[s]
  <1>1. x \in Saver /\ x.base \in Generations \cup {None} /\ PlacedAt(s, x)
        /\ temps[s] = None /\ (Alone(s) => InStepAt(s, x))
    BY UFacts DEF Begin, ReadManifest, At
  <1>2. UNCHANGED <<disk, dirs, temps>>
    BY DEF Begin, ReadManifest
  <1>3. CASE Begin(s)
    <2>1. /\ x.at = "idle" /\ y.base = x.base
          /\ y.at = IF Lists(None) THEN "list" ELSE "manifest"
          /\ y.stage = IF Lists(None) THEN 2 ELSE 1
      BY <1>3, UFacts DEF Begin, At, Saver
    <2>2. x.base = None
      BY <1>1, <2>1 DEF PlacedAt
    <2>3. PlacedAt(s, y)
      BY <2>1, <2>2 DEF PlacedAt, Checks, Changes
    <2>4. ASSUME Alone(s) PROVE InStep(s)'
      <3>1. PICK g \in Generations \cup {None} : (\A n \in Names : disk[n] = Held(g, n)) /\ dirs = DirsOf(g)
        BY <1>1, <2>1, <2>4 DEF InStepAt, Untouched
      <3>2. Lists(None) <=> g = None
        <4>1. \A t \in Savers : temps[t] = None
          BY <1>1, <2>4, UFacts
        <4>2. temps \in [Savers -> Dirs \cup {Root, None}]
          BY UFacts, SaverFacts
        <4> QED
          BY <3>1, <4>1, <4>2, HeldLists
      <3>3. CASE g = None
        BY <1>2, <2>1, <2>2, <3>1, <3>2, <3>3 DEF InStep, InStepAt, Untouched, OldNames, DirsNow, Checks, Changes
      <3>4. CASE g # None
        <4>1. disk[Manifest] # Absent
          BY <3>1, <3>4, HeldFacts DEF Names
        <4> QED
          BY <1>2, <2>1, <3>1, <3>2, <3>4, <4>1 DEF InStep, InStepAt, Untouched, Checks, Changes
      <3> QED
        BY <3>3, <3>4
    <2> QED
      BY <1>1, <1>2, <2>3, <2>4 DEF Placed
  <1>4. CASE ReadManifest(s)
    <2>1. /\ x.at = "manifest" /\ x.stage = 1 /\ y.stage = 1
          /\ disk[Manifest] \in Generations => y.at = "list" /\ y.base = disk[Manifest]
          /\ disk[Manifest] \notin Generations => y.at = "refused"
      <3>1. x.at = "manifest" /\ x.stage = 1
        BY <1>1, <1>4 DEF ReadManifest, At, PlacedAt
      <3> QED
        BY <1>4, <3>1, UFacts DEF ReadManifest, Go, Saver
    <2>2. PlacedAt(s, y)
      BY <2>1 DEF PlacedAt, Checks, Changes
    <2>3. ASSUME Alone(s) PROVE InStep(s)'
      <3>1. PICK g \in Generations \cup {None} : (\A n \in Names : disk[n] = Held(g, n)) /\ dirs = DirsOf(g)
        BY <1>1, <2>1, <2>3 DEF InStepAt, Untouched
      <3>2. disk[Manifest] # Absent /\ Manifest \in Names
        BY <1>1, <2>1, <2>3 DEF InStepAt, Names
      <3>3. g # None /\ disk[Manifest] = g
        BY <3>1, <3>2, HeldFacts
      <3>4. y.at = "list" /\ y.base = g /\ y.stage = 1
        BY <2>1, <3>1, <3>3
      <3> QED
        BY <1>2, <3>1, <3>4 DEF InStep, InStepAt, OldNames, DirsNow, Checks, Changes
    <2> QED
      BY <1>1, <1>2, <2>2, <2>3 DEF Placed
  <1> QED
    BY <1>3, <1>4

LEMMA CheckPlaced ==
  ASSUME UInv, NEW s \in Savers, List(s) \/ Verify(s) \/ Verified(s)
  PROVE  Placed(s)' /\ (Alone(s) => InStep(s)')
  <1> DEFINE x == saver[s]  y == saver'[s]
  <1>1. x \in Saver /\ x.base \in Generations \cup {None} /\ PlacedAt(s, x) /\ x.stage \in 0..4
        /\ temps[s] = None /\ (Alone(s) => InStepAt(s, x)) /\ temps' = temps /\ disk' = disk
        /\ Saves[s] \in Generations /\ Saves[s] # None
    BY UFacts DEF List, Verify, Verified, At
  <1>2. x.at \in Checks /\ x.stage \in {1, 2, 4}
    BY <1>1 DEF List, Verify, Verified, At, Checks, PlacedAt
  <1> DEFINE g == IF x.stage = 4 THEN Saves[s] ELSE x.base
  <1>3. Goal(s) = g /\ g \in Generations \cup {None}
    BY <1>1 DEF Goal
  <1>4. Alone(s) => (\A n \in Names : disk[n] = Held(g, n)) /\ dirs = DirsOf(g)
    BY <1>1, <1>2 DEF InStepAt, OldNames, DirsNow, Checks
  <1>5. CASE List(s)
    <2>1. /\ y.base = x.base /\ y.stage = x.stage /\ dirs' = dirs
          /\ Lists(g) => y.at = "verify" /\ y.todo = FilesOf(g)
          /\ ~Lists(g) => y.at = "refused"
      <3> HIDE DEF g
      <3> QED
        BY <1>3, <1>5, UFacts DEF List, Go, Saver
    <2>2. PlacedAt(s, y)
      BY <1>2, <2>1 DEF PlacedAt, Checks, Changes
    <2>3. ASSUME Alone(s) PROVE InStep(s)'
      <3>1. Lists(g)
        <4>1. \A t \in Savers : temps[t] = None
          BY <1>1, <2>3, UFacts
        <4>2. temps \in [Savers -> Dirs \cup {Root, None}]
          BY UFacts, SaverFacts
        <4> HIDE DEF g
        <4> QED
          BY <1>3, <1>4, <2>3, <4>1, <4>2, HeldLists
      <3> QED
        BY <1>1, <1>2, <1>4, <2>1, <2>3, <3>1 DEF InStep, InStepAt, OldNames, DirsNow, Checks, Changes
    <2> QED
      BY <1>1, <2>2, <2>3 DEF Placed
  <1>6. CASE Verify(s)
    <2>1. PICK n \in x.todo :
            /\ y.base = x.base /\ y.stage = x.stage /\ dirs' = dirs
            /\ disk[n] = Bundle[g][n] => y.at = "verify" /\ y.todo = x.todo \ {n}
            /\ disk[n] # Bundle[g][n] => y.at = "refused"
      <3> HIDE DEF g
      <3> QED
        BY <1>3, <1>6, UFacts DEF Verify, At, Go, Saver
    <2>2. x.todo \subseteq FilesOf(g)
      BY <1>1, <1>6 DEF Verify, At, PlacedAt
    <2>3. PlacedAt(s, y)
      BY <1>2, <2>1, <2>2 DEF PlacedAt, Checks, Changes
    <2>4. ASSUME Alone(s) PROVE InStep(s)'
      <3>1. n \in Listing(g) /\ Content(g, n) = Bundle[g][n] /\ n \in Names
        <4> HIDE DEF g
        <4> QED
          BY <1>3, <2>2, HeldFacts, BundleFacts
      <3>2. disk[n] = Bundle[g][n]
        BY <1>4, <2>4, <3>1 DEF Held
      <3> QED
        BY <1>1, <1>2, <1>4, <2>1, <2>4, <3>2 DEF InStep, InStepAt, OldNames, DirsNow, Checks, Changes
    <2> QED
      BY <1>1, <2>3, <2>4 DEF Placed
  <1>7. CASE Verified(s)
    <2>1. /\ x.at = "verify" /\ x.todo = {} /\ y.base = x.base
          /\ y.at = CASE x.stage = 1 -> "list" [] x.stage = 2 -> "write" [] OTHER -> "saved"
          /\ y.stage = (IF x.stage = 4 THEN 4 ELSE x.stage + 1)
          /\ y.todo = (IF x.stage = 2 THEN FilesOf(Saves[s]) ELSE {})
          /\ dirs' = IF x.stage = 2 THEN dirs \cup DirsOf(Saves[s]) ELSE dirs
      BY <1>7, UFacts DEF Verified, At, Saver
    <2>2. CASE x.stage = 1
      <3>1. y.at = "list" /\ y.stage = 2 /\ dirs' = dirs
        BY <2>1, <2>2
      <3>2. PlacedAt(s, y)
        BY <3>1 DEF PlacedAt, Checks, Changes
      <3>3. Alone(s) => InStep(s)'
        BY <1>1, <1>4, <2>1, <2>2, <3>1 DEF InStep, InStepAt, OldNames, DirsNow, Checks, Changes
      <3> QED
        BY <1>1, <3>2, <3>3 DEF Placed
    <2>3. CASE x.stage = 2
      <3>1. y.at = "write" /\ y.stage = 3 /\ dirs' = dirs \cup DirsOf(Saves[s]) /\ y.todo = FilesOf(Saves[s])
        BY <2>1, <2>3
      <3>2. PlacedAt(s, y)
        BY <3>1 DEF PlacedAt, Checks, Changes
      <3>3. ASSUME Alone(s) PROVE InStep(s)'
        <4>1. OldNames(s, y) = FilesOf(Saves[s]) \cup (FilesOf(x.base) \ FilesOf(Saves[s])) \cup {Manifest}
              /\ DirsNow(s, y) = DirsOf(x.base) \cup DirsOf(Saves[s])
          BY <2>1, <3>1 DEF OldNames, DirsNow, Checks, Publishing
        <4>2. \A n \in Names \ OldNames(s, y) : Held(x.base, n) = Absent /\ Held(Saves[s], n) = Absent
          BY <1>1, <4>1, HeldFacts
        <4> QED
          BY <1>1, <1>4, <2>1, <2>3, <3>1, <3>3, <4>1, <4>2 DEF InStep, InStepAt
      <3> QED
        BY <1>1, <3>2, <3>3 DEF Placed
    <2>4. CASE x.stage = 4
      <3>1. y.at = "saved" /\ y.stage = 4 /\ dirs' = dirs
        BY <2>1, <2>4
      <3>2. PlacedAt(s, y)
        BY <3>1 DEF PlacedAt, Checks, Changes
      <3>3. Alone(s) => InStep(s)'
        BY <1>1, <1>4, <2>1, <2>4, <3>1 DEF InStep, InStepAt, OldNames, DirsNow, Checks, Changes, Publishing
      <3> QED
        BY <1>1, <3>2, <3>3 DEF Placed
    <2> QED
      BY <1>2, <2>2, <2>3, <2>4
  <1> QED
    BY <1>5, <1>6, <1>7

(* Before a write of s: what is left to do, and what is there.             *)
LEMMA WriteFacts ==
  ASSUME UInv, NEW s \in Savers, saver[s].at \in {"write", "publish", "fill", "recheck", "rename"}
  PROVE  LET x == saver[s] IN
         /\ x \in Saver /\ x.base \in Generations \cup {None} /\ PlacedAt(s, x) /\ x.stage = 3
         /\ Saves[s] \in Generations /\ Saves[s] # None
         /\ x.todo \subseteq FilesOf(Saves[s]) /\ FilesOf(Saves[s]) \subseteq Files
         /\ Alone(s) => /\ dirs = DirsNow(s, x)
                        /\ \A n \in Names :
                             disk[n] = IF x.at = "fill" /\ n = x.file THEN Partial
                                       ELSE IF n \in OldNames(s, x) THEN Held(x.base, n) ELSE Held(Saves[s], n)
         /\ OldNames(s, x) =
              IF Publishing(x) THEN {Manifest}
              ELSE x.todo \cup (FilesOf(x.base) \ FilesOf(Saves[s])) \cup {Manifest}
         /\ DirsNow(s, x) =
              IF Publishing(x) THEN DirsOf(Saves[s]) ELSE DirsOf(x.base) \cup DirsOf(Saves[s])
  <1> DEFINE x == saver[s]
  <1>1. /\ x \in Saver /\ x.base \in Generations \cup {None} /\ PlacedAt(s, x) /\ WorkingAt(s, x)
        /\ Saves[s] \in Generations /\ Saves[s] # None /\ FilesOf(Saves[s]) \subseteq Files
        /\ Alone(s) => InStepAt(s, x)
    BY UFacts, SaverFacts
  <1>2. x.stage = 3 /\ x.todo \subseteq FilesOf(Saves[s])
    BY <1>1 DEF PlacedAt, WorkingAt, Changes
  <1>3. x.at \notin Checks \cup {"saved", "prune", "stale", "remove"}
    BY DEF Checks
  <1> QED
    BY <1>1, <1>2, <1>3 DEF InStepAt, OldNames, DirsNow, Changes

(* The file s is about to write is the next of its list, and as in its     *)
(* base.                                                                   *)
LEMMA TurnFacts ==
  ASSUME UInv, NEW s \in Savers, NEW n \in Turn(s)
  PROVE  LET x == saver[s] IN
         /\ x.at \in {"write", "publish"} /\ n \in Names
         /\ n \in x.todo \/ (n = Manifest /\ x.todo = {})
         /\ n = Manifest <=> x.at = "publish"
         /\ Alone(s) => disk[n] = Held(x.base, n) /\ DirOf(n) \in dirs \cup {Root}
  <1> DEFINE x == saver[s]
  <1>1. x.at \in {"write", "publish"}
    BY DEF Turn, At
  <1>2. /\ PlacedAt(s, x) /\ x.todo \subseteq FilesOf(Saves[s]) /\ FilesOf(Saves[s]) \subseteq Files
        /\ Alone(s) => /\ dirs = DirsNow(s, x)
                       /\ \A m \in Names :
                            disk[m] = IF x.at = "fill" /\ m = x.file THEN Partial
                                      ELSE IF m \in OldNames(s, x) THEN Held(x.base, m) ELSE Held(Saves[s], m)
        /\ OldNames(s, x) =
             IF Publishing(x) THEN {Manifest}
             ELSE x.todo \cup (FilesOf(x.base) \ FilesOf(Saves[s])) \cup {Manifest}
        /\ DirsNow(s, x) =
             IF Publishing(x) THEN DirsOf(Saves[s]) ELSE DirsOf(x.base) \cup DirsOf(Saves[s])
    BY <1>1, WriteFacts
  <1>3. Manifest \notin Files
    BY BundleAssumption
  <1>4. CASE x.at = "write"
    <2>1. n \in x.todo /\ n # Manifest /\ n \in Names /\ ~Publishing(x)
      BY <1>2, <1>3, <1>4 DEF Turn, At, Names, Publishing
    <2>2. DirOf(n) \in DirsOf(Saves[s]) \cup {Root}
      BY <1>2, <2>1 DEF DirOf, DirsOf
    <2> QED
      BY <1>2, <1>4, <2>1, <2>2
  <1>5. CASE x.at = "publish"
    <2>1. n = Manifest /\ x.todo = {} /\ Publishing(x) /\ DirOf(n) = Root /\ n \in Names
      BY <1>2, <1>5 DEF Turn, At, Names, Publishing, DirOf, PlacedAt
    <2> QED
      BY <1>2, <1>5, <2>1
  <1> QED
    BY <1>1, <1>4, <1>5

LEMMA CreatePlaced ==
  ASSUME UInv, NEW s \in Savers, NEW n \in Names, Create(s, n) \/ Replace(s, n)
  PROVE  Placed(s)' /\ (Alone(s) => InStep(s)')
  <1> DEFINE x == saver[s]  y == saver'[s]
  <1>1. n \in Turn(s)
    BY DEF Create, Replace
  <1>2. /\ x.at \in {"write", "publish"}
        /\ n \in x.todo \/ (n = Manifest /\ x.todo = {})
        /\ n = Manifest <=> x.at = "publish"
        /\ Alone(s) => disk[n] = Held(x.base, n) /\ DirOf(n) \in dirs \cup {Root}
    BY <1>1, TurnFacts
  <1>3. /\ x \in Saver /\ x.base \in Generations \cup {None} /\ x.stage = 3
        /\ Alone(s) => /\ dirs = DirsNow(s, x)
                       /\ \A m \in Names :
                            disk[m] = IF m \in OldNames(s, x) THEN Held(x.base, m) ELSE Held(Saves[s], m)
        /\ OldNames(s, x) =
             IF Publishing(x) THEN {Manifest}
             ELSE x.todo \cup (FilesOf(x.base) \ FilesOf(Saves[s])) \cup {Manifest}
        /\ DirsNow(s, x) =
             IF Publishing(x) THEN DirsOf(Saves[s]) ELSE DirsOf(x.base) \cup DirsOf(Saves[s])
    <2>1. x.at \in {"write", "publish", "fill", "recheck", "rename"} /\ x.at # "fill"
      BY <1>2
    <2>2. Alone(s) => /\ dirs = DirsNow(s, x)
                      /\ \A m \in Names :
                           disk[m] = IF x.at = "fill" /\ m = x.file THEN Partial
                                     ELSE IF m \in OldNames(s, x) THEN Held(x.base, m) ELSE Held(Saves[s], m)
      BY <2>1, WriteFacts
    <2>3. Alone(s) => \A m \in Names : disk[m] = IF m \in OldNames(s, x) THEN Held(x.base, m) ELSE Held(Saves[s], m)
      BY <2>1, <2>2
    <2> QED
      BY <2>1, <2>2, <2>3, WriteFacts
  <1>4. disk \in [Names -> Contents \cup Generations \cup {Absent, Partial, Edited}]
    BY UFacts, SaverFacts
  (* At a file the names and directories are as before it. *)
  <1>5. ASSUME y.at \in {"fill", "recheck"}, y.base = x.base, y.stage = 3, y.todo = x.todo, y.file = n
        PROVE  OldNames(s, y) = OldNames(s, x) /\ DirsNow(s, y) = DirsNow(s, x)
    <2>1. Publishing(y) <=> Publishing(x)
      BY <1>2, <1>5 DEF Publishing
    <2>2. y.at \notin Checks \cup {"saved", "prune", "stale", "remove"}
      BY <1>5 DEF Checks
    <2> QED
      BY <1>3, <1>5, <2>1, <2>2 DEF OldNames, DirsNow
  <1>6. CASE Create(s, n)
    <2>1. /\ temps' = temps /\ y.base = x.base /\ y.stage = 3 /\ y.todo = x.todo
          /\ \/ /\ y.at = "fill" /\ y.file = n
                /\ disk' = [disk EXCEPT ![n] = Partial] /\ dirs' = dirs
             \/ /\ y.at = "refused"
                /\ ~(disk[n] = Absent /\ DirOf(n) \in dirs \cup {Root})
      BY <1>3, <1>6, UFacts DEF Create, Refuse, Go, Saver
    <2>2. n \notin Listing(x.base)
      BY <1>6 DEF Create
    <2>3. PlacedAt(s, y)
      BY <1>2, <2>1, <2>2 DEF PlacedAt, Checks, Changes
    <2>4. ASSUME Alone(s) PROVE InStep(s)'
      <3>1. disk[n] = Absent /\ DirOf(n) \in dirs \cup {Root}
        BY <1>2, <1>3, <2>2, <2>4, HeldFacts
      <3>2. /\ y.at = "fill" /\ y.file = n /\ disk' = [disk EXCEPT ![n] = Partial] /\ dirs' = dirs
        BY <2>1, <3>1
      <3>3. \A m \in Names : disk'[m] = IF m = n THEN Partial ELSE disk[m]
        BY <1>4, <3>2
      <3>4. OldNames(s, y) = OldNames(s, x) /\ DirsNow(s, y) = DirsNow(s, x)
        BY <1>5, <2>1, <3>2
      <3> QED
        BY <1>3, <2>1, <2>4, <3>2, <3>3, <3>4 DEF InStep, InStepAt
    <2> QED
      BY <1>2, <2>1, <2>3, <2>4, UFacts DEF Placed, Changed
  <1>7. CASE Replace(s, n)
    <2>1. /\ y.base = x.base /\ y.stage = 3 /\ y.todo = x.todo
          /\ \/ /\ y.at = "recheck" /\ y.file = n /\ UNCHANGED <<disk, dirs>>
             \/ /\ y.at = "refused" /\ disk[n] # Content(x.base, n)
      BY <1>3, <1>7, UFacts DEF Replace, Refuse, Go, Saver
    <2>2. n \in Listing(x.base)
      BY <1>7 DEF Replace
    <2>3. PlacedAt(s, y)
      BY <1>2, <2>1, <2>2 DEF PlacedAt, Checks, Changes
    <2>4. ASSUME Alone(s) PROVE InStep(s)'
      <3>1. disk[n] = Content(x.base, n)
        BY <1>2, <1>3, <2>2, <2>4, HeldFacts
      <3>2. y.at = "recheck" /\ y.file = n /\ UNCHANGED <<disk, dirs>>
        BY <2>1, <3>1
      <3>3. OldNames(s, y) = OldNames(s, x) /\ DirsNow(s, y) = DirsNow(s, x)
        BY <1>5, <2>1, <3>2
      <3> QED
        BY <1>3, <2>1, <2>4, <3>2, <3>3 DEF InStep, InStepAt
    <2> QED
      BY <2>1, <2>3, <2>4 DEF Placed, Changed
  <1> QED
    BY <1>6, <1>7

LEMMA RecheckPlaced ==
  ASSUME UInv, NEW s \in Savers, Recheck(s)
  PROVE  Placed(s)' /\ (Alone(s) => InStep(s)')
  <1> DEFINE x == saver[s]  y == saver'[s]
  <1>1. x.at = "recheck"
    BY DEF Recheck, At
  <1>2. /\ x \in Saver /\ x.base \in Generations \cup {None} /\ x.stage = 3 /\ PlacedAt(s, x)
        /\ x.todo \subseteq FilesOf(Saves[s]) /\ FilesOf(Saves[s]) \subseteq Files
        /\ Alone(s) => /\ dirs = DirsNow(s, x)
                       /\ \A m \in Names :
                            disk[m] = IF m \in OldNames(s, x) THEN Held(x.base, m) ELSE Held(Saves[s], m)
        /\ OldNames(s, x) =
             IF Publishing(x) THEN {Manifest}
             ELSE x.todo \cup (FilesOf(x.base) \ FilesOf(Saves[s])) \cup {Manifest}
    <2>1. x.at \in {"write", "publish", "fill", "recheck", "rename"} /\ x.at # "fill"
      BY <1>1
    <2>2. Alone(s) => /\ dirs = DirsNow(s, x)
                      /\ \A m \in Names :
                           disk[m] = IF x.at = "fill" /\ m = x.file THEN Partial
                                     ELSE IF m \in OldNames(s, x) THEN Held(x.base, m) ELSE Held(Saves[s], m)
      BY <2>1, WriteFacts
    <2>3. Alone(s) => \A m \in Names : disk[m] = IF m \in OldNames(s, x) THEN Held(x.base, m) ELSE Held(Saves[s], m)
      BY <2>1, <2>2
    <2> QED
      BY <2>1, <2>2, <2>3, WriteFacts
  <1>3. /\ y.base = x.base /\ y.stage = 3 /\ y.todo = x.todo /\ y.file = x.file /\ UNCHANGED <<disk, dirs>>
        /\ \/ y.at = "rename"
           \/ y.at = "refused" /\ disk[x.file] # Content(x.base, x.file)
    BY <1>2, UFacts DEF Recheck, Refuse, Go, Saver
  <1>4. PlacedAt(s, y)
    BY <1>1, <1>2, <1>3 DEF PlacedAt, Checks, Changes
  <1>5. ASSUME Alone(s) PROVE InStep(s)'
    <2>1. x.file \in Names /\ x.file \in Listing(x.base)
      BY <1>1, <1>2, UFacts, SaverFacts DEF Saver, WorkingAt
    <2>2. x.file \in OldNames(s, x)
      BY <1>1, <1>2, BundleAssumption DEF PlacedAt, Publishing
    <2>3. disk[x.file] = Content(x.base, x.file)
      BY <1>2, <1>5, <2>1, <2>2, HeldFacts
    <2>4. y.at = "rename"
      BY <1>3, <2>3
    <2>5. OldNames(s, y) = OldNames(s, x) /\ DirsNow(s, y) = DirsNow(s, x)
      BY <1>1, <1>3, <2>4 DEF OldNames, DirsNow, Publishing, Checks
    <2> QED
      BY <1>2, <1>3, <1>5, <2>4, <2>5 DEF InStep, InStepAt
  <1> QED
    BY <1>3, <1>4, <1>5 DEF Placed, Changed

LEMMA FillPlaced ==
  ASSUME UInv, NEW s \in Savers, Fill(s) \/ Rename(s)
  PROVE  Placed(s)' /\ (Alone(s) => InStep(s)')
  <1> DEFINE x == saver[s]  y == saver'[s]  n == saver[s].file
  <1>1. x.at \in {"fill", "rename"} /\ Written(s)
    BY DEF Fill, Rename, At
  <1>2. /\ x \in Saver /\ x.base \in Generations \cup {None} /\ x.stage = 3 /\ PlacedAt(s, x)
        /\ Saves[s] \in Generations /\ Saves[s] # None
        /\ x.todo \subseteq FilesOf(Saves[s]) /\ FilesOf(Saves[s]) \subseteq Files
        /\ Alone(s) => /\ dirs = DirsNow(s, x)
                       /\ \A m \in Names :
                            disk[m] = IF x.at = "fill" /\ m = x.file THEN Partial
                                      ELSE IF m \in OldNames(s, x) THEN Held(x.base, m) ELSE Held(Saves[s], m)
        /\ OldNames(s, x) =
             IF Publishing(x) THEN {Manifest}
             ELSE x.todo \cup (FilesOf(x.base) \ FilesOf(Saves[s])) \cup {Manifest}
        /\ DirsNow(s, x) =
             IF Publishing(x) THEN DirsOf(Saves[s]) ELSE DirsOf(x.base) \cup DirsOf(Saves[s])
    BY <1>1, WriteFacts
  <1>3. /\ y.base = x.base /\ y.todo = x.todo \ {n}
        /\ y.at = IF n = Manifest THEN "list" ELSE "write"
        /\ y.stage = IF n = Manifest THEN 4 ELSE 3
        /\ dirs' = dirs
    BY <1>1, UFacts DEF Written, Saver, Fill, Rename
  <1>4. temps'[s] = None
    <2>1. temps \in [Savers -> Dirs \cup {Root, None}]
      BY UFacts, SaverFacts
    <2>2. (temps' = temps /\ x.at = "fill") \/ temps' = [temps EXCEPT ![s] = None]
      BY DEF Fill, Rename, Dropped, At
    <2> QED
      BY <2>1, <2>2, UFacts
  <1>5. n \in Names /\ (Publishing(x) <=> n = Manifest) /\ (n # Manifest => n \in x.todo)
    BY <1>1, <1>2 DEF Saver, Publishing, PlacedAt
  <1>6. PlacedAt(s, y)
    <2>1. CASE n = Manifest
      BY <1>3, <2>1 DEF PlacedAt, Checks, Changes
    <2>2. CASE n # Manifest
      BY <1>3, <2>2 DEF PlacedAt, Checks, Changes
    <2> QED
      BY <2>1, <2>2
  <1>7. ASSUME Alone(s) PROVE InStep(s)'
    <2>1. disk' = [disk EXCEPT ![n] = Content(Saves[s], n)]
      <3>1. x.at = "fill" => disk[n] = Partial
        BY <1>2, <1>5, <1>7
      <3> QED
        BY <1>1, <3>1 DEF Fill, Rename, NewContent, At
    <2>2. Content(Saves[s], n) = Held(Saves[s], n)
      <3>1. n \in Listing(Saves[s])
        BY <1>2, <1>5, HeldFacts
      <3> QED
        BY <1>2, <3>1, HeldFacts
    <2>3. disk \in [Names -> Contents \cup Generations \cup {Absent, Partial, Edited}]
      BY UFacts, SaverFacts
    <2>4. \A m \in Names : disk'[m] = IF m \in OldNames(s, x) \ {n} THEN Held(x.base, m) ELSE Held(Saves[s], m)
      <3> HIDE DEF n, x
      <3>1. ASSUME NEW m \in Names, m # n PROVE disk'[m] = disk[m]
        BY <2>1, <2>3, <3>1
      <3>2. disk'[n] = Held(Saves[s], n)
        BY <1>5, <2>1, <2>2, <2>3
      <3> QED
        BY <1>2, <1>7, <3>1, <3>2 DEF n, x
    <2>5. OldNames(s, y) = OldNames(s, x) \ {n} /\ DirsNow(s, y) = DirsNow(s, x)
      <3>1. CASE n = Manifest
        BY <1>2, <1>3, <1>5, <3>1 DEF OldNames, DirsNow, Checks
      <3>2. CASE n # Manifest
        <4>1. n \notin FilesOf(x.base) \ FilesOf(Saves[s])
          BY <1>2, <1>5, <3>2
        <4>2. y.at = "write" /\ ~Publishing(x) /\ ~Publishing(y)
          BY <1>3, <1>5, <3>2 DEF Publishing
        <4>3. OldNames(s, y) = y.todo \cup (FilesOf(y.base) \ FilesOf(Saves[s])) \cup {Manifest}
              /\ DirsNow(s, y) = DirsOf(y.base) \cup DirsOf(Saves[s])
          BY <4>2 DEF OldNames, DirsNow, Checks
        <4> QED
          BY <1>2, <1>3, <3>2, <4>1, <4>2, <4>3
      <3> QED
        BY <3>1, <3>2
    <2>6. y.at \in {"list", "write"}
      BY <1>3
    <2> QED
      BY <1>2, <1>3, <1>7, <2>4, <2>5, <2>6 DEF InStep, InStepAt
  <1> QED
    BY <1>4, <1>6, <1>7 DEF Placed

(* Before a removal of s.                                                  *)
LEMMA RemoveFacts ==
  ASSUME UInv, NEW s \in Savers,
         saver[s].at \in {"stale", "remove", "prune"} \/ (saver[s].at = "write" /\ saver[s].todo = {})
  PROVE  LET x == saver[s]
             N == IF x.at = "prune" THEN {Manifest}
                  ELSE IF x.at = "write" THEN (FilesOf(x.base) \ FilesOf(Saves[s])) \cup {Manifest}
                  ELSE x.todo \cup {Manifest}
         IN
         /\ x \in Saver /\ x.base \in Generations \cup {None} /\ PlacedAt(s, x) /\ x.stage = 3
         /\ Saves[s] \in Generations /\ Saves[s] # None /\ FilesOf(Saves[s]) \subseteq Files
         /\ FilesOf(x.base) \subseteq Files /\ Manifest \notin Files
         /\ temps[s] = None
         /\ Alone(s) => /\ dirs = IF x.at = "prune" THEN DirsOf(Saves[s]) \cup x.todo
                                  ELSE DirsOf(x.base) \cup DirsOf(Saves[s])
                        /\ \A n \in Names : disk[n] = IF n \in N THEN Held(x.base, n) ELSE Held(Saves[s], n)
                        /\ \A t \in Savers : temps[t] = None
  <1> DEFINE x == saver[s]
             N == IF x.at = "prune" THEN {Manifest}
                  ELSE IF x.at = "write" THEN (FilesOf(x.base) \ FilesOf(Saves[s])) \cup {Manifest}
                  ELSE x.todo \cup {Manifest}
  <1>1. /\ x \in Saver /\ x.base \in Generations \cup {None} /\ PlacedAt(s, x) /\ temps[s] = None
        /\ Saves[s] \in Generations /\ Saves[s] # None /\ FilesOf(Saves[s]) \subseteq Files
        /\ Alone(s) => InStepAt(s, x)
        /\ Alone(s) => \A t \in Savers \ {s} : temps[t] = None
    BY UFacts, BundleFacts
  <1>2. x.stage = 3 /\ FilesOf(x.base) \subseteq Files /\ Manifest \notin Files
    BY <1>1, BundleFacts, BundleAssumption DEF PlacedAt, Changes
  <1>3. /\ OldNames(s, x) = N
        /\ DirsNow(s, x) = IF x.at = "prune" THEN DirsOf(Saves[s]) \cup x.todo
                           ELSE DirsOf(x.base) \cup DirsOf(Saves[s])
    BY DEF OldNames, DirsNow, Checks, Publishing
  <1> HIDE DEF N
  <1>4. Alone(s) => /\ dirs = DirsNow(s, x)
                    /\ \A n \in Names : disk[n] = IF n \in N THEN Held(x.base, n) ELSE Held(Saves[s], n)
                    /\ \A t \in Savers : temps[t] = None
    BY <1>1, <1>3 DEF InStepAt, Changes
  <1> QED
    BY <1>1, <1>2, <1>3, <1>4 DEF N

LEMMA StalePlaced ==
  ASSUME UInv, NEW s \in Savers, WrittenAll(s) \/ CheckStale(s) \/ Remove(s)
  PROVE  Placed(s)' /\ (Alone(s) => InStep(s)')
  <1> DEFINE x == saver[s]  y == saver'[s]
             N == IF x.at = "write" THEN (FilesOf(x.base) \ FilesOf(Saves[s])) \cup {Manifest}
                  ELSE x.todo \cup {Manifest}
  <1>1. x.at \in {"stale", "remove"} \/ (x.at = "write" /\ x.todo = {})
    BY DEF WrittenAll, CheckStale, Remove, At
  <1>2. /\ x \in Saver /\ x.base \in Generations \cup {None} /\ PlacedAt(s, x) /\ x.stage = 3
        /\ Saves[s] \in Generations /\ Saves[s] # None
        /\ FilesOf(x.base) \subseteq Files /\ Manifest \notin Files
        /\ temps[s] = None
    BY <1>1, RemoveFacts
  <1>3. Alone(s) => /\ dirs = DirsOf(x.base) \cup DirsOf(Saves[s])
                    /\ \A n \in Names : disk[n] = IF n \in N THEN Held(x.base, n) ELSE Held(Saves[s], n)
    <2>1. x.at # "prune"
      BY <1>1
    <2> QED
      BY <1>1, <2>1, RemoveFacts
  <1>4. temps' = temps
    BY DEF WrittenAll, CheckStale, Remove
  <1>5. ASSUME y.at \in {"stale", "remove"}
        PROVE  /\ OldNames(s, y) = y.todo \cup {Manifest}
               /\ DirsNow(s, y) = DirsOf(y.base) \cup DirsOf(Saves[s])
    BY <1>5 DEF OldNames, DirsNow, Checks, Publishing
  <1>6. CASE WrittenAll(s)
    <2>1. /\ y.at = "stale" /\ y.base = x.base /\ y.stage = 3 /\ UNCHANGED <<disk, dirs>>
          /\ y.todo = FilesOf(x.base) \ FilesOf(Saves[s]) /\ x.at = "write"
      BY <1>2, <1>6, UFacts DEF WrittenAll, At, Saver
    <2>2. PlacedAt(s, y)
      BY <2>1 DEF PlacedAt, Checks, Changes
    <2>3. Alone(s) => InStep(s)'
      BY <1>3, <1>5, <2>1 DEF InStep, InStepAt
    <2> QED
      BY <1>2, <1>4, <2>2, <2>3 DEF Placed
  <1>7. CASE CheckStale(s)
    <2>1. PICK n \in x.todo :
            /\ y.base = x.base /\ y.stage = 3 /\ y.todo = x.todo /\ UNCHANGED <<disk, dirs>>
            /\ disk[n] = Bundle[x.base][n] => y.at = "remove" /\ y.file = n
            /\ disk[n] # Bundle[x.base][n] => y.at = "refused"
      BY <1>2, <1>7, UFacts DEF CheckStale, At, Go, Saver
    <2>2. x.at = "stale" /\ x.todo \subseteq FilesOf(x.base) \ FilesOf(Saves[s])
      BY <1>2, <1>7 DEF CheckStale, At, PlacedAt
    <2>3. PlacedAt(s, y)
      BY <2>1, <2>2 DEF PlacedAt, Checks, Changes
    <2>4. ASSUME Alone(s) PROVE InStep(s)'
      <3>1. n \in Names /\ n \in N /\ n \in FilesOf(x.base)
        BY <1>2, <2>2 DEF Names
      <3>2. disk[n] = Bundle[x.base][n]
        BY <1>2, <1>3, <2>4, <3>1, HeldFacts
      <3> QED
        BY <1>3, <1>5, <2>1, <2>2, <2>4, <3>2 DEF InStep, InStepAt
    <2> QED
      BY <1>2, <1>4, <2>3, <2>4 DEF Placed
  <1>8. CASE Remove(s)
    <2> DEFINE n == x.file
    <2>1. /\ x.at = "remove" /\ y.base = x.base /\ y.stage = 3
          /\ \/ /\ disk' = [disk EXCEPT ![n] = Absent] /\ dirs' = dirs
                /\ y.at = "stale" /\ y.todo = x.todo \ {n}
             \/ y.at = "refused" /\ disk[n] = Absent
      BY <1>2, <1>8, UFacts DEF Remove, Refuse, At, Go, Saver
    <2>2. x.todo \subseteq FilesOf(x.base) \ FilesOf(Saves[s]) /\ n \in x.todo
      BY <1>2, <2>1 DEF PlacedAt
    <2>3. PlacedAt(s, y)
      BY <2>1, <2>2 DEF PlacedAt, Checks, Changes
    <2>4. ASSUME Alone(s) PROVE InStep(s)'
      <3>1. n \in Names /\ n \in N /\ n \in Listing(x.base) /\ n # Manifest /\ n \notin Listing(Saves[s])
        BY <1>2, <2>1, <2>2, HeldFacts DEF Names
      <3>2. disk[n] # Absent /\ Held(Saves[s], n) = Absent
        BY <1>2, <1>3, <2>4, <3>1, HeldFacts
      <3>3. /\ disk' = [disk EXCEPT ![n] = Absent] /\ dirs' = dirs
            /\ y.at = "stale" /\ y.todo = x.todo \ {n}
        BY <2>1, <3>2
      <3>4. disk \in [Names -> Contents \cup Generations \cup {Absent, Partial, Edited}]
        BY UFacts, SaverFacts
      <3>5. \A m \in Names : disk'[m] = IF m \in (x.todo \ {n}) \cup {Manifest} THEN Held(x.base, m) ELSE Held(Saves[s], m)
        <4>1. \A m \in Names : disk'[m] = IF m = n THEN Absent ELSE disk[m]
          BY <3>3, <3>4
        <4>2. N = x.todo \cup {Manifest}
          BY <2>1
        <4> HIDE DEF n, N
        <4> QED
          BY <1>3, <2>4, <3>1, <3>2, <4>1, <4>2
      <3> HIDE DEF n
      <3> QED
        BY <1>3, <1>5, <2>1, <2>4, <3>3, <3>5 DEF InStep, InStepAt
    <2> QED
      BY <1>2, <1>4, <2>3, <2>4 DEF Placed
  <1> QED
    BY <1>6, <1>7, <1>8

LEMMA PrunePlaced ==
  ASSUME UInv, NEW s \in Savers, RemovedAll(s) \/ Prune(s) \/ Pruned(s)
  PROVE  Placed(s)' /\ (Alone(s) => InStep(s)')
  <1> DEFINE x == saver[s]  y == saver'[s]
  <1>1. (x.at = "stale" /\ x.todo = {}) \/ x.at = "prune"
    BY DEF RemovedAll, Prune, Pruned, At
  <1>2. /\ x \in Saver /\ x.base \in Generations \cup {None} /\ PlacedAt(s, x) /\ x.stage = 3
        /\ Saves[s] \in Generations /\ Saves[s] # None /\ Manifest \notin Files /\ temps[s] = None
    BY <1>1, RemoveFacts
  <1>3. Alone(s) => /\ dirs = IF x.at = "prune" THEN DirsOf(Saves[s]) \cup x.todo
                              ELSE DirsOf(x.base) \cup DirsOf(Saves[s])
                    /\ \A n \in Names : disk[n] = IF n \in {Manifest} THEN Held(x.base, n) ELSE Held(Saves[s], n)
                    /\ \A t \in Savers : temps[t] = None
    <2>1. x.at # "write"
      BY <1>1
    <2> QED
      BY <1>1, <2>1, RemoveFacts
  <1>4. temps' = temps
    BY DEF RemovedAll, Prune, Pruned
  <1>5. CASE RemovedAll(s)
    <2>1. /\ y.at = "prune" /\ y.base = x.base /\ y.stage = 3 /\ UNCHANGED <<disk, dirs>>
          /\ y.todo = DirsOf(x.base) \ DirsOf(Saves[s]) /\ x.at = "stale"
      BY <1>2, <1>5, UFacts DEF RemovedAll, At, Saver
    <2>2. PlacedAt(s, y)
      BY <2>1 DEF PlacedAt, Checks, Changes
    <2>3. OldNames(s, y) = {Manifest} /\ DirsNow(s, y) = DirsOf(Saves[s]) \cup y.todo
      BY <2>1 DEF OldNames, DirsNow, Checks
    <2>4. Alone(s) => InStep(s)'
      BY <1>3, <2>1, <2>3 DEF InStep, InStepAt
    <2> QED
      BY <1>2, <1>4, <2>2, <2>4 DEF Placed
  <1>6. CASE Prune(s)
    <2>1. PICK d \in x.todo :
            /\ y.base = x.base /\ y.stage = 3 /\ disk' = disk
            /\ \/ /\ dirs' = dirs \ {d} /\ y.at = "prune" /\ y.todo = x.todo \ {d}
               \/ y.at = "refused" /\ ~(d \in dirs /\ Empty(d))
      BY <1>2, <1>6, UFacts DEF Prune, Refuse, At, Go, Saver
    <2>2. x.at = "prune" /\ x.todo \subseteq DirsOf(x.base) \ DirsOf(Saves[s])
      BY <1>2, <1>6 DEF Prune, At, PlacedAt
    <2>3. PlacedAt(s, y)
      BY <2>1, <2>2 DEF PlacedAt, Checks, Changes
    <2>4. ASSUME Alone(s) PROVE InStep(s)'
      <3>1. d \in dirs /\ d \notin DirsOf(Saves[s]) /\ d \in Dirs /\ d # None /\ d # Root
        BY <1>2, <1>3, <2>2, <2>4, BundleFacts, BundleAssumption
      <3>2. ASSUME NEW n \in Files, Dir[n] = d PROVE disk[n] = Absent
        <4>1. n \notin FilesOf(Saves[s]) /\ n # Manifest /\ n \in Names
          BY <1>2, <3>1, <3>2 DEF DirsOf, Names
        <4> QED
          BY <1>2, <1>3, <2>4, <4>1, HeldFacts
      <3>3. Empty(d)
        BY <1>3, <2>4, <3>1, <3>2 DEF Empty
      <3>4. dirs' = dirs \ {d} /\ y.at = "prune" /\ y.todo = x.todo \ {d}
        BY <2>1, <3>1, <3>3
      <3>5. OldNames(s, y) = {Manifest} /\ DirsNow(s, y) = DirsOf(Saves[s]) \cup y.todo
        BY <3>4 DEF OldNames, DirsNow, Checks
      <3>6. dirs' = DirsNow(s, y)
        BY <1>3, <2>2, <2>4, <3>1, <3>4, <3>5
      <3> QED
        BY <1>3, <2>1, <2>4, <3>4, <3>5, <3>6 DEF InStep, InStepAt
    <2> QED
      BY <1>2, <1>4, <2>3, <2>4 DEF Placed
  <1>7. CASE Pruned(s)
    <2>1. /\ x.at = "prune" /\ x.todo = {} /\ y.at = "publish" /\ y.base = x.base /\ y.stage = 3
          /\ y.todo = {} /\ UNCHANGED <<disk, dirs>>
      BY <1>2, <1>7, UFacts DEF Pruned, At, Go, Saver
    <2>2. PlacedAt(s, y)
      BY <2>1 DEF PlacedAt, Checks, Changes
    <2>3. OldNames(s, y) = {Manifest} /\ DirsNow(s, y) = DirsOf(Saves[s])
      BY <2>1 DEF OldNames, DirsNow, Checks, Publishing
    <2>4. Alone(s) => InStep(s)'
      BY <1>3, <2>1, <2>3 DEF InStep, InStepAt
    <2> QED
      BY <1>2, <1>4, <2>2, <2>4 DEF Placed
  <1> QED
    BY <1>5, <1>6, <1>7

LEMMA FailPlaced ==
  ASSUME UInv, NEW s \in Savers, Fail(s)
  PROVE  Placed(s)' /\ (Alone(s) => InStep(s)')
  <1> DEFINE x == saver[s]  y == saver'[s]
  <1>1. y.at = "failed" /\ y.stage = x.stage
    BY Goes DEF Fail
  <1>2. temps'[s] # None => temps[s] # None
    <2>1. temps \in [Savers -> Dirs \cup {Root, None}]
      BY UFacts, SaverFacts
    <2> QED
      BY <2>1 DEF Fail, Dropped
  <1>3. PlacedAt(s, y) /\ InStep(s)'
    BY <1>1 DEF PlacedAt, InStep, InStepAt, Checks, Changes
  <1> QED
    BY <1>1, <1>2, <1>3, UFacts DEF Placed, Changed

-----------------------------------------------------------------------------
(* A saver that has not come to its changes leaves everything as it is.    *)
LEMMA Harmless ==
  ASSUME UInv, NEW s \in Savers, Save(s), ~Changed(s)'
  PROVE  ~Changed(s) /\ UNCHANGED <<disk, dirs, temps>>
  <1> DEFINE x == saver[s]  y == saver'[s]
  <1>1. x \in Saver /\ PlacedAt(s, x) /\ x.stage \in 0..4 /\ saver \in [Savers -> Saver]
    BY UFacts
  <1>2. ~(y.stage >= 3)
    BY DEF Changed
  <1>3. Begin(s) \/ ReadManifest(s) \/ List(s) \/ Verify(s) =>
          y.stage >= x.stage /\ UNCHANGED <<disk, dirs, temps>>
    <2>1. CASE Begin(s)
      <3>1. x.stage = 0 /\ y.stage \in {1, 2}
        BY <1>1, <2>1 DEF Begin, At, PlacedAt, Saver
      <3> QED
        BY <2>1, <3>1 DEF Begin
    <2>2. CASE ReadManifest(s) \/ List(s) \/ Verify(s)
      <3>1. y.stage = x.stage
        BY <1>1, <2>2 DEF ReadManifest, List, Verify, Go, Saver
      <3> QED
        BY <1>1, <2>2, <3>1 DEF ReadManifest, List, Verify
    <2> QED
      BY <2>1, <2>2
  <1>4. CASE Verified(s)
    <2>1. x.stage \in {1, 2, 4}
      BY <1>1, <1>4 DEF Verified, At, PlacedAt, Checks
    <2>2. y.stage = IF x.stage = 4 THEN 4 ELSE x.stage + 1
      BY <1>1, <1>4 DEF Verified, Saver
    <2>3. x.stage = 1
      BY <1>2, <2>1, <2>2
    <2> QED
      BY <1>4, <2>3 DEF Verified, Changed
  <1>5. CASE Fail(s)
    <2>1. y.stage = x.stage
      BY <1>5, Goes DEF Fail
    <2>2. temps[s] = None
      BY <1>1, <1>2, <2>1, UFacts
    <2>3. temps' = temps
      <3>1. temps \in [Savers -> Dirs \cup {Root, None}]
        BY UFacts, SaverFacts
      <3> QED
        BY <1>5, <2>2, <3>1 DEF Fail, Dropped
    <2> QED
      BY <1>2, <1>5, <2>1, <2>3 DEF Fail, Changed
  <1>6. ASSUME x.at \in Changes, ~Fail(s) PROVE FALSE
    <2>1. x.stage = 3
      BY <1>1, <1>6 DEF PlacedAt
    <2>2. x.at \notin {"idle", "manifest", "list", "verify"}
      BY <1>6 DEF Changes
    <2>3. \/ \E n \in Names : Create(s, n) \/ Replace(s, n)
          \/ Fill(s) \/ Rename(s) \/ Recheck(s) \/ WrittenAll(s) \/ CheckStale(s) \/ Remove(s)
          \/ RemovedAll(s) \/ Prune(s) \/ Pruned(s)
      BY <1>6, <2>2 DEF Save, Begin, ReadManifest, List, Verify, Verified, At
    <2>4. CASE Fill(s) \/ Rename(s)
      <3>1. y.stage = IF x.file = Manifest THEN 4 ELSE 3
        BY <1>1, <2>4 DEF Fill, Rename, Written, Saver
      <3> QED
        BY <1>2, <3>1
    <2>5. CASE \/ \E n \in Names : Create(s, n) \/ Replace(s, n)
               \/ Recheck(s) \/ CheckStale(s) \/ Pruned(s)
      <3>1. y.stage = x.stage
        BY <1>1, <2>5 DEF Create, Replace, Recheck, CheckStale, Pruned, Refuse, Go, Saver
      <3> QED
        BY <1>2, <2>1, <3>1
    <2>6. CASE WrittenAll(s) \/ Remove(s) \/ RemovedAll(s) \/ Prune(s)
      <3>1. y.stage = x.stage
        BY <1>1, <2>6 DEF WrittenAll, Remove, RemovedAll, Prune, Refuse, Go, Saver
      <3> QED
        BY <1>2, <2>1, <3>1
    <2> QED
      BY <2>3, <2>4, <2>5, <2>6
  <1>7. CASE Begin(s) \/ ReadManifest(s) \/ List(s) \/ Verify(s)
    <2>1. y.stage >= x.stage /\ UNCHANGED <<disk, dirs, temps>>
      BY <1>3, <1>7
    <2>2. x.stage \in 0..4 /\ y.stage \in 0..4
      BY SaveStep, UFacts DEF Moves, Saver
    <2>3. ~(x.stage >= 3)
      BY <1>2, <2>1, <2>2
    <2> QED
      BY <2>1, <2>3 DEF Changed
  <1>8. ASSUME ~Fail(s), ~(Begin(s) \/ ReadManifest(s) \/ List(s) \/ Verify(s)), ~Verified(s)
        PROVE  x.at \in Changes
    BY <1>8 DEF Save, Create, Fill, Replace, Recheck, Rename, WrittenAll, CheckStale, Remove, RemovedAll,
                Prune, Pruned, At, Turn, Changes
  <1> QED
    BY <1>4, <1>5, <1>6, <1>7, <1>8

LEMMA SavePlaced ==
  ASSUME UInv, NEW s \in Savers, Save(s)
  PROVE  UInv'
  <1>1. Moves(s) /\ IInv'
    BY SaveStep, SaverMoves DEF UInv
  <1>2. Placed(s)' /\ (Alone(s) => InStep(s)')
    BY BeginPlaced, CheckPlaced, CreatePlaced, RecheckPlaced, FillPlaced, StalePlaced, PrunePlaced, FailPlaced
       DEF Save
  <1>3. \A t \in Savers \ {s} : saver'[t] = saver[t] /\ temps'[t] = temps[t]
    BY <1>1, UFacts DEF Moves
  <1>4. edits' = edits
    BY <1>1 DEF Moves
  <1>5. Alone(s)' => Alone(s)
    BY <1>3, <1>4 DEF Alone, Changed
  <1>6. ASSUME NEW t \in Savers \ {s} PROVE Placed(t)' /\ (Alone(t)' => InStep(t)')
    <2>1. Placed(t)'
      BY <1>3, <1>6 DEF UInv, Placed, PlacedAt, Changed
    <2>2. ASSUME Alone(t)' PROVE InStep(t)'
      <3>1. ~Changed(s)'
        BY <1>6, <2>2 DEF Alone
      <3>2. ~Changed(s) /\ UNCHANGED <<disk, dirs, temps>>
        BY <3>1, Harmless
      <3>3. Alone(t)
        BY <1>3, <1>4, <1>6, <2>2, <3>2 DEF Alone, Changed
      <3>4. InStepAt(t, saver[t])
        BY <1>6, <3>3, UFacts
      <3> QED
        BY <1>3, <1>6, <3>2, <3>4 DEF InStep, InStepAt, Untouched, OldNames, DirsNow
    <2> QED
      BY <2>1, <2>2
  <1> QED
    BY <1>1, <1>2, <1>5, <1>6 DEF UInv

LEMMA UStep ==
  ASSUME UInv, [Next]_vars
  PROVE  UInv'
  <1>1. ASSUME UNCHANGED <<disk, dirs, temps, saver, edits>>, IInv' PROVE UInv'
    BY <1>1 DEF UInv, Placed, PlacedAt, Changed, Alone, InStep, InStepAt, Untouched, OldNames, DirsNow
  <1>2. CASE Read
    BY <1>1, <1>2, ReadStep DEF UInv, Read, OpenBundle, VerifyFile, CopyFile, ReaderOnly
  <1>3. ASSUME NEW n \in Names, NEW content \in {Edited, Absent}, Edit(n, content) PROVE UInv'
    <2>1. IInv' /\ UNCHANGED <<temps, saver>>
      BY <1>3, EditStep DEF UInv, Edit
    <2>2. edits' # 0
      BY <1>3 DEF UInv, IInv, TypeOK, Edit
    <2> QED
      BY <2>1, <2>2 DEF UInv, Placed, PlacedAt, Changed, Alone
  <1>4. CASE UNCHANGED vars
    <2>1. IInv'
      BY <1>4 DEF UInv, vars, IInv, TypeOK, Working, WorkingAt, Copied
    <2> QED
      BY <1>1, <1>4, <2>1 DEF vars
  <1> QED
    BY <1>2, <1>3, <1>4, SavePlaced DEF Next

LEMMA UInvariant == Spec => []UInv
  <1>1. UInv /\ [Next]_vars => UInv'
    BY UStep
  <1> QED
    BY <1>1, InitUInv, PTL DEF Spec

-----------------------------------------------------------------------------
(* save_managed_bundle refuses only what somebody else has changed: its    *)
(* three checks, its comparisons and create_new never stumble over the     *)
(* save's own changes, for any bundles.                                    *)
THEOREM NoneRefusedAlone == Spec => []UndisturbedAccepted
  <1>1. UInv => UndisturbedAccepted
    <2> SUFFICES ASSUME UInv, NEW s \in Savers, At(s, "refused"), edits = 0,
                        \A t \in Savers \ {s} : ~Changed(t)
                 PROVE  FALSE
      BY DEF UndisturbedAccepted, UInv, IInv, TypeOK
    <2> QED
      BY UFacts DEF Alone, InStepAt, At
  <1> QED
    BY <1>1, UInvariant, PTL

(* A save that nobody disturbed and that reports success left the new      *)
(* generation and nothing else, for any bundles.                           *)
THEOREM SavesComplete == Spec => []SavedIsComplete
  <1>1. UInv => SavedIsComplete
    <2> SUFFICES ASSUME UInv, NEW s \in Savers, At(s, "saved"), Alone(s)
                 PROVE  Lists(Saves[s]) /\ \A n \in Listing(Saves[s]) : disk[n] = Content(Saves[s], n)
      BY DEF SavedIsComplete, Alone
    <2>1. saver[s].stage = 4 /\ saver[s].at = "saved" /\ temps[s] = None /\ Saves[s] \in Generations
      BY UFacts DEF At, PlacedAt
    <2>2. (\A n \in Names : disk[n] = Held(Saves[s], n)) /\ dirs = DirsOf(Saves[s])
      BY <2>1, UFacts DEF InStepAt, OldNames, DirsNow, Checks
    <2>3. (\A t \in Savers : temps[t] = None) /\ temps \in [Savers -> Dirs \cup {Root, None}]
      BY <2>1, UFacts, SaverFacts
    <2>4. Lists(Saves[s])
      BY <2>1, <2>2, <2>3, HeldLists
    <2> QED
      BY <2>1, <2>2, <2>4, HeldFacts, BundleFacts
  <1> QED
    BY <1>1, UInvariant, PTL
-----------------------------------------------------------------------------
(* Two savers that replace the same generation. *)

(* About to rename its manifest, or past that.                             *)
Turned(s) == saver[s].stage = 4 \/ (At(s, "rename") /\ saver[s].file = Manifest)

(* What the last check of a save has seen so far is what s has written.    *)
CheckedAt(s, x) ==
  x.stage = 4 /\ x.at \in {"verify", "saved"} =>
    /\ Present = Listing(Saves[s])
    /\ \A n \in FilesOf(Saves[s]) \ (IF x.at = "verify" THEN x.todo ELSE {}) : disk[n] = Bundle[Saves[s]][n]
Checked(s) == CheckedAt(s, saver[s])

Rivals(s, t) == saver[s].base = saver[t].base /\ saver[s].base \notin {Saves[s], Saves[t]}

Took(t) == saver[t].stage = 4 /\ disk[Manifest] = Saves[t]

(* Once both have turned, neither changes a file any more.                 *)
Race(s, t) ==
  /\ saver[s].base # None => disk[Manifest] # Absent
  /\ At(s, "fill") /\ saver[s].file = Manifest =>
       disk[Manifest] = Partial /\ ~(At(t, "fill") /\ saver[t].file = Manifest)
  /\ At(s, "rename") /\ saver[s].file = Manifest => disk[Manifest] = saver[s].base \/ Took(t)
  /\ saver[s].stage = 4 => disk[Manifest] = Saves[s] \/ Took(t)
  /\ Rivals(s, t) /\ Turned(s) /\ Turned(t) => Checked(s)

WInv == UInv /\ (edits = 0 => \A s, t \in Savers : s # t => Race(s, t))

(* The ways a step of s can matter to a rival.                             *)
Filling(s) == At(s, "fill") /\ saver[s].file = Manifest
Apart(s) ==
  /\ disk'[Manifest] = disk[Manifest] /\ saver[s].stage # 4 /\ ~Turned(s)' /\ ~Filling(s)'
  /\ saver'[s].base # saver[s].base => disk[Manifest] # Absent
Looks(s) ==
  /\ disk' = disk /\ saver[s].stage = 4 /\ saver'[s].stage = 4 /\ saver'[s].base = saver[s].base
  /\ saver'[s].at \notin {"fill", "rename"}
  /\ Checked(s) => Checked(s)'
Turns(s) ==
  /\ disk' = disk /\ disk[Manifest] = saver[s].base /\ saver'[s].base = saver[s].base
  /\ saver[s].stage = 3 /\ saver'[s].stage = 3 /\ Turned(s)' /\ ~Filling(s)'
Creates(s) ==
  /\ disk[Manifest] = Absent /\ disk'[Manifest] = Partial /\ saver'[s].base = None
  /\ saver[s].stage = 3 /\ saver'[s].stage = 3 /\ Filling(s)'
Publishes(s) ==
  /\ disk' = [disk EXCEPT ![Manifest] = Saves[s]] /\ saver'[s].base = saver[s].base
  /\ saver[s].stage = 3 /\ saver'[s].stage = 4 /\ saver'[s].at = "list"
  /\ \/ Filling(s) /\ saver[s].base = None /\ disk[Manifest] = Partial
     \/ At(s, "rename") /\ saver[s].file = Manifest /\ saver[s].base # None

LEMMA CheckRaces ==
  ASSUME UInv, NEW s \in Savers, Begin(s) \/ ReadManifest(s) \/ List(s) \/ Verify(s) \/ Verified(s)
  PROVE  Apart(s) \/ Looks(s)
  <1> DEFINE x == saver[s]  y == saver'[s]
  <1>1. x \in Saver /\ PlacedAt(s, x) /\ x.stage \in 0..4 /\ saver \in [Savers -> Saver] /\ disk' = disk
    BY UFacts DEF Begin, ReadManifest, List, Verify, Verified
  <1>2. CASE Begin(s) \/ ReadManifest(s)
    <2>1. x.stage \in {0, 1} /\ y.stage \in {1, 2} /\ y.at \in {"manifest", "list", "refused"}
      BY <1>1, <1>2 DEF Begin, ReadManifest, At, Go, PlacedAt, Saver
    <2>2. y.base # x.base => disk[Manifest] \in Generations
      BY <1>1, <1>2 DEF Begin, ReadManifest, Go, Saver
    <2> QED
      BY <1>1, <2>1, <2>2, BundleAssumption DEF Apart, Turned, Filling, At
  <1>3. CASE (List(s) \/ Verify(s) \/ Verified(s)) /\ x.stage # 4
    <2>1. x.stage \in {1, 2} /\ y.stage \in {1, 2, 3} /\ y.base = x.base
      BY <1>1, <1>3 DEF List, Verify, Verified, At, Go, PlacedAt, Checks, Saver
    <2>2. y.at \in {"list", "verify", "refused", "write"}
      BY <1>1, <1>3, <2>1 DEF List, Verify, Verified, At, Go, Saver
    <2> QED
      BY <1>1, <1>3, <2>1, <2>2 DEF Apart, Turned, Filling, At
  <1>4. CASE (List(s) \/ Verify(s) \/ Verified(s)) /\ x.stage = 4
    <2>1. y.stage = 4 /\ y.base = x.base /\ y.at \in {"list", "verify", "refused", "saved"}
      BY <1>1, <1>4 DEF List, Verify, Verified, At, Go, Saver
    <2>2. Present' = Present
      BY <1>1 DEF Present
    <2>3. Goal(s) = Saves[s]
      BY <1>4 DEF Goal
    <2>4. ASSUME Checked(s) PROVE Checked(s)'
      <3>1. CASE List(s)
        <4>1. y.at = "verify" => Present = Listing(Saves[s]) /\ y.todo = FilesOf(Saves[s])
          BY <1>1, <2>3, <3>1 DEF List, Lists, Go, Saver
        <4>2. y.at # "saved"
          BY <1>1, <3>1 DEF List, Go, Saver
        <4> QED
          BY <2>2, <4>1, <4>2 DEF Checked, CheckedAt
      <3>2. CASE Verify(s)
        <4>1. \/ y.at = "refused"
              \/ /\ y.at = "verify"
                 /\ \E n \in x.todo : disk[n] = Bundle[Saves[s]][n] /\ y.todo = x.todo \ {n}
          BY <1>1, <2>3, <3>2 DEF Verify, At, Go, Saver
        <4>2. x.at = "verify"
          BY <3>2 DEF Verify, At
        <4> QED
          BY <1>1, <1>4, <2>2, <2>4, <4>1, <4>2 DEF Checked, CheckedAt
      <3>3. CASE Verified(s)
        <4>1. x.at = "verify" /\ x.todo = {} /\ y.at = "saved"
          BY <1>1, <1>4, <3>3 DEF Verified, At, Saver
        <4> QED
          BY <1>1, <1>4, <2>2, <2>4, <4>1 DEF Checked, CheckedAt
      <3> QED
        BY <1>4, <3>1, <3>2, <3>3
    <2> QED
      BY <1>1, <1>4, <2>1, <2>4 DEF Looks
  <1> QED
    BY <1>2, <1>3, <1>4

LEMMA WriteRaces ==
  ASSUME UInv, NEW s \in Savers, Filling(s) => disk[Manifest] = Partial,
         (\E n \in Names : Create(s, n) \/ Replace(s, n)) \/ Recheck(s) \/ Fill(s) \/ Rename(s)
  PROVE  Apart(s) \/ Turns(s) \/ Creates(s) \/ Publishes(s)
  <1> DEFINE x == saver[s]  y == saver'[s]
  <1>1. x \in Saver /\ PlacedAt(s, x) /\ WorkingAt(s, x) /\ saver \in [Savers -> Saver]
        /\ disk \in [Names -> Contents \cup Generations \cup {Absent, Partial, Edited}]
    BY UFacts, SaverFacts
  <1>2. x.stage = 3
    BY <1>1 DEF Create, Replace, Recheck, Fill, Rename, Turn, At, PlacedAt, Changes
  <1>3. Manifest \in Names /\ Listing(None) = {}
    BY HeldFacts DEF Names
  <1>4. ASSUME NEW n \in Names, Create(s, n) PROVE Apart(s) \/ Creates(s)
    <2>1. CASE Refuse(s)
      BY <1>2, <2>1, Goes DEF Refuse, Apart, Turned, Filling, At
    <2>2. CASE /\ disk[n] = Absent /\ disk' = [disk EXCEPT ![n] = Partial]
               /\ saver' = [saver EXCEPT ![s].at = "fill", ![s].file = n]
      <3>1. y.at = "fill" /\ y.file = n /\ y.base = x.base /\ y.stage = 3
        BY <1>1, <1>2, <2>2 DEF Saver
      <3>2. CASE n = Manifest
        <4>1. x.base = None
          BY <1>4, <3>2 DEF Create, Listing
        <4> QED
          BY <1>1, <1>2, <1>3, <2>2, <3>1, <3>2, <4>1 DEF Creates, Filling, At
      <3>3. CASE n # Manifest
        BY <1>1, <1>2, <1>3, <2>2, <3>1, <3>3 DEF Apart, Turned, Filling, At
      <3> QED
        BY <3>2, <3>3
    <2> QED
      BY <1>4, <2>1, <2>2 DEF Create
  <1>5. ASSUME NEW n \in Names, Replace(s, n) PROVE Apart(s)
    <2>1. y.at \in {"recheck", "refused"} /\ y.base = x.base /\ y.stage = 3
      BY <1>1, <1>2, <1>5 DEF Replace, Refuse, Go, Saver
    <2>2. disk' = disk
      BY <1>5 DEF Replace, Refuse
    <2> QED
      BY <1>2, <2>1, <2>2 DEF Apart, Turned, Filling, At
  <1>6. CASE Recheck(s)
    <2>1. y.at \in {"rename", "refused"} /\ y.base = x.base /\ y.stage = 3 /\ y.file = x.file
      BY <1>1, <1>2, <1>6 DEF Recheck, Refuse, Go, Saver
    <2>2. disk' = disk
      BY <1>6 DEF Recheck, Refuse
    <2>3. y.at = "rename" => disk[x.file] = Content(x.base, x.file)
      BY <1>6, Goes DEF Recheck, Refuse
    <2>4. Content(x.base, Manifest) = x.base
      BY DEF Content
    <2>5. CASE y.at = "rename" /\ y.file = Manifest
      BY <1>2, <2>1, <2>2, <2>3, <2>4, <2>5 DEF Turns, Turned, Filling, At
    <2>6. CASE ~(y.at = "rename" /\ y.file = Manifest)
      BY <1>2, <2>1, <2>2, <2>6 DEF Apart, Turned, Filling, At
    <2> QED
      BY <2>5, <2>6
  <1>7. CASE Fill(s) \/ Rename(s)
    <2>1. /\ y.at = IF x.file = Manifest THEN "list" ELSE "write"
          /\ y.stage = IF x.file = Manifest THEN 4 ELSE 3
          /\ y.base = x.base
      BY <1>1, <1>7 DEF Fill, Rename, Written, Saver
    <2>2. x.file \in Names /\ Content(Saves[s], Manifest) = Saves[s]
      BY <1>1 DEF Saver, Content
    <2>3. disk' = disk \/ disk' = NewContent(s)
      BY <1>7 DEF Fill, Rename
    <2>4. CASE x.file # Manifest
      <3>1. disk'[Manifest] = disk[Manifest]
        BY <1>1, <1>3, <2>2, <2>3, <2>4 DEF NewContent
      <3> QED
        BY <1>2, <2>1, <2>4, <3>1 DEF Apart, Turned, Filling, At
    <2>5. CASE x.file = Manifest /\ Fill(s)
      <3>1. x.base = None
        BY <1>1, <2>5 DEF Fill, At, PlacedAt, Listing
      <3>2. Filling(s) /\ disk[Manifest] = Partial
        BY <2>5 DEF Filling, Fill
      <3>3. disk' = [disk EXCEPT ![Manifest] = Saves[s]]
        BY <2>2, <2>5, <3>2 DEF Fill, NewContent
      <3> QED
        BY <1>2, <2>1, <2>5, <3>1, <3>2, <3>3 DEF Publishes
    <2>6. CASE x.file = Manifest /\ Rename(s)
      <3>1. x.base # None
        BY <1>1, <1>3, <2>6 DEF Rename, At, WorkingAt
      <3>2. disk' = [disk EXCEPT ![Manifest] = Saves[s]]
        BY <2>2, <2>6 DEF Rename, NewContent
      <3> QED
        BY <1>2, <2>1, <2>6, <3>1, <3>2 DEF Publishes, Rename
    <2> QED
      BY <1>7, <2>4, <2>5, <2>6
  <1> QED
    BY <1>4, <1>5, <1>6, <1>7

LEMMA RestRaces ==
  ASSUME UInv, NEW s \in Savers,
         \/ WrittenAll(s) \/ CheckStale(s) \/ Remove(s) \/ RemovedAll(s) \/ Prune(s) \/ Pruned(s) \/ Fail(s)
  PROVE  Apart(s) \/ Looks(s)
  <1> DEFINE x == saver[s]  y == saver'[s]
  <1>1. x \in Saver /\ PlacedAt(s, x) /\ WorkingAt(s, x) /\ saver \in [Savers -> Saver]
        /\ disk \in [Names -> Contents \cup Generations \cup {Absent, Partial, Edited}]
    BY UFacts, SaverFacts
  <1>2. CASE Fail(s)
    <2>1. y.at = "failed" /\ y.base = x.base /\ y.stage = x.stage /\ disk' = disk
      BY <1>2, Goes DEF Fail
    <2>2. CASE x.stage = 4
      BY <2>1, <2>2 DEF Looks, Checked, CheckedAt
    <2>3. CASE x.stage # 4
      BY <2>1, <2>3 DEF Apart, Turned, Filling, At
    <2> QED
      BY <2>2, <2>3
  <1>3. CASE WrittenAll(s) \/ CheckStale(s) \/ Remove(s) \/ RemovedAll(s) \/ Prune(s) \/ Pruned(s)
    <2>1. x.stage = 3
      BY <1>1, <1>3 DEF WrittenAll, CheckStale, Remove, RemovedAll, Prune, Pruned, At, PlacedAt, Changes
    <2>2. y.base = x.base /\ y.stage = 3 /\ y.at \notin {"fill", "rename"}
      <3>1. CASE WrittenAll(s) \/ CheckStale(s) \/ Remove(s)
        BY <1>1, <2>1, <3>1 DEF WrittenAll, CheckStale, Remove, Refuse, Go, Saver
      <3>2. CASE RemovedAll(s) \/ Prune(s) \/ Pruned(s)
        BY <1>1, <2>1, <3>2 DEF RemovedAll, Prune, Pruned, Refuse, Go, At, Saver
      <3> QED
        BY <1>3, <3>1, <3>2
    <2>3. disk'[Manifest] = disk[Manifest]
      <3>1. CASE Remove(s)
        <4>1. x.file # Manifest
          BY <1>1, <3>1, UFacts, BundleFacts, BundleAssumption DEF Remove, At, PlacedAt
        <4> QED
          BY <1>1, <3>1, <4>1 DEF Remove, Refuse, Names
      <3> QED
        BY <1>3, <3>1 DEF WrittenAll, CheckStale, RemovedAll, Prune, Pruned, Refuse
    <2> QED
      BY <2>1, <2>2, <2>3 DEF Apart, Turned, Filling, At
  <1> QED
    BY <1>2, <1>3

LEMMA SaveRaces ==
  ASSUME UInv, NEW s \in Savers, Save(s), Filling(s) => disk[Manifest] = Partial
  PROVE  Apart(s) \/ Looks(s) \/ Turns(s) \/ Creates(s) \/ Publishes(s)
  BY CheckRaces, WriteRaces, RestRaces DEF Save

(* What is known of two savers before a step of s.                         *)
LEMMA RaceFacts ==
  ASSUME UInv, NEW s \in Savers
  PROVE  /\ Filling(s) => saver[s].stage = 3 /\ saver[s].base = None
         /\ Turned(s) /\ saver[s].stage # 4 => saver[s].base # None
         /\ saver[s].base \in Generations \cup {None} /\ Saves[s] \in Generations
         /\ {Absent, Partial, None} \cap Generations = {} /\ Absent # Partial
         /\ At(s, "rename") => saver[s].stage = 3
         /\ disk \in [Names -> Contents \cup Generations \cup {Absent, Partial, Edited}]
         /\ Manifest \in Names
  <1>1. PlacedAt(s, saver[s]) /\ WorkingAt(s, saver[s])
    BY UFacts, SaverFacts
  <1>2. Filling(s) => saver[s].base = None
    BY <1>1 DEF Filling, At, PlacedAt, Listing
  <1>3. Listing(None) = {}
    BY HeldFacts
  <1>4. (Filling(s) \/ At(s, "rename")) => saver[s].stage = 3
    BY <1>1 DEF Filling, At, PlacedAt, Changes
  <1>5. Turned(s) /\ saver[s].stage # 4 => saver[s].base # None
    BY <1>1, <1>3 DEF Turned, At, WorkingAt
  <1>6. {Absent, Partial, None} \cap Generations = {} /\ Absent # Partial
    BY BundleAssumption DEF Absent, Partial
  <1> QED
    BY <1>2, <1>4, <1>5, <1>6, UFacts, SaverFacts DEF Names

LEMMA RaceStep ==
  ASSUME UInv, NEW s \in Savers, NEW t \in Savers, s # t, Save(s), Race(s, t), Race(t, s)
  PROVE  Race(s, t)' /\ Race(t, s)'
  <1>1. saver'[t] = saver[t]
    BY SaveStep, UFacts DEF Moves
  <1>2. UInv'
    BY SavePlaced
  <1>3. disk \in [Names -> Contents \cup Generations \cup {Absent, Partial, Edited}] /\ Manifest \in Names
    BY RaceFacts
  <1>4. (Turned(t) <=> Turned(t)') /\ (Filling(t) <=> Filling(t)')
    BY <1>1 DEF Turned, Filling, At
  <1>5. Apart(s) \/ Looks(s) \/ Turns(s) \/ Creates(s) \/ Publishes(s)
    BY SaveRaces DEF Race, Filling
  <1>6. CASE Apart(s)
    <2>1. Race(s, t)'
      BY <1>6 DEF Apart, Race, Turned, Filling, At
    <2>2. Race(t, s)'
      BY <1>1, <1>6 DEF Apart, Race, Turned, Filling, At, Took
    <2> QED
      BY <2>1, <2>2
  <1>7. CASE Looks(s)
    <2>1. Turned(s) /\ Turned(s)' /\ ~Filling(s)' /\ ~At(s, "rename")'
      BY <1>7 DEF Looks, Turned, Filling, At
    <2>2. Rivals(s, t)' => Rivals(s, t) /\ Rivals(t, s)
      BY <1>1, <1>7 DEF Looks, Rivals
    <2>3. Rivals(t, s)' => Rivals(t, s)
      BY <1>1, <1>7 DEF Looks, Rivals
    <2>4. Race(s, t)'
      BY <1>1, <1>4, <1>7, <2>1, <2>2 DEF Looks, Race, Took, Filling
    <2>5. Checked(t) => Checked(t)'
      BY <1>1, <1>7 DEF Looks, Checked, CheckedAt, Present
    <2>6. Race(t, s)'
      BY <1>1, <1>4, <1>7, <2>1, <2>3, <2>5 DEF Looks, Race, Took, Filling, At
    <2> QED
      BY <2>4, <2>6
  <1>8. CASE Turns(s)
    <2>1. saver'[s].stage = 3 /\ saver[s].stage = 3 /\ ~Filling(s)'
      BY <1>8 DEF Turns
    <2>2. ~Took(s) /\ ~Took(s)'
      BY <2>1 DEF Took
    <2>3. Rivals(t, s)' /\ Turned(t)' => saver[t].stage # 4
      <3>1. Rivals(t, s)' => disk[Manifest] # Saves[t]
        BY <1>1, <1>8 DEF Turns, Rivals
      <3> QED
        BY <2>2, <3>1 DEF Race
    <2>4. Rivals(s, t)' <=> Rivals(t, s)'
      BY DEF Rivals
    <2>5. Race(s, t)'
      BY <1>1, <1>8, <2>1 DEF Turns, Race, Filling, Checked, CheckedAt
    <2>6. Race(t, s)'
      BY <1>1, <1>4, <1>8, <2>1, <2>2, <2>3 DEF Turns, Race, Filling, At, Took, Checked, CheckedAt
    <2> QED
      BY <2>5, <2>6
  <1>9. CASE Creates(s)
    <2>1. disk[Manifest] = Absent /\ disk'[Manifest] = Partial /\ ~Turned(s)' /\ ~At(s, "rename")' /\ ~Took(s)
      BY <1>9 DEF Creates, Turned, Filling, At, Took
    <2>2. ~Filling(t) /\ saver[t].stage # 4 /\ saver[t].base = None
      BY <2>1, RaceFacts DEF Race, Filling, Took
    <2>3. ~Turned(t)
      BY <2>2, RaceFacts
    <2>4. Absent # Partial
      BY RaceFacts
    <2>5. Race(s, t)'
      BY <1>1, <1>4, <1>9, <2>1, <2>2, <2>4 DEF Creates, Race, Filling
    <2>6. Race(t, s)'
      BY <1>1, <1>4, <1>9, <2>1, <2>2, <2>3, <2>4 DEF Creates, Race, Filling, Turned, At
    <2> QED
      BY <2>5, <2>6
  <1>10. CASE Publishes(s)
    <2>1. disk'[Manifest] = Saves[s] /\ saver'[s].stage = 4 /\ saver'[s].at = "list" /\ Took(s)' /\ ~Took(s)
      BY <1>3, <1>10 DEF Publishes, Took
    <2>2. Saves[s] # Absent /\ Saves[s] # Partial
      BY RaceFacts
    <2>3. Race(s, t)'
      BY <2>1, <2>2 DEF Race, Filling, At, Checked, CheckedAt
    <2>4. ~Filling(t)
      <3>1. ASSUME At(s, "rename"), saver[s].file = Manifest PROVE disk[Manifest] # Partial \/ saver[t].stage = 4
        <4>1. disk[Manifest] = saver[s].base \/ Took(t)
          BY <3>1 DEF Race
        <4>2. saver[s].base # Partial
          BY RaceFacts, BundleAssumption DEF None, Partial
        <4> QED
          BY <4>1, <4>2 DEF Took
      <3> QED
        BY <1>10, <3>1, RaceFacts DEF Publishes, Race, Filling
    <2>5. ASSUME Rivals(t, s)', Turned(t)' PROVE Checked(t)'
      <3>1. Rivals(t, s) /\ Turned(t)
        BY <1>1, <1>4, <1>10, <2>5 DEF Publishes, Rivals
      <3>2. At(s, "rename") /\ saver[s].file = Manifest /\ saver[s].base # None
        <4>1. ASSUME saver[s].base = None, disk[Manifest] = Partial PROVE FALSE
          <5>1. saver[t].stage = 4
            BY <3>1, <4>1, RaceFacts DEF Rivals
          <5>2. disk[Manifest] = Saves[t]
            BY <2>1, <5>1 DEF Race
          <5> QED
            BY <4>1, <5>2, RaceFacts
        <4> QED
          BY <1>10, <4>1 DEF Publishes
      <3>3. Turned(s) /\ Checked(t)
        BY <3>1, <3>2 DEF Turned, Race
      <3>4. disk[Manifest] # Absent
        BY <3>2 DEF Race
      <3>5. Present' = Present /\ \A n \in Files : disk'[n] = disk[n]
        BY <1>3, <1>10, <2>2, <3>4, BundleAssumption DEF Publishes, Present, Names
      <3>6. FilesOf(Saves[t]) \subseteq Files
        BY RaceFacts, BundleFacts
      <3> QED
        BY <1>1, <3>3, <3>5, <3>6 DEF Checked, CheckedAt
    <2>6. Race(t, s)'
      BY <1>1, <1>4, <2>1, <2>2, <2>4, <2>5 DEF Race, Filling, At
    <2> QED
      BY <2>3, <2>6
  <1> QED
    BY <1>5, <1>6, <1>7, <1>8, <1>9, <1>10

(* What the theorem below assumes of the savers and the generations.       *)
AtMostTwo == \A r, s, t \in Savers : r \in {s, t} \/ s = t
DistinctBundles == \A g, h \in Generations : Bundle[g] = Bundle[h] => g = h

LEMMA WInvariant ==
  ASSUME AtMostTwo
  PROVE  Spec => []WInv
  <1>1. Init => WInv
    <2> SUFFICES ASSUME Init PROVE WInv
      OBVIOUS
    <2>1. \A s \in Savers : saver[s] = Fresh
      BY DEF Init
    <2> QED
      BY <2>1, InitUInv DEF WInv, Race, Fresh, At, Turned
  <1>2. WInv /\ [Next]_vars => WInv'
    <2> SUFFICES ASSUME WInv, [Next]_vars, UInv', edits' = 0, NEW s \in Savers, NEW t \in Savers, s # t
                 PROVE  Race(s, t)'
      BY UStep DEF WInv
    <2>1. CASE UNCHANGED <<disk, saver, edits>>
      BY <2>1 DEF WInv, Race, At, Turned, Took, Rivals, Checked, CheckedAt, Present
    <2>2. ASSUME NEW r \in Savers, Save(r) PROVE Race(s, t)'
      <3>1. edits = 0
        BY <2>2, SaveStep DEF WInv, UInv, Moves
      <3>2. Race(s, t) /\ Race(t, s) /\ UInv
        BY <3>1 DEF WInv
      <3>3. r = s \/ r = t
        BY AtMostTwo DEF AtMostTwo
      <3> QED
        BY <2>2, <3>2, <3>3, RaceStep
    <2>3. ~\E n \in Names, content \in {Edited, Absent} : Edit(n, content)
      BY DEF Edit, WInv, UInv, IInv, TypeOK
    <2> QED
      BY <2>1, <2>2, <2>3 DEF Next, Read, OpenBundle, VerifyFile, CopyFile, ReaderOnly, vars
  <1> QED
    BY <1>1, <1>2, PTL DEF Spec

(* Of two overlapping saves that replace the same generation by different  *)
(* ones at most one reports success, although save_managed_bundle compares *)
(* and renames in separate steps: for any two bundles that differ.         *)
THEOREM OneWinnerOfTwo ==
  ASSUME AtMostTwo, DistinctBundles
  PROVE  Spec => []OneWinner
  <1>1. WInv => OneWinner
    <2> SUFFICES ASSUME WInv, edits = 0, NEW s \in Savers, NEW t \in Savers, s # t, At(s, "saved"), At(t, "saved"),
                        Rivals(s, t)
                 PROVE  Saves[s] = Saves[t]
      BY DEF OneWinner, Rivals
    <2>1. saver[s].stage = 4 /\ saver[t].stage = 4 /\ Saves[s] \in Generations /\ Saves[t] \in Generations
      BY UFacts DEF WInv, At, PlacedAt
    <2>2. Checked(s) /\ Checked(t)
      BY <2>1 DEF WInv, Race, Turned, Rivals
    <2>3. Listing(Saves[s]) = Listing(Saves[t])
      BY <2>1, <2>2 DEF Checked, CheckedAt, At
    <2>4. FilesOf(Saves[s]) = FilesOf(Saves[t])
      <3>1. Manifest \notin FilesOf(Saves[s]) /\ Manifest \notin FilesOf(Saves[t])
        BY <2>1, BundleFacts, BundleAssumption
      <3>2. /\ Listing(Saves[s]) = FilesOf(Saves[s]) \cup {Manifest}
            /\ Listing(Saves[t]) = FilesOf(Saves[t]) \cup {Manifest}
        BY UFacts DEF WInv, Listing, FilesOf
      <3>3. /\ FilesOf(Saves[s]) = Listing(Saves[s]) \ {Manifest}
            /\ FilesOf(Saves[t]) = Listing(Saves[t]) \ {Manifest}
        BY <3>1, <3>2, Zenon
      <3> QED
        BY <2>3, <3>3, Zenon
    <2>5. \A n \in FilesOf(Saves[s]) : Bundle[Saves[s]][n] = Bundle[Saves[t]][n]
      BY <2>1, <2>2, <2>4 DEF Checked, CheckedAt, At
    <2>6. Bundle[Saves[s]] = Bundle[Saves[t]]
      BY <2>1, <2>4, <2>5, BundleAssumption DEF FilesOf
    <2> QED
      BY <2>1, <2>6, DistinctBundles DEF DistinctBundles
  <1> QED
    BY <1>1, WInvariant, PTL
=============================================================================
