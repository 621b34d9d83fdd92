---------------------------- MODULE ManagedBundle ----------------------------
(***************************************************************************)
(* The generated slide directory of bundle.rs: save_managed_bundle by      *)
(* several processes, open_managed_bundle with the copy into a             *)
(* BundleSnapshot, and a person who edits the directory meanwhile.  Each   *)
(* system call that reads or changes the directory is a step of its own;   *)
(* the writes are those of the Linux build (filesystem/mod.rs).            *)
(*                                                                         *)
(* A file's bytes are a content, and its digest identifies it; the         *)
(* manifest's bytes are the generation it describes.  A definition under   *)
(* "Altered:" is a plausible mistake in the one that follows it and not    *)
(* part of the specification.                                              *)
(***************************************************************************)
EXTENDS Naturals

CONSTANTS
  Files,        \* names of bundle files
  Dirs,         \* directories a file may be in, not nested in each other
  Dir,          \* Dir[n]: the directory of file n, or Root
  Generations,  \* bundles that can be saved
  Bundle,       \* Bundle[g]: a function from the files of g to their contents
  Savers,       \* processes that save one bundle each
  Saves,        \* Saves[s]: the generation s saves
  MaxEdits      \* bound on the changes made by the editor

Root == "root"
Manifest == "manifest"
None == "none"
Absent == "absent"    \* no such file
Partial == "partial"  \* created, not yet written
Edited == "edited"    \* a content of no generation

Names == Files \cup {Manifest}
Contents == UNION {{Bundle[g][n] : n \in DOMAIN Bundle[g]} : g \in Generations}

ASSUME BundleAssumption ==
  /\ Manifest \notin Files /\ Dirs \cap {Root, None} = {} /\ Dir \in [Files -> Dirs \cup {Root}]
  /\ None \notin Generations
  /\ \A g \in Generations :
       DOMAIN Bundle[g] \subseteq Files /\ Bundle[g] \in [DOMAIN Bundle[g] -> Contents]
  /\ {Absent, Partial, Edited} \cap (Contents \cup Generations) = {}
  /\ Saves \in [Savers -> Generations] /\ MaxEdits \in Nat

VARIABLES
  disk,    \* disk[n]: the content of file n
  dirs,    \* the directories that exist
  temps,   \* temps: savers whose temporary file exists, with its directory
  saver,   \* how far each saver is
  reader,  \* how far the reader is
  edits    \* changes the editor has made

vars == <<disk, dirs, temps, saver, reader, edits>>

-----------------------------------------------------------------------------
FilesOf(g) == IF g = None THEN {} ELSE DOMAIN Bundle[g]
Listing(g) == IF g = None THEN {} ELSE DOMAIN Bundle[g] \cup {Manifest}
DirsOf(g) == {Dir[n] : n \in FilesOf(g)} \ {Root}
Content(g, n) == IF n = Manifest THEN g ELSE Bundle[g][n]
DirOf(n) == IF n = Manifest THEN Root ELSE Dir[n]

Present == {n \in Names : disk[n] # Absent}

(* entries: what the directory holds, whatever the files contain.          *)
Lists(g) == Present = Listing(g) /\ dirs = DirsOf(g) /\ temps = [s \in Savers |-> None]

(* base: the generation found, None if the directory was empty; stage: 1   *)
(* and 2 the checks before the first change, 3 the changes, 4 the check of *)
(* the result; todo: files or directories the current loop still has to    *)
(* visit; file: the file being written or removed.                         *)
Checks == {"list", "verify"}
Changes == {"write", "fill", "recheck", "rename", "stale", "remove", "prune", "publish"}
Ended == {"saved", "refused", "failed"}
Saver ==
  [at : {"idle", "manifest"} \cup Checks \cup Changes \cup Ended,
   base : Generations \cup {None}, stage : 0..4, todo : SUBSET (Files \cup Dirs),
   file : Names]
Fresh == [at |-> "idle", base |-> None, stage |-> 0, todo |-> {}, file |-> Manifest]

Reader ==
  [at : {"closed", "verify", "copy", "served"}, manifest : Generations \cup {None},
   todo : SUBSET Files, copy : UNION {[N -> Contents \cup {Absent, Partial, Edited}] : N \in SUBSET Files}]
Closed == [at |-> "closed", manifest |-> None, todo |-> {}, copy |-> <<>>]

TypeOK ==
  /\ disk \in [Names -> Contents \cup Generations \cup {Absent, Partial, Edited}]
  /\ dirs \subseteq Dirs
  /\ temps \in [Savers -> Dirs \cup {Root, None}]
  /\ saver \in [Savers -> Saver]
  /\ \A s \in Savers : temps[s] # None => saver[s].at \in {"recheck", "rename", "failed"}
  /\ reader \in Reader
  /\ edits \in Nat

(* The directory is new or empty, or holds a complete generation.          *)
Init ==
  /\ \E g \in Generations \cup {None} :
       /\ disk = [n \in Names |-> IF n \in Listing(g) THEN Content(g, n) ELSE Absent]
       /\ dirs = DirsOf(g)
  /\ temps = [s \in Savers |-> None]
  /\ saver = [s \in Savers |-> Fresh]
  /\ reader = Closed
  /\ edits = 0

-----------------------------------------------------------------------------
(* Saving. *)

Goal(s) == IF saver[s].stage = 4 THEN Saves[s] ELSE saver[s].base
At(s, place) == saver[s].at = place
Go(s, place) == saver' = [saver EXCEPT ![s].at = place]
Refuse(s) == Go(s, "refused") /\ UNCHANGED <<disk, dirs>>
SaverOnly == UNCHANGED <<reader, edits>>

(* The first look decides whether there is a generation to replace.        *)
Begin(s) ==
  /\ At(s, "idle")
  /\ saver' = [saver EXCEPT ![s].at = IF Lists(None) THEN "list" ELSE "manifest",
                            ![s].stage = IF Lists(None) THEN 2 ELSE 1]
  /\ UNCHANGED <<disk, dirs, temps>> /\ SaverOnly

ReadManifest(s) ==
  /\ At(s, "manifest")
  /\ IF disk[Manifest] \in Generations
     THEN saver' = [saver EXCEPT ![s].at = "list", ![s].base = disk[Manifest]]
     ELSE Go(s, "refused")
  /\ UNCHANGED <<disk, dirs, temps>> /\ SaverOnly

List(s) ==
  /\ At(s, "list")
  /\ IF Lists(Goal(s))
     THEN saver' = [saver EXCEPT ![s].at = "verify", ![s].todo = FilesOf(Goal(s))]
     ELSE Go(s, "refused")
  /\ UNCHANGED <<disk, dirs, temps>> /\ SaverOnly

Verify(s) ==
  /\ At(s, "verify")
  /\ \E n \in saver[s].todo :
       IF disk[n] = Bundle[Goal(s)][n]
       THEN saver' = [saver EXCEPT ![s].todo = @ \ {n}]
       ELSE Go(s, "refused")
  /\ UNCHANGED <<disk, dirs, temps>> /\ SaverOnly

(* After the second check the directories are made, after the third the    *)
(* save has succeeded.                                                     *)
Verified(s) ==
  /\ At(s, "verify") /\ saver[s].todo = {}
  /\ LET stage == saver[s].stage IN
     saver' = [saver EXCEPT
       ![s].at = CASE stage = 1 -> "list" [] stage = 2 -> "write" [] OTHER -> "saved",
       ![s].stage = IF stage = 4 THEN 4 ELSE stage + 1,
       ![s].todo = IF stage = 2 THEN FilesOf(Saves[s]) ELSE {}]
  /\ dirs' = IF saver[s].stage = 2 THEN dirs \cup DirsOf(Saves[s]) ELSE dirs
  /\ UNCHANGED <<disk, temps>> /\ SaverOnly

(* The files in the caller's order, whatever it is; the manifest last.     *)
Turn(s) == IF At(s, "write") THEN saver[s].todo ELSE IF At(s, "publish") THEN {Manifest} ELSE {}

(* Altered: an existing file is truncated instead of refused.              *)
CreateOver(s, n) ==
  /\ n \in Turn(s) \ Listing(saver[s].base)
  /\ disk' = [disk EXCEPT ![n] = Partial]
  /\ saver' = [saver EXCEPT ![s].at = "fill", ![s].file = n]
  /\ UNCHANGED <<dirs, temps>> /\ SaverOnly

(* create_new                                                              *)
Create(s, n) ==
  /\ n \in Turn(s) \ Listing(saver[s].base)
  /\ IF disk[n] = Absent /\ DirOf(n) \in dirs \cup {Root}
     THEN /\ disk' = [disk EXCEPT ![n] = Partial]
          /\ saver' = [saver EXCEPT ![s].at = "fill", ![s].file = n]
          /\ UNCHANGED dirs
     ELSE Refuse(s)
  /\ UNCHANGED temps /\ SaverOnly

(* Altered: what was written is not looked at again.                       *)
WrittenTrusting(s) ==
  saver' = [saver EXCEPT
       ![s].at = IF saver[s].file = Manifest THEN "saved" ELSE "write",
       ![s].stage = IF saver[s].file = Manifest THEN 4 ELSE 3,
       ![s].todo = @ \ {saver[s].file}]

Written(s) ==
  saver' = [saver EXCEPT
       ![s].at = IF saver[s].file = Manifest THEN "list" ELSE "write",
       ![s].stage = IF saver[s].file = Manifest THEN 4 ELSE 3,
       ![s].todo = @ \ {saver[s].file}]

NewContent(s) == [disk EXCEPT ![saver[s].file] = Content(Saves[s], saver[s].file)]

(* A file that was removed since it was created is written all the same,   *)
(* but no name leads to it.                                                *)
Fill(s) ==
  /\ At(s, "fill") /\ Written(s)
  /\ disk' = IF disk[saver[s].file] = Partial THEN NewContent(s) ELSE disk
  /\ UNCHANGED <<dirs, temps>> /\ SaverOnly

(* replace_candidate_after_recheck: read and compare, write the temporary  *)
(* file, read and compare again, rename.                                   *)
Replace(s, n) ==
  /\ n \in Turn(s) \cap Listing(saver[s].base)
  /\ IF disk[n] = Content(saver[s].base, n)
     THEN /\ saver' = [saver EXCEPT ![s].at = "recheck", ![s].file = n]
          /\ temps' = [temps EXCEPT ![s] = DirOf(n)]
          /\ UNCHANGED <<disk, dirs>>
     ELSE Refuse(s) /\ UNCHANGED temps
  /\ SaverOnly

Dropped(s) == temps' = [temps EXCEPT ![s] = None]

(* Altered: the temporary file outlives the refusal.                       *)
RecheckKeeping(s) ==
  /\ At(s, "recheck")
  /\ IF disk[saver[s].file] = Content(saver[s].base, saver[s].file)
     THEN Go(s, "rename") /\ UNCHANGED <<disk, dirs>>
     ELSE Refuse(s)
  /\ UNCHANGED temps /\ SaverOnly

Recheck(s) ==
  /\ At(s, "recheck")
  /\ IF disk[saver[s].file] = Content(saver[s].base, saver[s].file)
     THEN Go(s, "rename") /\ UNCHANGED <<disk, dirs, temps>>
     ELSE Refuse(s) /\ Dropped(s)
  /\ SaverOnly

Rename(s) ==
  /\ At(s, "rename") /\ Written(s) /\ Dropped(s)
  /\ disk' = NewContent(s)
  /\ UNCHANGED dirs /\ SaverOnly

(* All written: files of the old generation alone are removed, then its    *)
(* directories.                                                            *)
WrittenAll(s) ==
  /\ At(s, "write") /\ saver[s].todo = {}
  /\ saver' = [saver EXCEPT ![s].at = "stale",
                            ![s].todo = FilesOf(saver[s].base) \ FilesOf(Saves[s])]
  /\ UNCHANGED <<disk, dirs, temps>> /\ SaverOnly

(* candidate_contents_match                                                *)
CheckStale(s) ==
  /\ At(s, "stale")
  /\ \E n \in saver[s].todo :
       IF disk[n] = Bundle[saver[s].base][n]
       THEN saver' = [saver EXCEPT ![s].at = "remove", ![s].file = n]
       ELSE Go(s, "refused")
  /\ UNCHANGED <<disk, dirs, temps>> /\ SaverOnly

Remove(s) ==
  /\ At(s, "remove")
  /\ IF disk[saver[s].file] # Absent
     THEN /\ disk' = [disk EXCEPT ![saver[s].file] = Absent]
          /\ saver' = [saver EXCEPT ![s].at = "stale", ![s].todo = @ \ {saver[s].file}]
          /\ UNCHANGED dirs
     ELSE Refuse(s)
  /\ UNCHANGED temps /\ SaverOnly

(* Altered: directories of the old generation are left behind.             *)
RemovedAllFiles(s) ==
  /\ At(s, "stale") /\ saver[s].todo = {}
  /\ saver' = [saver EXCEPT ![s].at = "prune"]
  /\ UNCHANGED <<disk, dirs, temps>> /\ SaverOnly

RemovedAll(s) ==
  /\ At(s, "stale") /\ saver[s].todo = {}
  /\ saver' = [saver EXCEPT ![s].at = "prune",
                            ![s].todo = DirsOf(saver[s].base) \ DirsOf(Saves[s])]
  /\ UNCHANGED <<disk, dirs, temps>> /\ SaverOnly

Empty(d) == /\ \A n \in Files : Dir[n] = d => disk[n] = Absent
            /\ \A t \in Savers : temps[t] # d

Prune(s) ==
  /\ At(s, "prune")
  /\ \E d \in saver[s].todo :
       IF d \in dirs /\ Empty(d)
       THEN dirs' = dirs \ {d} /\ saver' = [saver EXCEPT ![s].todo = @ \ {d}] /\ UNCHANGED disk
       ELSE Refuse(s)
  /\ UNCHANGED temps /\ SaverOnly

(* Altered: the manifest stays if the names are the same.                  *)
PrunedSameNames(s) ==
  /\ At(s, "prune") /\ saver[s].todo = {}
  /\ IF FilesOf(saver[s].base) = FilesOf(Saves[s])
     THEN saver' = [saver EXCEPT ![s].at = "list", ![s].stage = 4] ELSE Go(s, "publish")
  /\ UNCHANGED <<disk, dirs, temps>> /\ SaverOnly

Pruned(s) ==
  /\ At(s, "prune") /\ saver[s].todo = {} /\ Go(s, "publish")
  /\ UNCHANGED <<disk, dirs, temps>> /\ SaverOnly

(* An I/O error, or the cancellation seen by the next check for it; the    *)
(* temporary file is removed when its owner is dropped, not when the       *)
(* process dies.                                                           *)
Fail(s) ==
  /\ saver[s].at \notin Ended \cup {"idle"} /\ Go(s, "failed")
  /\ Dropped(s) \/ UNCHANGED temps
  /\ UNCHANGED <<disk, dirs>> /\ SaverOnly

-----------------------------------------------------------------------------
(* Reading: open_managed_bundle, then BundleSnapshot::from_reader.          *)

ReaderOnly == UNCHANGED <<disk, dirs, temps, saver, edits>>

OpenBundle ==
  /\ reader.at = "closed" /\ disk[Manifest] \in Generations
  /\ reader' = [Closed EXCEPT !.at = "verify", !.manifest = disk[Manifest],
                              !.todo = FilesOf(disk[Manifest])]
  /\ ReaderOnly

VerifyFile(n) ==
  /\ reader.at = "verify" /\ n \in reader.todo
  /\ reader' = IF disk[n] # Bundle[reader.manifest][n] THEN Closed
               ELSE IF reader.todo # {n} THEN [reader EXCEPT !.todo = @ \ {n}]
               ELSE [reader EXCEPT !.at = "copy", !.todo = FilesOf(reader.manifest)]
  /\ ReaderOnly

CopyWith(n) == [m \in DOMAIN reader.copy \cup {n} |-> IF m = n THEN disk[n] ELSE reader.copy[m]]

(* Altered: the digest is not checked again.                               *)
CopyFileUnchecked(n) ==
  /\ reader.at = "copy" /\ n \in reader.todo
  /\ reader' = [reader EXCEPT
       !.at = IF reader.todo = {n} THEN "served" ELSE "copy",
       !.todo = @ \ {n}, !.copy = CopyWith(n)]
  /\ ReaderOnly

(* read_file                                                               *)
CopyFile(n) ==
  /\ reader.at = "copy" /\ n \in reader.todo
  /\ reader' = IF disk[n] # Bundle[reader.manifest][n] THEN Closed
               ELSE [reader EXCEPT
                 !.at = IF reader.todo = {n} THEN "served" ELSE "copy",
                 !.todo = @ \ {n}, !.copy = CopyWith(n)]
  /\ ReaderOnly

-----------------------------------------------------------------------------
(* Somebody else changes, adds or deletes a file.                          *)
Edit(n, content) ==
  /\ edits < MaxEdits /\ disk[n] \notin {Partial, content}
  /\ DirOf(n) \in dirs \cup {Root}
  /\ disk' = [disk EXCEPT ![n] = content]
  /\ edits' = edits + 1
  /\ UNCHANGED <<dirs, temps, saver, reader>>

Save(s) ==
  \/ Begin(s)
  \/ ReadManifest(s)
  \/ List(s)
  \/ Verify(s)
  \/ Verified(s)
  \/ \E n \in Names : Create(s, n)
  \/ Fill(s)
  \/ \E n \in Names : Replace(s, n)
  \/ Recheck(s)
  \/ Rename(s)
  \/ WrittenAll(s)
  \/ CheckStale(s)
  \/ Remove(s)
  \/ RemovedAll(s)
  \/ Prune(s)
  \/ Pruned(s)
  \/ Fail(s)

Read ==
  \/ OpenBundle
  \/ \E n \in Files : VerifyFile(n)
  \/ \E n \in Files : CopyFile(n)

Next ==
  \/ \E s \in Savers : Save(s)
  \/ Read
  \/ \E n \in Names, content \in {Edited, Absent} : Edit(n, content)

Spec == Init /\ [][Next]_vars
-----------------------------------------------------------------------------
(* Properties. *)

(* Whatever is saved, edited and deleted meanwhile, a snapshot that is     *)
(* served has the files of one generation and their contents.              *)
ServedIsWhole == reader.at = "served" => reader.copy = Bundle[reader.manifest]

Changed(s) == saver[s].stage >= 3

(* Savers that overlap cannot both succeed: of two that replace the same   *)
(* generation by different ones, at most one reports success, even though  *)
(* comparing and renaming are separate steps.  (An editor could put an old *)
(* manifest back, and so could a third saver.)                             *)
OneWinner ==
  edits = 0 =>
    \A s, t \in Savers :
      /\ At(s, "saved") /\ At(t, "saved") /\ saver[s].base = saver[t].base
      /\ saver[s].base \notin {Saves[s], Saves[t]}
      => Saves[s] = Saves[t]

(* A save that nobody disturbs finds nothing to complain about: what it    *)
(* leaves is what its last check demands.                                  *)
UndisturbedAccepted ==
  \A s \in Savers :
    At(s, "refused") => edits > 0 \/ \E t \in Savers \ {s} : Changed(t)

(* A successful save left exactly its generation if nobody else changed    *)
(* the directory.                                                          *)
SavedIsComplete ==
  \A s \in Savers :
    At(s, "saved") /\ edits = 0 /\ (\A t \in Savers \ {s} : ~Changed(t)) =>
      Lists(Saves[s]) /\ \A n \in Listing(Saves[s]) : disk[n] = Content(Saves[s], n)

Saving(s) == saver[s] # saver'[s]

(* Savers change no file that is not in the manifest they started from,    *)
(* nor those of it somebody deleted, except to add what was missing.       *)
UnknownFilesKept ==
  [][\A s \in Savers : Saving(s) =>
       \A n \in Names : disk'[n] # disk[n] /\ disk[n] \notin {Absent, Partial} =>
         n \in Listing(saver[s].base)]_vars
=============================================================================
