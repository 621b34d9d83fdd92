--------------------------- MODULE MCManagedBundle ---------------------------
(* A generation with notes in a directory of their own, and two to replace *)
(* it with: one without the notes, one with the same notes.                *)
EXTENDS ManagedBundle, TLC

NotesApart == "index" :> "root" @@ "notes" :> "assets"
ThreeBundles ==
  "g0" :> ("index" :> "i0" @@ "notes" :> "n0")
  @@ "g1" :> ("index" :> "i1")
  @@ "g2" :> ("index" :> "i2" @@ "notes" :> "n0")
Different == "s" :> "g1" @@ "t" :> "g2"
=============================================================================
