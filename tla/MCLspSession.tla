--------------------------- MODULE MCLspSession ---------------------------
(* Small workspaces for LspSession.                                        *)
EXTENDS LspSession, TLC

MissingFile == "missing"
NotRead == "unread"
AllTexts == {"root", "plain", "edited", "bad"}
TextIncludes == [t \in AllTexts |-> IF t = "root" THEN {2} ELSE {}]
BrokenTexts == {"bad"}

(* Document 1 includes document 2; nothing changes on disk.               *)
Stable == 0 :> {"missing"} @@ 1 :> {"root"} @@ 2 :> {"plain"}
ChainEdits == 1 :> {"root"} @@ 2 :> {"plain", "edited"}

(* Document 1 is open and includes 2, whose file changes under it.         *)
Changing == 0 :> {"missing"} @@ 1 :> {"root"} @@ 2 :> {"plain", "missing"}
RootOnly == 1 :> {"root"} @@ 2 :> {}

(* The configuration of document 1 breaks and is repaired.                 *)
ConfigChanges == 0 :> {"missing", "bad"} @@ 1 :> {"root"} @@ 2 :> {"plain"}

(* Document 3 is an untitled buffer.                                       *)
RootAndUntitled == 1 :> {"root"} @@ 2 :> {} @@ 3 :> {"plain"}
=============================================================================
