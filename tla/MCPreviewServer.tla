-------------------------- MODULE MCPreviewServer --------------------------
(* File 0 is the configuration, 1 the document, 2 what it includes.        *)
EXTENDS PreviewServer, TLC

MissingFile == "missing"
NotRead == "unread"
AllTexts == {"root", "plain", "bad", "big", "odd"}
TextIncludes == [t \in AllTexts |-> IF t = "root" THEN {2} ELSE {}]

(* The configuration breaks, the include grows too large or turns odd.      *)
Changing == 0 :> {"missing", "bad"} @@ 1 :> {"root"} @@ 2 :> {"plain", "big", "odd"}
=============================================================================
