--------------------------- MODULE SessionService ---------------------------
(***************************************************************************)
(* What the language server's session promises its client                  *)
(* (language-server.adoc, "Workspace and project settings"): a document    *)
(* has no result, or the result of one analysis of the workspace as it is. *)
(* An analysis is a single step here.  It takes the texts of open          *)
(* documents from the editor and other files from disk, where the server   *)
(* may not know yet of a change the file watcher has still to report.      *)
(* Whoever rests on what changes loses its result in the same step, and    *)
(* nothing else takes a result away.                                       *)
(***************************************************************************)
CONSTANTS Uris, DocFiles, Config, Texts, Missing, Unread, Includes, Broken, Settings

VARIABLES
  text,        \* what the editor shows of a document, Unread while it is closed
  settings,    \* the enabled rules
  disk,        \* what is on disk
  unreported,  \* the files of whose change the watcher has still to tell
  result,      \* what the server knows of a document
  late         \* the documents that may have been opened too late for its analysis

vars == <<text, settings, disk, unreported, result, late>>

Files == DocFiles \cup {Config}
OnDisk == Texts \cup {Missing}
Open == {u \in Uris : text[u] # Unread}

NoResult ==
  [status |-> "pending", read |-> [f \in Files |-> Unread], used |-> {},
   settings |-> CHOOSE s \in Settings : TRUE]

RestsOn(r, f) == f \in Files /\ result[r].read[f] # Unread

-----------------------------------------------------------------------------
(* One analysis: of document r, with the texts of the documents in B.      *)

IncludedBy(t) == IF t \in Texts THEN Includes[t] ELSE {}

Reached(r, content) ==
  {u \in DocFiles : \A S \in SUBSET DocFiles :
     (r \in S /\ \A w \in S : IncludedBy(content[w]) \subseteq S) => u \in S}

Problem(config) ==
  [status |-> "problem", used |-> {}, settings |-> settings,
   read |-> [f \in Files |-> IF f = Config THEN config ELSE Unread]]

Content(files, B) == [u \in DocFiles |-> IF u \in B THEN text[u] ELSE files[u]]

View(r, files, B) ==
  LET content == Content(files, B)
      reached == Reached(r, content)
  IN  [status |-> "view", used |-> B \cap reached, settings |-> settings,
       read |-> [f \in Files |-> IF f = Config THEN files[f]
                                 ELSE IF f \in reached THEN content[f] ELSE Unread]]

(* The files as the server may know them: a change still to be reported is  *)
(* known or not.                                                           *)
Seen(old) == [f \in Files |-> IF f \in unreported THEN old[f] ELSE disk[f]]

Analysis(r, files, B) ==
  IF r \notin DocFiles THEN Problem(Unread)
  ELSE IF files[Config] \in Broken THEN Problem(files[Config])
  ELSE View(r, files, B)

-----------------------------------------------------------------------------

Init ==
  /\ text = [u \in Uris |-> Unread]
  /\ settings \in Settings
  /\ disk \in [Files -> OnDisk]
  /\ unreported = {}
  /\ result = [u \in Uris |-> NoResult]
  /\ late = [u \in Uris |-> {}]

(* The documents of U are analysed anew, with all that is open now; those  *)
(* of O are opened.                                                        *)
Withdraw(U, O) ==
  /\ result' = [r \in Uris |-> IF r \in U THEN NoResult ELSE result[r]]
  /\ late' \in [Uris -> SUBSET DocFiles]
  /\ \A r \in Uris : late'[r] \subseteq IF r \in U THEN {} ELSE late[r] \cup O

(* Document u is opened, changed or closed.                                *)
Edit(u, t, U) ==
  /\ text' = [text EXCEPT ![u] = t]
  /\ u \in U /\ \A r \in Uris \ U : ~RestsOn(r, u)
  /\ Withdraw(U, IF text[u] = Unread THEN {u} ELSE {})
  /\ UNCHANGED <<settings, disk, unreported>>

Write(f, c) ==
  /\ disk' = [disk EXCEPT ![f] = c]
  /\ unreported' = unreported \cup {f}
  /\ UNCHANGED <<text, settings, result, late>>

Report(F, U) ==
  /\ unreported' = unreported \ F
  /\ \A r \in Uris \ U : \A f \in F : ~RestsOn(r, f)
  /\ Withdraw(U, {})
  /\ UNCHANGED <<text, settings, disk>>

Reconfigure(s) ==
  /\ settings' = s
  /\ Withdraw(Uris, {})
  /\ UNCHANGED <<text, disk, unreported>>

(* The work on results that are still to come is done again or given up.   *)
Restart == Withdraw({}, {}) /\ UNCHANGED <<text, settings, disk, unreported>>

Show(r) ==
  /\ r \in Open /\ result[r].status = "pending"
  /\ \E old \in [unreported -> OnDisk], B \in SUBSET Open :
       /\ Open \cap DocFiles \subseteq B \cup late[r]
       /\ result' = [result EXCEPT ![r] = Analysis(r, Seen(old), B)]
  /\ late' \in [Uris -> SUBSET DocFiles] /\ \A w \in Uris : late'[w] \subseteq late[w]
  /\ UNCHANGED <<text, settings, disk, unreported>>

Next ==
  \/ Restart
  \/ \E u \in Uris, t \in Texts \cup {Unread}, U \in SUBSET Uris : Edit(u, t, U)
  \/ \E f \in Files, c \in OnDisk : Write(f, c)
  \/ \E F \in SUBSET unreported, U \in SUBSET Uris : Report(F, U)
  \/ \E s \in Settings : Reconfigure(s)
  \/ \E r \in Uris : Show(r)

Spec == Init /\ [][Next]_vars

(* Whatever has happened since it was computed, a result is what one       *)
(* analysis would give now.                                                *)
Current ==
  \A r \in Uris : result[r].status # "pending" =>
    /\ r \in Open
    /\ \E old \in [unreported -> OnDisk], B \in SUBSET Open : result[r] = Analysis(r, Seen(old), B)
=============================================================================
