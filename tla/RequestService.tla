--------------------------- MODULE RequestService ---------------------------
(***************************************************************************)
(* What the language server promises a client of its read requests         *)
(* (language-server.adoc, "Notifications, requests and cancellation"): a   *)
(* request is refused at once or answered once, in the end; the answer     *)
(* says "cancelled" only if the client withdrew the request, "modified"    *)
(* only if its document changed meanwhile, withdrawal comes first, and a   *)
(* result is never sent for a document that has changed.                   *)
(***************************************************************************)
CONSTANT Requests

VARIABLES
  answer,     \* "unsent", "open", or what the client was told
  withdrawn,  \* the requests the client cancelled before they were answered
  changed,    \* the requests whose document changed after they were received
  up          \* the server has not exited

vars == <<answer, withdrawn, changed, up>>

Final == {"refused", "result", "modified", "cancelled", "failed"}

Init ==
  /\ answer = [r \in Requests |-> "unsent"]
  /\ withdrawn = {} /\ changed = {} /\ up = TRUE

Receive(r, a) ==
  /\ up /\ answer[r] = "unsent" /\ a \in {"open", "refused"}
  /\ answer' = [answer EXCEPT ![r] = a]
  /\ UNCHANGED <<withdrawn, changed, up>>

Withdraw(r) ==
  /\ up /\ answer[r] = "open"
  /\ withdrawn' = withdrawn \cup {r}
  /\ UNCHANGED <<answer, changed, up>>

Change(R) ==
  /\ up /\ \A r \in R : answer[r] # "unsent"
  /\ changed' = changed \cup R
  /\ UNCHANGED <<answer, withdrawn, up>>

Permitted(r) ==
  IF r \in withdrawn THEN {"cancelled"}
  ELSE IF r \in changed THEN {"modified"} ELSE {"result", "failed"}

Answer(r) ==
  /\ up /\ answer[r] = "open"
  /\ \E a \in Permitted(r) : answer' = [answer EXCEPT ![r] = a]
  /\ UNCHANGED <<withdrawn, changed, up>>

(* Requests still open are never answered.                                 *)
Exit == up /\ up' = FALSE /\ UNCHANGED <<answer, withdrawn, changed>>

Next ==
  \/ \E r \in Requests : \E a \in {"open", "refused"} : Receive(r, a)
  \/ \E r \in Requests : Withdraw(r)
  \/ \E R \in SUBSET Requests : Change(R)
  \/ \E r \in Requests : Answer(r)
  \/ Exit

Spec == Init /\ [][Next]_vars /\ \A r \in Requests : WF_vars(Answer(r))
=============================================================================
