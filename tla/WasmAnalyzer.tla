---------------------------- MODULE WasmAnalyzer ----------------------------
(***************************************************************************)
(* What AdocWeaveClient promises the page that uses it: one analysis at a  *)
(* time, one answer to every call, and none but "disposed" after dispose.  *)
(***************************************************************************)
CONSTANT Calls     \* the calls of analyze()

VARIABLES
  answer,          \* what became of each call's promise
  disposed         \* dispose() was called

Final == {"result", "error", "invalid", "cancelled", "busy", "failed", "disposed"}
Pending == {c \in Calls : answer[c] = "pending"}

Init == answer = [c \in Calls |-> "unasked"] /\ disposed = FALSE

Ask(c) ==
  /\ answer[c] = "unasked"
  /\ \E a \in Final \cup {"pending"} :
       /\ answer' = [answer EXCEPT ![c] = a]
       /\ a = "pending" => Pending = {}
       /\ a = "busy" <=> Pending # {}
       /\ a = "disposed" <=> disposed
       /\ a \notin {"result", "error"}
  /\ UNCHANGED disposed

Settle(c) ==
  /\ answer[c] = "pending"
  /\ \E a \in Final \ {"busy", "disposed"} : answer' = [answer EXCEPT ![c] = a]
  /\ UNCHANGED disposed

Dispose ==
  /\ disposed' = TRUE
  /\ answer' = [c \in Calls |-> IF c \in Pending THEN "disposed" ELSE answer[c]]

Next == (\E c \in Calls : Ask(c) \/ Settle(c)) \/ Dispose

Spec ==
  /\ Init /\ [][Next]_<<answer, disposed>>
  /\ \A c \in Calls : WF_<<answer, disposed>>(Settle(c))
=============================================================================
