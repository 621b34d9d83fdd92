------------------------- MODULE MCLspConvergence -------------------------
EXTENDS LspConvergence, TLC

(* 1 includes 2 and 3, 2 includes 3, 4 includes 1.                         *)
Acyclic == 1 :> {2, 3} @@ 2 :> {3} @@ 3 :> {} @@ 4 :> {1}
=============================================================================
