--------------------------- MODULE MCLspRequests ---------------------------
(* Document 2 refers to document 1, so the analysis of 2 observes 1.       *)
EXTENDS LspRequests, TLC

OneObserves == 1 :> {2} @@ 2 :> {}
=============================================================================
