---------------------------- MODULE MCWasmClient ----------------------------
(* Three calls; request IDs start over after the second.                   *)
EXTENDS WasmClient

ThreeCalls == 1..3
=============================================================================
