-------------------------- MODULE MCPaddleRuntime --------------------------
(* Model checking of PaddleRuntime on small instances. *)
EXTENDS PaddleRuntime, TLC
=============================================================================
