--------------------------- MODULE MCFasooAdapter ---------------------------
(* Model checking of FasooAdapter on small instances. *)
EXTENDS FasooAdapter, TLC

CONSTANTS r1, r2

\* One run is retried while the other is deidentified once.
OneRetry == (r1 :> 2) @@ (r2 :> 1)
=============================================================================
