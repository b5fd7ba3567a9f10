--------------------------- MODULE MCTaskManager ---------------------------
(***************************************************************************)
(* Model checking of TaskManager: four runs compete for two permits, so    *)
(* that waiters are granted permits, are cancelled before they resume, and *)
(* are followed by other waiters.                                          *)
(***************************************************************************)
EXTENDS TaskManager
=============================================================================
