-------------------------- MODULE MCRunLifecycle --------------------------
(* Model checking of RunLifecycle.  The .cfg files choose the environment: *)
(* which requests, crashes and failures the instance contains.             *)
EXTENDS RunLifecycle, TLC

Everything == {"crash", "stop", "db", "storage"}
NoDbFault == {"crash", "stop", "storage"}
Interruptions == {"crash", "stop"}
StopOnly == {"stop"}
StorageFault == {"storage"}
Nothing == {}

ClientSymmetry == Permutations(Clients)
RunSymmetry == Permutations(Runs)
=============================================================================
