----------------------------- MODULE EventReorgMC -----------------------------
(* Instances of EventReorg for model checking. *)
EXTENDS EventReorg

CONSTANTS t1, p1

Everything == {"rpc", "db", "crash"}
=============================================================================
