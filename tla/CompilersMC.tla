---------------------------- MODULE CompilersMC ----------------------------
(* Instances of Compilers for model checking. *)
EXTENDS Compilers

CONSTANTS h1, h2, v1, v2, w1, w2, w3

Everything == {"net", "time", "worker", "crash"}
=============================================================================
