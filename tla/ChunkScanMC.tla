----------------------------- MODULE ChunkScanMC -----------------------------
(* Instances of ChunkScan for model checking. *)
EXTENDS ChunkScan

CONSTANTS h1, h2, p1, p2

\* Logs of both queries, two of them in one block, two of one pair.
Some ==
  {[n |-> 0, i |-> 0, q |-> 1, p |-> p1], [n |-> 2, i |-> 0, q |-> 2, p |-> p2],
   [n |-> 3, i |-> 0, q |-> 1, p |-> p1], [n |-> 3, i |-> 1, q |-> 2, p |-> p2],
   [n |-> 5, i |-> 0, q |-> 1, p |-> p1]}

\* The two caches do not share anything.
OneCache == cache["transfers"] = <<>> \/ cache["approvals"] = <<>>

Everything == {"cap", "rpc", "time"}
=============================================================================
