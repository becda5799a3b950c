---------------------------- MODULE WatchSweepsMC ----------------------------
(* Instances of WatchSweeps for model checking. *)
EXTENDS WatchSweeps

CONSTANTS a1, h1

\* Logs in the two newest blocks.
Newest == [a \in Addrs |-> {MaxBlock - 1, MaxBlock}]
\* A PUT names a webhook, or says nothing of it.
Named == {"set", "keep"}
Everything == {"rpc", "db", "hook", "crash", "reorg"}
=============================================================================
