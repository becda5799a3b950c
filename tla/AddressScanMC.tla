---------------------------- MODULE AddressScanMC ----------------------------
(* Instances of AddressScan for model checking. *)
EXTENDS AddressScan

CONSTANTS a1, a2, h1, h2

Job(from, to, traced) == [from |-> from, to |-> to, traced |-> traced]

\* The balance moves in blocks 1 and 2; the change in block 2 is an internal transfer.
Moves == [a \in Addrs |-> [b \in Blocks |-> IF b = 0 THEN 0 ELSE 4 + b]]
Named == [a \in Addrs |-> {1}]
\* The job that is traced ends beyond the first head.
Requests == [a \in Addrs |-> {Job(0, 1, FALSE), Job(1, 2, TRUE)}]
Others == [a \in Addrs |-> {"pause", "resume", "catchup", "delete"}]

\* One block, one job for each address.
Still == [a \in Addrs |-> [b \in Blocks |-> 0]]
Unnamed == [a \in Addrs |-> {}]
Single == [a \in Addrs |-> {Job(0, 0, FALSE)}]
NoCatchup == [a \in Addrs |-> {"pause", "resume", "delete"}]

Everything == {"rpc", "db", "crash"}
Nothing == {}
=============================================================================
