-------------------------- MODULE ContractSourcesMC --------------------------
(* Instances of ContractSources for model checking. *)
EXTENDS ContractSources

CONSTANTS a1, a2, a3, h1, h2

\* a1 is no proxy, points at itself, or at a2, which points on to a3, beyond the cap.
Chains == [a \in Addrs |-> IF a = a1 THEN {None, a1, a2} ELSE IF a = a2 THEN {a3} ELSE {None}]

Everything == {"db", "net", "rpc"}
=============================================================================
