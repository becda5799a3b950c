------------------------------ MODULE LogFetchMC ------------------------------
(* Instances of LogFetch for model checking. *)
EXTENDS LogFetch

CONSTANTS w1, w2

\* One walk meets every kind of failure, the other one only the cap.
OneNoisy == [w \in {w1, w2} |-> IF w = w1 THEN {"shrinkable", "other"} ELSE {}]
=============================================================================
