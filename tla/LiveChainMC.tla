----------------------------- MODULE LiveChainMC -----------------------------
(* Instances of LiveChain for model checking. *)
EXTENDS LiveChain

CONSTANTS c1, h1, h2, u0, u1, u2

Everything == {"db", "rpc", "net"}

\* The endpoint changes while the chain rests at its first block, and the chain and the watch
\* events go on while the endpoint rests: the tail reads the chain by whichever client it has.
Apart ==
  \/ tip = 1 /\ forks = 0 /\ pub = 0
  \/ /\ \A h \in Savers : save[h] = Idle
     /\ table = Default /\ config = Default /\ loaded = "read"
=============================================================================
