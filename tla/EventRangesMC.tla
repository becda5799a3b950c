---------------------------- MODULE EventRangesMC ----------------------------
(* Instances of EventRanges for model checking. *)
EXTENDS EventRangesInv, TLC

CONSTANTS p1, p2, h1, h2

Frame(from, to, dir) == [from |-> from, to |-> to, dir |-> dir]

\* One process serves every handler.
HomeSolo == [h \in {h1} |-> p1]
HomeOne  == [h \in {h1, h2} |-> p1]
HandlerSymmetry == Permutations({h1, h2})

\* Windows of three batches with a BatchSize of 2, the last one partial, and one of one batch.
BothWays   == {Frame(0, 4, "forward"), Frame(0, 4, "backward"), Frame(0, 1, "forward")}
\* A window of two batches with a BatchSize of 1.
TinyForward == {Frame(0, 1, "forward")}
\* An edit that shrinks a window, grows one, and turns one around.
Edits      == {Frame(1, 4, "backward")}
NoEdits    == {}
=============================================================================
