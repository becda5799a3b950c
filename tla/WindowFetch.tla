----------------------------- MODULE WindowFetch -----------------------------
(***************************************************************************)
(* What a walk relies on when it calls fetchLogsWithRetry, and all that    *)
(* IndexBatch and Throw of EventRanges assume of it: a call answers the    *)
(* logs of its whole window or it fails, and the checkpoint may then be    *)
(* moved across the window in one step.                                    *)
(***************************************************************************)
EXTENDS Integers

CONSTANTS Walks, MaxBlock

VARIABLES
  phase,   \* phase[w]: no call, a call under way, answered, or failed
  window,  \* window[w]: the blocks asked for
  answer   \* answer[w]: the blocks whose logs the caller has

avars == <<phase, window, answer>>

Window(lo, hi) == {b \in 0..MaxBlock : lo <= b /\ b <= hi}

Init ==
  /\ phase  = [w \in Walks |-> "idle"]
  /\ window = [w \in Walks |-> {}]
  /\ answer = [w \in Walks |-> {}]

Call(w) ==
  /\ phase[w] = "idle"
  /\ phase' = [phase EXCEPT ![w] = "open"]
  /\ \E lo, hi \in 0..MaxBlock : lo <= hi /\ window' = [window EXCEPT ![w] = Window(lo, hi)]
  /\ UNCHANGED answer

Answer(w) ==
  /\ phase[w] = "open"
  /\ phase' = [phase EXCEPT ![w] = "done"]
  /\ answer' = [answer EXCEPT ![w] = window[w]]
  /\ UNCHANGED window

Fail(w) ==
  /\ phase[w] = "open"
  /\ phase' = [phase EXCEPT ![w] = "failed"]
  /\ UNCHANGED <<window, answer>>

\* The caller goes on; its next call is a new one.
Return(w) ==
  /\ phase[w] \in {"done", "failed"}
  /\ phase'  = [phase EXCEPT ![w] = "idle"]
  /\ window' = [window EXCEPT ![w] = {}]
  /\ answer' = [answer EXCEPT ![w] = {}]

\* The process dies with every call in it.
Die ==
  /\ phase'  = [w \in Walks |-> "idle"]
  /\ window' = [w \in Walks |-> {}]
  /\ answer' = [w \in Walks |-> {}]

Next == Die \/ \E w \in Walks : Call(w) \/ Answer(w) \/ Fail(w) \/ Return(w)

Spec == Init /\ [][Next]_avars

\* A call does not stay open for ever.
Settles == \A w \in Walks : phase[w] = "open" ~> phase[w] # "open"
=============================================================================
