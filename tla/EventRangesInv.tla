--------------------------- MODULE EventRangesInv ---------------------------
(***************************************************************************)
(* The inductive invariant of EventRanges: TypeInv strengthens TypeOK, and *)
(* Sound strengthens ClaimsStored with what every walk and every request   *)
(* in flight knows about the row it was read from.                         *)
(***************************************************************************)
EXTENDS EventRanges

\* A walk's cursor stays within one batch of its window, on the side it comes
\* from, and a batch is stored only while the window is not exhausted.
CursorOK ==
  \A p \in Procs, r \in RangeIds :
    LET j == job[p][r] IN
    j.pc \in {"walk", "store"} =>
      /\ j.dir = "forward"  => 0 <= j.cur
      /\ j.dir = "backward" => j.cur <= MaxBlock
      /\ j.pc = "store" => ~Exhausted(j)

\* Only an edit leaves the direction of a row alone.
AddsHaveDirection ==
  \A h \in Handlers : req[h].kind \in {"add", "readd"} => req[h].dir \in Directions

TypeInv == TypeOK /\ CursorOK /\ AddsHaveDirection

-----------------------------------------------------------------------------
Held(j) == j.pc \in {"claim", "walk", "store"}

\* Blocks of window f that a walk whose cursor stands at c has left behind.  A
\* checkpoint outside the window counts its first block as walked (Reach), so
\* that block is behind as well.
Behind(f, c) ==
  IF f.dir = "forward"
  THEN {b \in Span(f) : b < c \/ (b = f.from /\ b # c)}
  ELSE {b \in Span(f) : b > c \/ (b = f.to /\ b # c)}

\* A row is within the chain, and its checkpoint, or its whole window once it is
\* completed, is stored.
RowSound(r) ==
  LET row == rows[r] IN
  /\ row.status \in {"absent", "pending"} => row.current = NoBlock
  /\ Exists(r) /\ ~row.tainted =>
       /\ row.to <= head
       /\ Walked(row) \subseteq indexed
       /\ row.status = "completed" => Span(row) \subseteq indexed

\* A walk that is not stale has the frame of its row, and everything it may still
\* write as a checkpoint is stored.
JobSound(p, r) ==
  LET j == job[p][r] IN
  Held(j) /\ ~j.stale =>
    /\ Exists(r)
    /\ SameFrame(j, rows[r])
    /\ ~rows[r].tainted =>
         /\ Reach(j, j.cp) \subseteq indexed
         /\ Reach(j, j.last) \subseteq indexed
         /\ j.pc = "walk"  => Behind(j, j.cur) \subseteq indexed
         /\ j.pc = "store" => Behind(j, StepCursor(j)) \subseteq indexed

\* An add is within the chain; a flip that is not stale completes a stored window.
ReqSound(h) ==
  LET q == req[h] IN
  /\ q.kind \in {"add", "readd"} => q.to <= head
  /\ q.kind \in {"flip", "flipping"} /\ ~q.stale =>
       /\ Exists(q.id)
       /\ ~rows[q.id].tainted => Span(rows[q.id]) \subseteq indexed

Sound ==
  /\ \A r \in RangeIds : RowSound(r)
  /\ \A p \in Procs, r \in RangeIds : JobSound(p, r)
  /\ \A h \in Handlers : ReqSound(h)

\* The inductive invariant: what a walk or a request in flight knows of its row still holds
\* of the row, and what the row claims is stored.
IInv == TypeInv /\ Sound
=============================================================================
