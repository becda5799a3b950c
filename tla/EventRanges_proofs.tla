------------------------- MODULE EventRanges_proofs -------------------------
(***************************************************************************)
(* For every set of processes and handlers, every chain length, batch size *)
(* and request: the types hold, a row that no stale writer touched and no  *)
(* edit widened never reports a block as indexed that is not stored        *)
(* (ClaimsStored), a settled row is not revived by a draining walk and an  *)
(* add resets no row; with one process, no walked block is forgotten.      *)
(***************************************************************************)
EXTENDS EventRangesInv, TLAPS

USE DEF NoBlock

LEMMA ConstantTypes ==
  /\ MaxBlock \in Nat /\ BatchSize \in Nat /\ BatchSize > 0
  /\ MaxRangeId \in Nat /\ MaxRangeId > 0
  /\ CreationBlock \in Blocks
  /\ NoJob \in Job /\ NoReq \in Req /\ NoRow \in Row
BY SizesAssumption DEF Blocks, NoJob, NoReq, NoRow, Job, Req, Row, JobPc, ReqKind, RowStatus,
   Directions, Cursors, RangeIds

\* Writing one entry of the job table, the request table or the rows keeps its type.
LEMMA JobUpdate ==
  ASSUME job \in [Procs -> [RangeIds -> Job]], NEW p \in Procs, NEW r \in RangeIds, NEW x \in Job
  PROVE  /\ [job EXCEPT ![p][r] = x] \in [Procs -> [RangeIds -> Job]]
         /\ \A q \in Procs, s \in RangeIds :
              [job EXCEPT ![p][r] = x][q][s] = IF q = p /\ s = r THEN x ELSE job[q][s]
OBVIOUS

LEMMA TypeInvInit == Init => TypeInv
BY ConstantTypes DEF Init, TypeInv, TypeOK, CursorOK, AddsHaveDirection, NoJob, NoReq

-----------------------------------------------------------------------------
(* Type correctness, one lemma per group of actions.                        *)

LEMMA FirstCursorType ==
  ASSUME NEW j \in Job
  PROVE  /\ FirstCursor(j) \in Cursors
         /\ j.dir = "forward"  => 0 <= FirstCursor(j)
         /\ j.dir = "backward" => FirstCursor(j) <= MaxBlock
BY ConstantTypes DEF FirstCursor, Job, Cursors, Blocks, Directions

LEMMA BatchType ==
  ASSUME NEW j \in Job, ~Exhausted(j),
         j.dir = "forward"  => 0 <= j.cur,
         j.dir = "backward" => j.cur <= MaxBlock
  PROVE  /\ CoveredBlock(j) \in Blocks
         /\ BatchFrom(j) \in Nat /\ BatchTo(j) \in Int
         /\ StepCursor(j) \in Cursors
         /\ j.dir = "forward"  => 0 <= StepCursor(j)
         /\ j.dir = "backward" => StepCursor(j) <= MaxBlock
BY ConstantTypes DEF CoveredBlock, BatchFrom, BatchTo, OnChain, StepCursor, Exhausted,
   Job, Cursors, Blocks, Directions

LEMMA OutdateJobsType ==
  ASSUME TypeInv, NEW r \in RangeIds, job' = OutdateJobs(r)
  PROVE  job' \in [Procs -> [RangeIds -> Job]] /\ CursorOK'
<1>1. ASSUME NEW p \in Procs, NEW s \in RangeIds
      PROVE  /\ job'[p][s] \in Job
             /\ job'[p][s].pc = job[p][s].pc   /\ job'[p][s].cur = job[p][s].cur
             /\ job'[p][s].dir = job[p][s].dir /\ job'[p][s].from = job[p][s].from
             /\ job'[p][s].to = job[p][s].to
  <2>1. job[p] \in [RangeIds -> Job] /\ job[p][s] \in Job /\ job[p][r] \in Job
    BY DEF TypeInv, TypeOK
  <2> DEFINE x == IF job[p][r].pc \in {"claim", "walk", "store"}
                  THEN [job[p][r] EXCEPT !.stale = TRUE] ELSE job[p][r]
  <2>2. job'[p] = [job[p] EXCEPT ![r] = x]
    BY DEF OutdateJobs
  <2>3. job'[p][s] = IF s = r THEN x ELSE job[p][s]
    BY <2>1, <2>2
  <2>4. /\ x \in Job
        /\ x.pc = job[p][r].pc   /\ x.cur = job[p][r].cur
        /\ x.dir = job[p][r].dir /\ x.from = job[p][r].from /\ x.to = job[p][r].to
    BY <2>1 DEF Job
  <2> HIDE DEF x
  <2> QED BY <2>1, <2>3, <2>4
<1>2. job' \in [Procs -> [RangeIds -> Job]]
  BY <1>1 DEF OutdateJobs, TypeInv, TypeOK
<1> QED BY <1>1, <1>2 DEF TypeInv, CursorOK, Exhausted

LEMMA PatchedType ==
  ASSUME NEW row \in Row, NEW q \in Req
  PROVE  Patched(row, q) \in Row
<1>1. [Touched(row) EXCEPT !.from = q.from, !.to = q.to,
                           !.dir = IF q.dir = "keep" THEN @ ELSE q.dir] \in Row
  BY DEF Touched, Row, Req, Directions
<1> QED BY <1>1 DEF Patched, TaintedBy, Row

LEMMA TypeInvJob ==
  ASSUME TypeInv, NEW p \in Procs, NEW r \in RangeIds,
         ReadRow(p, r) \/ ReadFails(p, r) \/ ClaimRow(p, r) \/ IndexBatch(p, r)
           \/ Checkpoint(p, r) \/ CloseOut(p, r) \/ Throw(p, r) \/ Start(p, r) \/ Pause(p, r)
  PROVE  TypeInv'
<1> DEFINE j == job[p][r]
<1>j. j \in Job /\ rows[r] \in Row /\ job \in [Procs -> [RangeIds -> Job]]
  BY DEF TypeInv, TypeOK, AddsHaveDirection
<1>u. ASSUME NEW x \in Job, job' = [job EXCEPT ![p][r] = x],
             x.pc \in {"walk", "store"} =>
               /\ x.dir = "forward"  => 0 <= x.cur
               /\ x.dir = "backward" => x.cur <= MaxBlock
               /\ x.pc = "store" => ~Exhausted(x)
      PROVE  job' \in [Procs -> [RangeIds -> Job]] /\ CursorOK'
  BY <1>u, <1>j, JobUpdate DEF TypeInv, CursorOK, Exhausted
<1>1. CASE Start(p, r)
  <2>1. [j EXCEPT !.pc = "select"] \in Job
    BY <1>j DEF Job, JobPc
  <2>2. job' = [job EXCEPT ![p][r] = [j EXCEPT !.pc = "select"]]
    BY <1>1, <1>j DEF Start
  <2> QED BY <2>1, <2>2, <1>u, <1>1, <1>j DEF TypeInv, TypeOK, AddsHaveDirection, Start, Job
<1>2. CASE Pause(p, r)
  <2>1. [j EXCEPT !.abort = TRUE] \in Job
    BY <1>j DEF Job
  <2>2. job' = [job EXCEPT ![p][r] = [j EXCEPT !.abort = TRUE]]
    BY <1>2, <1>j DEF Pause
  <2> QED BY <2>1, <2>2, <1>u, <1>2, <1>j DEF TypeInv, TypeOK, AddsHaveDirection, Pause, Job, CursorOK, Exhausted
<1>3. CASE ReadRow(p, r)
  <2> DEFINE x == IF rows[r].status \in {"absent", "completed"} THEN NoJob
                  ELSE [pc |-> "claim", from |-> rows[r].from, to |-> rows[r].to,
                        dir |-> rows[r].dir, cp |-> rows[r].current, cur |-> 0,
                        last |-> NoBlock, abort |-> j.abort, stale |-> FALSE]
  <2>1. x \in Job /\ x.pc \notin {"walk", "store"}
    BY <1>j, ConstantTypes DEF Job, JobPc, Row, Cursors, NoJob
  <2>2. job' = [job EXCEPT ![p][r] = x]
    BY <1>3 DEF ReadRow
  <2> QED BY <2>1, <2>2, <1>u, <1>3 DEF TypeInv, TypeOK, AddsHaveDirection, ReadRow
<1>4. CASE ReadFails(p, r)
  <2> DEFINE x == [j EXCEPT !.pc = "leaked"]
  <2>1. x \in Job /\ x.pc = "leaked"
    BY <1>j DEF Job, JobPc
  <2>2. job' = [job EXCEPT ![p][r] = x]
    BY <1>4, <1>j DEF ReadFails
  <2> QED BY <2>1, <2>2, <1>u, <1>4 DEF TypeInv, TypeOK, AddsHaveDirection, ReadFails
<1>5. CASE ClaimRow(p, r)
  <2> DEFINE x == [j EXCEPT !.pc = "walk", !.cur = FirstCursor(j)]
  <2>1. x \in Job /\ x.pc = "walk" /\ x.dir = j.dir /\ x.cur = FirstCursor(j)
    BY <1>j, FirstCursorType DEF Job, JobPc
  <2>2. job' = [job EXCEPT ![p][r] = x]
    BY <1>5 DEF ClaimRow
  <2>3. rows' \in [RangeIds -> Row]
    BY <1>5, <1>j DEF TypeInv, TypeOK, AddsHaveDirection, ClaimRow, Touched, Row, RowStatus
  <2> QED BY <2>1, <2>2, <2>3, <1>j, FirstCursorType, <1>u, <1>5 DEF TypeInv, TypeOK, AddsHaveDirection, ClaimRow
<1>6. CASE IndexBatch(p, r)
  <2> DEFINE x == [j EXCEPT !.pc = "store", !.last = CoveredBlock(j)]
  <2>0. /\ j.pc = "walk" /\ ~Exhausted(j)
        /\ j.dir = "forward"  => 0 <= j.cur
        /\ j.dir = "backward" => j.cur <= MaxBlock
    BY <1>6 DEF IndexBatch, TypeInv, CursorOK
  <2>1. x \in Job /\ x.dir = j.dir /\ x.cur = j.cur /\ (Exhausted(x) <=> Exhausted(j))
    BY <2>0, <1>j, BatchType DEF Job, JobPc, Exhausted
  <2>2. job' = [job EXCEPT ![p][r] = x]
    BY <1>6 DEF IndexBatch
  <2>3. indexed' \subseteq 0..head
    BY <1>6, <1>j, <2>0, BatchType, ConstantTypes DEF IndexBatch, TypeInv, TypeOK, AddsHaveDirection, OnChain, Blocks
  <2> QED BY <2>0, <2>1, <2>2, <2>3, <1>u, <1>6 DEF TypeInv, TypeOK, AddsHaveDirection, IndexBatch
<1>7. CASE Checkpoint(p, r)
  <2> DEFINE x == [j EXCEPT !.pc = "walk", !.cur = StepCursor(j)]
  <2>0. /\ j.pc = "store" /\ ~Exhausted(j)
        /\ j.dir = "forward"  => 0 <= j.cur
        /\ j.dir = "backward" => j.cur <= MaxBlock
    BY <1>7 DEF Checkpoint, TypeInv, CursorOK
  <2>1. x \in Job /\ x.pc = "walk" /\ x.dir = j.dir /\ x.cur = StepCursor(j)
    BY <2>0, <1>j, BatchType DEF Job, JobPc
  <2>2. job' = [job EXCEPT ![p][r] = x]
    BY <1>7 DEF Checkpoint
  <2>3. rows' \in [RangeIds -> Row]
    BY <1>7, <1>j DEF TypeInv, TypeOK, AddsHaveDirection, Checkpoint, IfIndexing, TaintedBy, Touched, Row, RowStatus, Job
  <2> QED BY <2>0, <2>1, <2>2, <2>3, <1>j, BatchType, <1>u, <1>7 DEF TypeInv, TypeOK, AddsHaveDirection, Checkpoint
<1>8. CASE CloseOut(p, r)
  <2>1. rows' \in [RangeIds -> Row]
    BY <1>8, <1>j, ConstantTypes DEF TypeInv, TypeOK, AddsHaveDirection, CloseOut, IfIndexing, TaintedBy, Touched, Row, RowStatus,
       Job, AbortCheckpoint, EndBlock
  <2> QED BY <2>1, <1>u, <1>8, ConstantTypes DEF TypeInv, TypeOK, AddsHaveDirection, CloseOut, NoJob
<1>9. CASE Throw(p, r)
  <2>1. rows' \in [RangeIds -> Row]
    <3>1. [Touched(rows[r]) EXCEPT !.status = "error"] \in Row
      BY <1>j DEF Touched, Row, RowStatus
    <3>2. CASE UNCHANGED rows
      BY <3>2 DEF TypeInv, TypeOK, AddsHaveDirection
    <3>3. CASE IfIndexing(r, [Touched(rows[r]) EXCEPT !.status = "error"])
      BY <3>1, <3>3 DEF TypeInv, TypeOK, AddsHaveDirection, IfIndexing
    <3> QED BY <1>9, <3>2, <3>3 DEF Throw
  <2>2. indexed' \subseteq 0..head
    <3>1. CASE UNCHANGED indexed
      BY <3>1 DEF TypeInv, TypeOK, AddsHaveDirection
    <3>2. CASE ~UNCHANGED indexed
      <4>1. PICK b \in BatchFrom(j)..BatchTo(j) :
              j.pc = "walk" /\ ~Exhausted(j) /\ indexed' = indexed \cup OnChain(BatchFrom(j), b)
        BY <1>9, <3>2 DEF Throw
      <4>2. BatchFrom(j) \in Nat /\ BatchTo(j) \in Int
        BY <4>1, <1>j, BatchType DEF TypeInv, CursorOK
      <4>3. head \in Int /\ indexed \subseteq 0..head
        BY ConstantTypes DEF TypeInv, TypeOK, Blocks
      <4>4. OnChain(BatchFrom(j), b) \subseteq 0..head
        BY <4>2, <4>3 DEF OnChain
      <4>5. indexed' = indexed \cup OnChain(BatchFrom(j), b) /\ head' = head
        BY <1>9, <4>1 DEF Throw
      <4> QED BY <4>3, <4>4, <4>5
    <3> QED BY <3>1, <3>2
  <2> QED BY <2>1, <2>2, <1>u, <1>9, ConstantTypes DEF TypeInv, TypeOK, AddsHaveDirection, Throw, NoJob
<1> QED BY <1>1, <1>2, <1>3, <1>4, <1>5, <1>6, <1>7, <1>8, <1>9

LEMMA TypeInvRequest ==
  ASSUME TypeInv, NEW h \in Handlers, RequestStep(h)
  PROVE  TypeInv'
<1> DEFINE q == req[h]
<1>1. /\ req \in [Handlers -> Req] /\ rows \in [RangeIds -> Row]
      /\ q \in Req /\ q.id \in RangeIds /\ rows[q.id] \in Row
  BY DEF TypeInv, TypeOK, Req
<1>2. NoReq \in Req /\ NoReq.kind \notin {"add", "readd"}
  BY ConstantTypes DEF NoReq
<1>u. ASSUME NEW x \in Req, req' = [req EXCEPT ![h] = x], UNCHANGED <<head, indexed, job, up>>,
             x.kind \in {"add", "readd"} => x.dir \in Directions,
             rows' \in [RangeIds -> Row]
      PROVE  TypeInv'
  BY <1>u, <1>1 DEF TypeInv, TypeOK, CursorOK, Exhausted, AddsHaveDirection
<1>o. ASSUME NEW r \in RangeIds, job' = OutdateJobs(r), req' = OutdateReqs(r, [req EXCEPT ![h] = NoReq]),
             UNCHANGED <<head, indexed, up>>, rows' \in [RangeIds -> Row]
      PROVE  TypeInv'
  <2>1. job' \in [Procs -> [RangeIds -> Job]] /\ CursorOK'
    BY <1>o, OutdateJobsType
  <2>2. req' \in [Handlers -> Req] /\ AddsHaveDirection'
    BY <1>o, <1>1, <1>2 DEF OutdateReqs, Req, TypeInv, AddsHaveDirection
  <2> QED BY <1>o, <2>1, <2>2 DEF TypeInv, TypeOK
<1>3. CASE AddBegin(h)
  <2>1. PICK f \in AddRequests :
          req' = [req EXCEPT ![h] =
               [kind |-> "add", id |-> NextRangeId, from |-> f.from,
                to |-> IF f.to > head THEN head ELSE f.to, dir |-> f.dir, stale |-> FALSE]]
    BY <1>3 DEF AddBegin
  <2>2. f \in Frames /\ NextRangeId \in RangeIds /\ head \in Blocks
    BY <1>3, ActorsAssumption DEF AddBegin, TypeInv, TypeOK
  <2> DEFINE x == [kind |-> "add", id |-> NextRangeId, from |-> f.from,
                   to |-> IF f.to > head THEN head ELSE f.to, dir |-> f.dir, stale |-> FALSE]
  <2>3. x \in Req /\ x.dir \in Directions
    BY <2>2 DEF Frames, Req, ReqKind
  <2> QED BY <1>3, <1>1, <1>u, <2>1, <2>3 DEF AddBegin
<1>4. CASE AddInsert(h)
  <2> DEFINE row   == [from |-> q.from, to |-> q.to, dir |-> q.dir, current |-> NoBlock,
                       status |-> "pending", fresh |-> TRUE, tainted |-> FALSE]
             again == [q EXCEPT !.kind = "readd", !.id = NextRangeId]
  <2>1. q.dir \in Directions
    BY <1>4 DEF AddInsert, TypeInv, AddsHaveDirection
  <2>2. row \in Row
    BY <2>1, <1>1 DEF Req, Row, RowStatus
  <2>3. CASE UNCHANGED rows /\ NextRangeId \in RangeIds /\ req' = [req EXCEPT ![h] = again]
    <3>1. again \in Req /\ again.dir \in Directions
      BY <1>1, <2>1, <2>3 DEF Req, ReqKind
    <3> QED BY <1>4, <1>1, <1>u, <2>3, <3>1 DEF AddInsert
  <2>4. CASE req' = [req EXCEPT ![h] = NoReq] /\ (UNCHANGED rows \/ rows' = [rows EXCEPT ![q.id] = row])
    BY <1>4, <1>1, <1>2, <1>u, <2>2, <2>4 DEF AddInsert
  <2> QED BY <1>4, <2>3, <2>4 DEF AddInsert
<1>5. ASSUME NEW r \in RangeIds, PatchBegin(h, r)
      PROVE  TypeInv'
  <2>1. PICK f \in PatchRequests \cup {[from |-> rows[r].from, to |-> rows[r].to, dir |-> "keep"]} :
          req' = [req EXCEPT ![h] = [kind |-> "patch", id |-> r, from |-> f.from,
                                     to |-> f.to, dir |-> f.dir, stale |-> FALSE]]
    BY <1>5 DEF PatchBegin
  <2>2. f.from \in Blocks /\ f.to \in Blocks /\ f.dir \in Directions \cup {"keep"}
    BY <1>1, ActorsAssumption DEF Frames, Row
  <2>3. [kind |-> "patch", id |-> r, from |-> f.from,
         to |-> f.to, dir |-> f.dir, stale |-> FALSE] \in Req
    BY <2>2 DEF Req, ReqKind
  <2> QED BY <1>5, <1>1, <1>u, <2>1, <2>3 DEF PatchBegin
<1>6. CASE PatchWrite(h)
  <2>1. q.kind = "patch" /\ Patched(rows[q.id], q) \in Row
    BY <1>6, <1>1, PatchedType DEF PatchWrite
  <2>2. rows' \in [RangeIds -> Row]
    BY <1>6, <1>1, <2>1 DEF PatchWrite
  <2> QED BY <1>6, <1>1, <1>2, <1>u, <1>o, <2>2 DEF PatchWrite
<1>7. ASSUME NEW r \in RangeIds, DeleteBegin(h, r) \/ FlipBegin(h, r)
      PROVE  TypeInv'
  <2>1. /\ [NoReq EXCEPT !.kind = "delete", !.id = r] \in Req
        /\ [NoReq EXCEPT !.kind = "flip", !.id = r] \in Req
    BY ConstantTypes DEF NoReq, Req, ReqKind, Blocks, Directions
  <2> QED BY <1>7, <1>1, <1>u, <2>1 DEF DeleteBegin, FlipBegin, NoReq
<1>8. CASE DeleteWrite(h)
  BY <1>8, <1>1, <1>o, ConstantTypes DEF DeleteWrite
<1>9. CASE FlipCheck(h)
  <2>1. [q EXCEPT !.kind = "flipping"] \in Req
    BY <1>1 DEF Req, ReqKind
  <2>2. UNCHANGED <<head, indexed, rows, job, up>> /\ rows' \in [RangeIds -> Row]
    BY <1>9, <1>1 DEF FlipCheck
  <2>3. CASE req' = [req EXCEPT ![h] = NoReq]
    BY <1>2, <1>u, <2>2, <2>3
  <2>4. CASE req' = [req EXCEPT ![h] = [q EXCEPT !.kind = "flipping"]]
    BY <1>1, <1>u, <2>1, <2>2, <2>4 DEF Req
  <2> QED BY <1>9, <2>3, <2>4 DEF FlipCheck
<1>10. CASE FlipWrite(h)
  <2>1. TaintedBy(q.stale, [Touched(rows[q.id]) EXCEPT !.status = "completed"]) \in Row
    BY <1>1 DEF TaintedBy, Touched, Row, RowStatus
  <2>2. rows' \in [RangeIds -> Row]
    BY <1>10, <1>1, <2>1 DEF FlipWrite
  <2> QED BY <1>10, <1>1, <1>2, <1>u, <2>2 DEF FlipWrite
<1> QED BY <1>3, <1>4, <1>5, <1>6, <1>7, <1>8, <1>9, <1>10 DEF RequestStep

LEMMA TypeInvEnvironment ==
  ASSUME TypeInv,
         \/ \E p \in Procs : Crash(p) \/ Boot(p) \/ BootUnreconciled(p)
         \/ \E r \in RangeIds : Age(r)
         \/ NewBlock
  PROVE  TypeInv'
<1>1. ASSUME NEW p \in Procs, Crash(p)
      PROVE  TypeInv'
  <2>1. job' \in [Procs -> [RangeIds -> Job]] /\ CursorOK'
    BY <1>1, ConstantTypes DEF Crash, TypeInv, TypeOK, CursorOK, NoJob, Exhausted
  <2>2. req' \in [Handlers -> Req] /\ AddsHaveDirection'
    BY <1>1, ConstantTypes DEF Crash, TypeInv, TypeOK, AddsHaveDirection, NoReq
  <2> QED BY <1>1, <2>1, <2>2 DEF Crash, TypeInv, TypeOK
<1>2. ASSUME NEW p \in Procs, Boot(p)
      PROVE  TypeInv'
  <2>1. \A r \in RangeIds : Reconciled(rows[r]) \in Row
    BY DEF TypeInv, TypeOK, Reconciled, Touched, Row, RowStatus
  <2> QED BY <1>2, <2>1 DEF Boot, TypeInv, TypeOK, CursorOK, Exhausted, AddsHaveDirection
<1>3. ASSUME NEW p \in Procs, BootUnreconciled(p)
      PROVE  TypeInv'
  BY <1>3 DEF BootUnreconciled, TypeInv, TypeOK, CursorOK, Exhausted, AddsHaveDirection
<1>4. ASSUME NEW r \in RangeIds, Age(r)
      PROVE  TypeInv'
  <2>1. rows' \in [RangeIds -> Row]
    BY <1>4 DEF Age, TypeInv, TypeOK, Row
  <2> QED BY <1>4, <2>1 DEF Age, TypeInv, TypeOK, CursorOK, Exhausted, AddsHaveDirection
<1>5. CASE NewBlock
  BY <1>5, ConstantTypes DEF NewBlock, TypeInv, TypeOK, CursorOK, Exhausted, AddsHaveDirection, Blocks
<1> QED BY <1>1, <1>2, <1>3, <1>4, <1>5

LEMMA TypeInvStep == TypeInv /\ [Next]_vars => TypeInv'
<1> SUFFICES ASSUME TypeInv, [Next]_vars PROVE TypeInv'
  OBVIOUS
<1>1. CASE UNCHANGED vars
  BY <1>1 DEF vars, TypeInv, TypeOK, CursorOK, Exhausted, AddsHaveDirection
<1>2. CASE Next
  BY <1>2, TypeInvJob, TypeInvRequest, TypeInvEnvironment DEF Next, JobStep, OperatorStep, Resume
<1> QED BY <1>1, <1>2

\* Every variable keeps its type: in particular a checkpoint is always a block of
\* the chain or NULL, and a cursor never leaves its window by more than a batch.
THEOREM TypeCorrect == Spec => []TypeOK
<1>1. TypeInv => TypeOK
  BY DEF TypeInv
<1> QED BY <1>1, TypeInvInit, TypeInvStep, PTL DEF Spec

-----------------------------------------------------------------------------
(* What walks and requests know of their rows.                              *)

LEMMA TypesOf ==
  ASSUME TypeInv
  PROVE  /\ head \in Int /\ rows \in [RangeIds -> Row] /\ req \in [Handlers -> Req]
         /\ job \in [Procs -> [RangeIds -> Job]]
         /\ \A r \in RangeIds : rows[r] \in Row
         /\ \A p \in Procs, r \in RangeIds : job[p][r] \in Job
         /\ \A h \in Handlers : req[h] \in Req /\ req[h].id \in RangeIds
BY ConstantTypes DEF TypeInv, TypeOK, Blocks, Req

-----------------------------------------------------------------------------
(* Windows, checkpoints and cursors.                                        *)

\* What a walk starts with: everything behind its first cursor is behind the
\* checkpoint it read.
LEMMA BehindFirstCursor ==
  ASSUME NEW j \in Job
  PROVE  Behind(j, FirstCursor(j)) \subseteq Reach(j, j.cp)
BY ConstantTypes DEF Behind, FirstCursor, Reach, Span, Job, Blocks, Directions

\* One batch closes the gap between the old cursor and the next, up to the
\* covered block, as long as the window is within the chain.
LEMMA BatchCloses ==
  ASSUME TypeInv, NEW j \in Job, ~Exhausted(j), j.to <= head
  PROVE  LET stored == Behind(j, j.cur) \cup OnChain(BatchFrom(j), BatchTo(j)) IN
         /\ Behind(j, StepCursor(j)) \subseteq stored
         /\ Reach(j, CoveredBlock(j)) \subseteq stored
<1>1. head \in Int /\ BatchSize \in Nat /\ BatchSize > 0
  BY TypesOf, ConstantTypes
<1>2. CASE j.dir = "forward"
  BY <1>1, <1>2 DEF Behind, StepCursor, Reach, CoveredBlock, BatchFrom, BatchTo, OnChain, Span,
     Exhausted, Job, Blocks, Cursors
<1>3. CASE j.dir = "backward"
  BY <1>1, <1>3 DEF Behind, StepCursor, Reach, CoveredBlock, BatchFrom, BatchTo, OnChain, Span,
     Exhausted, Job, Blocks, Cursors
<1> QED BY <1>2, <1>3 DEF Job, Directions

LEMMA BehindExhausted ==
  ASSUME NEW j \in Job, Exhausted(j)
  PROVE  Span(j) \subseteq Behind(j, j.cur)
BY ConstantTypes DEF Behind, Span, Exhausted, Job, Blocks, Cursors, Directions

LEMMA ReachInSpan == ASSUME NEW f, NEW c PROVE Reach(f, c) \subseteq Span(f)
BY DEF Reach

\* Reach and Span depend on the frame alone.
LEMMA FrameDecides ==
  ASSUME NEW f, NEW g, SameFrame(f, g), NEW c
  PROVE  Span(f) = Span(g) /\ Reach(f, c) = Reach(g, c)
BY DEF SameFrame, Span, Reach

\* A window whose checkpoint is at its end is walked.
LEMMA AtEndWalked ==
  ASSUME NEW row \in Row, AtEnd(row)
  PROVE  Span(row) \subseteq Walked(row)
BY DEF AtEnd, Walked, Reach, Span, Row, Blocks, Directions

-----------------------------------------------------------------------------
(* Steps that keep the frame of a row.                                      *)

\* If there was a row r it is still there, with its frame, and as tainted as before.
RowKept(r) ==
  Exists(r) => /\ Exists(r)'
               /\ SameFrame(rows[r], rows'[r])
               /\ rows[r].tainted => rows'[r].tainted

LEMMA UnchangedRowKept ==
  ASSUME NEW r \in RangeIds, rows'[r] = rows[r]
  PROVE  RowKept(r)
BY DEF RowKept, Exists, SameFrame

LEMMA RowSoundGrows ==
  ASSUME NEW r \in RangeIds, RowSound(r), rows'[r] = rows[r], indexed \subseteq indexed',
         head \in Int, head' \in Int, head <= head', rows[r] \in Row
  PROVE  RowSound(r)'
BY DEF RowSound, Exists, Row, Blocks

LEMMA JobSoundKept ==
  ASSUME NEW p \in Procs, NEW r \in RangeIds, JobSound(p, r), job'[p][r] = job[p][r],
         RowKept(r), indexed \subseteq indexed'
  PROVE  JobSound(p, r)'
<1>1. \A f : Exists(r) /\ SameFrame(f, rows[r]) => SameFrame(f, rows'[r])
  BY DEF RowKept, SameFrame
<1> QED BY <1>1 DEF JobSound, Held, RowKept

LEMMA ReqSoundKept ==
  ASSUME NEW h \in Handlers, ReqSound(h), req'[h] = req[h], RowKept(req[h].id),
         indexed \subseteq indexed', head \in Int, head' \in Int, head <= head', req[h] \in Req
  PROVE  ReqSound(h)'
<1>1. Exists(req[h].id) => Span(rows'[req[h].id]) = Span(rows[req[h].id])
  BY DEF RowKept, SameFrame, Span
<1> QED BY <1>1 DEF ReqSound, RowKept, Req, Blocks

-----------------------------------------------------------------------------
(* The walk.                                                                *)

\* A step of one walk: it rewrites one job and at most its row.
LEMMA OneJobSound ==
  ASSUME TypeInv, Sound, NEW p \in Procs, NEW r \in RangeIds, NEW x,
         job' = [job EXCEPT ![p][r] = x], UNCHANGED <<head, req>>, indexed \subseteq indexed',
         \A s \in RangeIds : s # r => rows'[s] = rows[s],
         RowKept(r), RowSound(r)', JobSound(p, r)'
  PROVE  Sound'
<1>0. \A s \in RangeIds : RowKept(s)
  BY UnchangedRowKept
<1>1. ASSUME NEW s \in RangeIds PROVE RowSound(s)'
  <2>1. CASE s # r
    BY <2>1, TypesOf, RowSoundGrows DEF Sound
  <2> QED BY <2>1
<1>2. ASSUME NEW q \in Procs, NEW s \in RangeIds PROVE JobSound(q, s)'
  <2>1. CASE q # p \/ s # r
    <3>1. job'[q][s] = job[q][s]
      BY <2>1, TypesOf
    <3> QED BY <3>1, <1>0, JobSoundKept DEF Sound
  <2> QED BY <2>1
<1>3. ASSUME NEW h \in Handlers PROVE ReqSound(h)'
  BY <1>0, TypesOf, ReqSoundKept DEF Sound
<1> QED BY <1>1, <1>2, <1>3 DEF Sound

\* A walk's step that leaves the rows alone.
LEMMA RowsLeftAlone ==
  ASSUME TypeInv, Sound, NEW p \in Procs, NEW r \in RangeIds, NEW x,
         job' = [job EXCEPT ![p][r] = x], UNCHANGED <<head, req, rows>>, indexed \subseteq indexed',
         JobSound(p, r)'
  PROVE  Sound'
<1>1. RowKept(r) /\ \A s \in RangeIds : rows'[s] = rows[s]
  BY UnchangedRowKept
<1>2. RowSound(r)'
  BY <1>1, TypesOf, RowSoundGrows DEF Sound
<1> QED BY <1>1, <1>2, OneJobSound

LEMMA StartSound ==
  ASSUME IInv, NEW p \in Procs, NEW r \in RangeIds, Start(p, r) \/ ReadFails(p, r) \/ Pause(p, r)
  PROVE  Sound'
<1> DEFINE j == job[p][r]
<1>1. j \in Job /\ TypeInv /\ Sound
  BY TypesOf DEF IInv
<1>2. CASE Start(p, r)
  <2> DEFINE x == [j EXCEPT !.pc = "select"]
  <2>1. job' = [job EXCEPT ![p][r] = x] /\ UNCHANGED <<head, req, rows, indexed>>
    BY <1>2, <1>1, TypesOf DEF Start
  <2>2. job'[p][r].pc = "select"
    BY <2>1, <1>1, TypesOf DEF Job
  <2> QED BY <1>1, <2>1, <2>2, RowsLeftAlone DEF JobSound, Held
<1>3. CASE ReadFails(p, r)
  <2> DEFINE x == [j EXCEPT !.pc = "leaked"]
  <2>1. job' = [job EXCEPT ![p][r] = x] /\ UNCHANGED <<head, req, rows, indexed>>
    BY <1>3, <1>1, TypesOf DEF ReadFails
  <2>2. job'[p][r].pc = "leaked"
    BY <2>1, <1>1, TypesOf DEF Job
  <2> QED BY <1>1, <2>1, <2>2, RowsLeftAlone DEF JobSound, Held
<1>4. CASE Pause(p, r)
  <2> DEFINE x == [j EXCEPT !.abort = TRUE]
  <2>1. job' = [job EXCEPT ![p][r] = x] /\ UNCHANGED <<head, req, rows, indexed>>
    BY <1>4, <1>1, TypesOf DEF Pause
  <2>2. /\ job'[p][r].pc = j.pc       /\ job'[p][r].stale = j.stale
        /\ job'[p][r].from = j.from   /\ job'[p][r].to = j.to /\ job'[p][r].dir = j.dir
        /\ job'[p][r].cp = j.cp       /\ job'[p][r].cur = j.cur
        /\ job'[p][r].last = j.last
    BY <2>1, <1>1, TypesOf DEF Job
  <2>3. JobSound(p, r)
    BY <1>1 DEF Sound
  <2>4. JobSound(p, r)'
    BY <2>1, <2>2, <2>3 DEF JobSound, Held, Exists, SameFrame, Reach, Behind, Span, StepCursor
  <2> QED BY <1>1, <2>1, <2>4, RowsLeftAlone
<1> QED BY <1>2, <1>3, <1>4

LEMMA ReadRowSound ==
  ASSUME IInv, NEW p \in Procs, NEW r \in RangeIds, ReadRow(p, r)
  PROVE  Sound'
<1> DEFINE row == rows[r]
           x   == IF row.status \in {"absent", "completed"} THEN NoJob
                  ELSE [pc |-> "claim", from |-> row.from, to |-> row.to, dir |-> row.dir,
                        cp |-> row.current, cur |-> 0, last |-> NoBlock,
                        abort |-> job[p][r].abort, stale |-> FALSE]
<1>1. TypeInv /\ Sound /\ RowSound(r) /\ row \in Row
  BY TypesOf DEF IInv, Sound
<1>2. job' = [job EXCEPT ![p][r] = x] /\ UNCHANGED <<head, req, rows, indexed>>
  BY DEF ReadRow
<1>3. job'[p][r] = x
  BY <1>1, <1>2, TypesOf
<1>4. JobSound(p, r)'
  <2>1. CASE row.status \in {"absent", "completed"}
    BY <1>3, <2>1 DEF JobSound, Held, NoJob
  <2>2. CASE row.status \notin {"absent", "completed"}
    <3>1. /\ x.pc = "claim" /\ x.cp = row.current /\ x.last = NoBlock /\ SameFrame(x, row)
      BY <2>2 DEF SameFrame
    <3>2. Reach(x, x.cp) = Walked(row) /\ Reach(x, x.last) = {}
      <4> HIDE DEF x
      <4>1. Reach(x, row.current) = Reach(row, row.current)
        BY <3>1, FrameDecides
      <4>2. Reach(x, NoBlock) = {}
        BY DEF Reach
      <4> QED BY <3>1, <4>1, <4>2 DEF Walked
    <3> HIDE DEF x
    <3>3. Exists(r)' /\ SameFrame(x, rows'[r]) /\ rows'[r] = rows[r] /\ indexed' = indexed
      BY <1>2, <2>2, <3>1 DEF Exists
    <3>4. ~rows[r].tainted => Walked(row) \subseteq indexed
      BY <1>1, <2>2 DEF RowSound, Exists
    <3> QED BY <1>3, <3>1, <3>2, <3>3, <3>4 DEF JobSound
  <2> QED BY <2>1, <2>2
<1> QED BY <1>1, <1>2, <1>4, RowsLeftAlone

LEMMA ClaimRowSound ==
  ASSUME IInv, NEW p \in Procs, NEW r \in RangeIds, ClaimRow(p, r)
  PROVE  Sound'
<1> DEFINE j == job[p][r]
           x == [j EXCEPT !.pc = "walk", !.cur = FirstCursor(j)]
           n == [Touched(rows[r]) EXCEPT !.status = "indexing"]
<1>1. TypeInv /\ Sound /\ RowSound(r) /\ JobSound(p, r) /\ rows[r] \in Row /\ j \in Job
  BY TypesOf DEF IInv, Sound
<1>2. /\ j.pc = "claim" /\ job' = [job EXCEPT ![p][r] = x] /\ UNCHANGED <<head, req, indexed>>
      /\ rows' = IF Exists(r) THEN [rows EXCEPT ![r] = n] ELSE rows
  BY DEF ClaimRow
<1>3. /\ job'[p][r] = x /\ x.pc = "walk" /\ x.cur = FirstCursor(j)
      /\ x.cp = j.cp /\ x.last = j.last /\ x.stale = j.stale /\ SameFrame(x, j)
  BY <1>1, <1>2, TypesOf DEF Job, SameFrame
<1>4. /\ rows'[r].from = rows[r].from /\ rows'[r].to = rows[r].to /\ rows'[r].dir = rows[r].dir
      /\ rows'[r].current = rows[r].current /\ rows'[r].tainted = rows[r].tainted
      /\ Exists(r) => rows'[r].status = "indexing"
      /\ ~Exists(r) => rows'[r] = rows[r]
      /\ \A s \in RangeIds : s # r => rows'[s] = rows[s]
  BY <1>1, <1>2, TypesOf DEF Touched, Row
<1>5. RowKept(r)
  BY <1>4 DEF RowKept, Exists, SameFrame
<1>6. RowSound(r)'
  BY <1>1, <1>2, <1>4 DEF RowSound, Exists, Walked, Reach, Span
<1>7. JobSound(p, r)'
  <2>1. /\ Reach(x, x.cp) = Reach(j, j.cp) /\ Reach(x, x.last) = Reach(j, j.last)
        /\ Behind(x, x.cur) = Behind(j, FirstCursor(j))
    BY <1>3 DEF SameFrame, Reach, Behind, Span
  <2>2. SameFrame(j, rows[r]) => SameFrame(x, rows'[r])
    BY <1>3, <1>4 DEF SameFrame
  <2> HIDE DEF x
  <2> QED BY <1>1, <1>2, <1>3, <1>4, <1>5, <2>1, <2>2, BehindFirstCursor DEF JobSound, Held, Exists, RowKept
<1> HIDE DEF x
<1> QED BY <1>1, <1>2, <1>4, <1>5, <1>6, <1>7, OneJobSound

LEMMA IndexBatchSound ==
  ASSUME IInv, NEW p \in Procs, NEW r \in RangeIds, IndexBatch(p, r)
  PROVE  Sound'
<1> DEFINE j == job[p][r]
           x == [j EXCEPT !.pc = "store", !.last = CoveredBlock(j)]
<1>1. TypeInv /\ Sound /\ RowSound(r) /\ JobSound(p, r) /\ rows[r] \in Row /\ j \in Job
  BY TypesOf DEF IInv, Sound
<1>2. /\ j.pc = "walk" /\ ~Exhausted(j) /\ job' = [job EXCEPT ![p][r] = x]
      /\ UNCHANGED <<head, req, rows>>
      /\ indexed' = indexed \cup OnChain(BatchFrom(j), BatchTo(j))
  BY DEF IndexBatch
<1>3. /\ job'[p][r] = x /\ x.pc = "store" /\ x.cur = j.cur /\ x.last = CoveredBlock(j)
      /\ x.cp = j.cp /\ x.stale = j.stale /\ SameFrame(x, j)
  BY <1>1, <1>2, TypesOf DEF Job, SameFrame
<1>4. JobSound(p, r)'
  <2>1. /\ Reach(x, x.cp) = Reach(j, j.cp) /\ Reach(x, x.last) = Reach(j, CoveredBlock(j))
        /\ Behind(x, StepCursor(x)) = Behind(j, StepCursor(j))
    BY <1>3 DEF SameFrame, Reach, Behind, Span, StepCursor
  <2>2. SameFrame(j, rows[r]) => SameFrame(x, rows'[r])
    BY <1>2, <1>3 DEF SameFrame
  <2>3. SameFrame(j, rows[r]) /\ Exists(r) /\ ~rows[r].tainted => j.to <= head
    BY <1>1 DEF SameFrame, RowSound
  <2> HIDE DEF x
  <2> QED BY <1>1, <1>2, <1>3, <2>1, <2>2, <2>3, BatchCloses DEF JobSound, Held, Exists
<1> HIDE DEF x
<1> QED BY <1>1, <1>2, <1>4, RowsLeftAlone

LEMMA CheckpointSound ==
  ASSUME IInv, NEW p \in Procs, NEW r \in RangeIds, Checkpoint(p, r)
  PROVE  Sound'
<1> DEFINE j == job[p][r]
           x == [j EXCEPT !.pc = "walk", !.cur = StepCursor(j)]
           n == TaintedBy(j.stale, [Touched(rows[r]) EXCEPT !.current = j.last, !.status = "indexing"])
<1>1. TypeInv /\ Sound /\ RowSound(r) /\ JobSound(p, r) /\ rows[r] \in Row /\ j \in Job
  BY TypesOf DEF IInv, Sound
<1>2. /\ j.pc = "store" /\ job' = [job EXCEPT ![p][r] = x] /\ UNCHANGED <<head, req, indexed>>
      /\ IfIndexing(r, n)
  BY DEF Checkpoint
<1>3. /\ job'[p][r] = x /\ x.pc = "walk" /\ x.cur = StepCursor(j)
      /\ x.cp = j.cp /\ x.last = j.last /\ x.stale = j.stale /\ SameFrame(x, j)
  BY <1>1, <1>2, TypesOf DEF Job, SameFrame
<1>4. /\ n.from = rows[r].from /\ n.to = rows[r].to /\ n.dir = rows[r].dir
      /\ n.status = "indexing" /\ n.current = j.last
      /\ n.tainted = IF j.stale THEN TRUE ELSE rows[r].tainted
  BY <1>1 DEF TaintedBy, Touched, Row
<1>5. /\ rows'[r] = IF rows[r].status = "indexing" THEN n ELSE rows[r]
      /\ \A s \in RangeIds : s # r => rows'[s] = rows[s]
  BY <1>1, <1>2, TypesOf DEF IfIndexing
<1> HIDE DEF n, x
<1>6. RowKept(r)
  BY <1>4, <1>5 DEF RowKept, Exists, SameFrame
<1>7. RowSound(r)'
  <2>1. CASE rows[r].status # "indexing"
    BY <2>1, <1>1, <1>2, <1>5, RowSoundGrows, TypesOf
  <2>2. CASE rows[r].status = "indexing"
    <3>1. rows'[r] = n
      BY <2>2, <1>5
    <3>2. ~n.tainted => ~j.stale /\ ~rows[r].tainted
      BY <1>4
    <3>3. ~n.tainted => SameFrame(n, j)
      BY <1>1, <1>2, <1>4, <3>2 DEF JobSound, Held, SameFrame
    <3>4. ~n.tainted => Walked(n) \subseteq indexed
      BY <1>1, <1>2, <1>4, <3>2, <3>3, FrameDecides DEF JobSound, Held, Walked
    <3> QED BY <2>2, <3>1, <3>2, <3>4, <1>1, <1>2, <1>4 DEF RowSound, Exists
  <2> QED BY <2>1, <2>2
<1>8. JobSound(p, r)'
  <2>1. /\ Reach(x, x.cp) = Reach(j, j.cp) /\ Reach(x, x.last) = Reach(j, j.last)
        /\ Behind(x, x.cur) = Behind(j, StepCursor(j))
    BY <1>3 DEF SameFrame, Reach, Behind, Span
  <2>2. Exists(r) /\ SameFrame(j, rows[r]) => SameFrame(x, rows'[r])
    BY <1>3, <1>6 DEF SameFrame, RowKept
  <2> QED BY <1>1, <1>2, <1>3, <1>6, <2>1, <2>2 DEF JobSound, Held, RowKept
<1> QED BY <1>1, <1>2, <1>5, <1>6, <1>7, <1>8, OneJobSound

LEMMA CloseOutSound ==
  ASSUME IInv, NEW p \in Procs, NEW r \in RangeIds, CloseOut(p, r)
  PROVE  Sound'
<1> DEFINE j == job[p][r]
           paused    == [Touched(rows[r]) EXCEPT
                           !.status  = "paused",
                           !.current = IF AbortCheckpoint(j) = NoBlock THEN @
                                       ELSE AbortCheckpoint(j)]
           completed == [Touched(rows[r]) EXCEPT !.status = "completed", !.current = EndBlock(j)]
           n == TaintedBy(j.stale, IF j.abort THEN paused ELSE completed)
<1>1. TypeInv /\ Sound /\ RowSound(r) /\ JobSound(p, r) /\ rows[r] \in Row /\ j \in Job
  BY TypesOf DEF IInv, Sound
<1>2. /\ j.pc = "walk"
      /\ Exhausted(j) \/ j.abort
      /\ job' = [job EXCEPT ![p][r] = NoJob] /\ UNCHANGED <<head, req, indexed>>
      /\ IfIndexing(r, n)
  BY DEF CloseOut
<1>3. /\ n.from = rows[r].from /\ n.to = rows[r].to /\ n.dir = rows[r].dir
      /\ n.status = IF j.abort THEN "paused" ELSE "completed"
      /\ n.current = IF ~j.abort THEN EndBlock(j)
                     ELSE IF AbortCheckpoint(j) = NoBlock THEN rows[r].current
                     ELSE AbortCheckpoint(j)
      /\ n.tainted = IF j.stale THEN TRUE ELSE rows[r].tainted
  BY <1>1 DEF TaintedBy, Touched, Row
<1>4. /\ rows'[r] = IF rows[r].status = "indexing" THEN n ELSE rows[r]
      /\ \A s \in RangeIds : s # r => rows'[s] = rows[s]
  BY <1>1, <1>2, TypesOf DEF IfIndexing
<1> HIDE DEF n
<1>5. RowKept(r)
  BY <1>3, <1>4 DEF RowKept, Exists, SameFrame
<1>6. RowSound(r)'
  <2>1. CASE rows[r].status # "indexing"
    BY <2>1, <1>1, <1>2, <1>4, RowSoundGrows, TypesOf
  <2>2. CASE rows[r].status = "indexing"
    <3>1. rows'[r] = n
      BY <2>2, <1>4
    <3> SUFFICES ASSUME ~n.tainted
                 PROVE  /\ n.to <= head /\ Walked(n) \subseteq indexed
                        /\ n.status = "completed" => Span(n) \subseteq indexed
      BY <1>2, <1>3, <3>1 DEF RowSound
    <3>2. /\ ~j.stale /\ ~rows[r].tainted /\ SameFrame(n, j) /\ SameFrame(n, rows[r])
          /\ Reach(j, j.cp) \subseteq indexed /\ Reach(j, j.last) \subseteq indexed
          /\ Behind(j, j.cur) \subseteq indexed
      BY <1>1, <1>2, <1>3 DEF JobSound, Held, SameFrame
    <3>3. n.to <= head /\ Walked(rows[r]) \subseteq indexed
      BY <1>1, <1>3, <2>2, <3>2 DEF RowSound, Exists
    <3>4. CASE j.abort
      <4>1. Walked(n) \in {Reach(j, j.cp), Reach(j, j.last), Walked(rows[r])}
        BY <1>3, <3>2, <3>4, FrameDecides DEF AbortCheckpoint, Walked
      <4> QED BY <1>3, <3>2, <3>3, <3>4, <4>1
    <3>5. CASE ~j.abort
      <4>1. Span(j) \subseteq indexed
        BY <1>1, <1>2, <3>2, <3>5, BehindExhausted
      <4>2. Span(n) = Span(j) /\ Walked(n) \subseteq Span(n)
        BY <3>2, FrameDecides, ReachInSpan DEF Walked
      <4> QED BY <3>3, <4>1, <4>2
    <3> QED BY <3>4, <3>5
  <2> QED BY <2>1, <2>2
<1>7. JobSound(p, r)'
  BY <1>1, <1>2, TypesOf DEF JobSound, Held, NoJob
<1> QED BY <1>1, <1>2, <1>4, <1>5, <1>6, <1>7, OneJobSound

LEMMA ThrowSound ==
  ASSUME IInv, NEW p \in Procs, NEW r \in RangeIds, Throw(p, r)
  PROVE  Sound'
<1> DEFINE n == [Touched(rows[r]) EXCEPT !.status = "error"]
<1>1. TypeInv /\ Sound /\ RowSound(r) /\ rows[r] \in Row
  BY TypesOf DEF IInv, Sound
<1>2. /\ job' = [job EXCEPT ![p][r] = NoJob] /\ UNCHANGED <<head, req>>
      /\ indexed \subseteq indexed'
      /\ IfIndexing(r, n) \/ UNCHANGED rows
  BY DEF Throw
<1>3. /\ rows'[r] = rows[r] \/ (rows[r].status = "indexing" /\ rows'[r] = n)
      /\ \A s \in RangeIds : s # r => rows'[s] = rows[s]
  BY <1>1, <1>2, TypesOf DEF IfIndexing
<1>4. /\ n.from = rows[r].from /\ n.to = rows[r].to /\ n.dir = rows[r].dir
      /\ n.current = rows[r].current /\ n.tainted = rows[r].tainted /\ n.status = "error"
  BY <1>1 DEF Touched, Row
<1> HIDE DEF n
<1>5. RowKept(r)
  BY <1>3, <1>4 DEF RowKept, Exists, SameFrame
<1>6. RowSound(r)'
  <2>1. CASE rows'[r] = rows[r]
    BY <2>1, <1>1, <1>2, RowSoundGrows, TypesOf
  <2>2. CASE rows[r].status = "indexing" /\ rows'[r] = n
    <3>1. Walked(n) = Walked(rows[r])
      BY <1>4 DEF Walked, Reach, Span
    <3> QED BY <1>1, <1>2, <1>4, <2>2, <3>1 DEF RowSound, Exists
  <2> QED BY <1>3, <2>1, <2>2
<1>7. JobSound(p, r)'
  BY <1>1, <1>2, TypesOf DEF JobSound, Held, NoJob
<1> QED BY <1>1, <1>2, <1>3, <1>5, <1>6, <1>7, OneJobSound

-----------------------------------------------------------------------------
(* Admin requests.                                                          *)

\* A step of one request that keeps the frame of every row.
LEMMA OneReqSound ==
  ASSUME TypeInv, Sound, NEW h \in Handlers, NEW r \in RangeIds, NEW x,
         req' = [req EXCEPT ![h] = x], UNCHANGED <<head, indexed, job>>,
         \A s \in RangeIds : s # r => rows'[s] = rows[s],
         RowKept(r), RowSound(r)', ReqSound(h)'
  PROVE  Sound'
<1>0. \A s \in RangeIds : RowKept(s)
  BY UnchangedRowKept
<1>1. ASSUME NEW s \in RangeIds PROVE RowSound(s)'
  <2>1. CASE s # r
    BY <2>1, TypesOf, RowSoundGrows DEF Sound
  <2> QED BY <2>1
<1>2. ASSUME NEW q \in Procs, NEW s \in RangeIds PROVE JobSound(q, s)'
  BY <1>0, JobSoundKept DEF Sound
<1>3. ASSUME NEW g \in Handlers PROVE ReqSound(g)'
  <2>1. CASE g # h
    <3>1. req'[g] = req[g]
      BY <2>1, TypesOf
    <3> QED BY <3>1, <1>0, TypesOf, ReqSoundKept DEF Sound
  <2> QED BY <2>1
<1> QED BY <1>1, <1>2, <1>3 DEF Sound

\* A request's step that leaves the rows alone.
LEMMA OnlyReqSound ==
  ASSUME TypeInv, Sound, NEW h \in Handlers, NEW x,
         req' = [req EXCEPT ![h] = x], UNCHANGED <<head, indexed, job, rows>>, ReqSound(h)'
  PROVE  Sound'
<1>1. PICK r \in RangeIds : TRUE
  BY ConstantTypes DEF RangeIds
<1>2. RowKept(r) /\ \A s \in RangeIds : rows'[s] = rows[s]
  BY UnchangedRowKept
<1>3. RowSound(r)'
  BY <1>2, TypesOf, RowSoundGrows DEF Sound
<1> QED BY <1>2, <1>3, OneReqSound

\* An edit or a deletion of row r: those who hold its old frame are stale.
LEMMA OutdateSound ==
  ASSUME TypeInv, Sound, NEW h \in Handlers, NEW r \in RangeIds,
         job' = OutdateJobs(r), req' = OutdateReqs(r, [req EXCEPT ![h] = NoReq]),
         UNCHANGED <<head, indexed>>,
         \A s \in RangeIds : s # r => rows'[s] = rows[s],
         RowSound(r)'
  PROVE  Sound'
<1>0. \A s \in RangeIds : s # r => RowKept(s)
  BY UnchangedRowKept
<1>1. ASSUME NEW s \in RangeIds PROVE RowSound(s)'
  <2>1. CASE s # r
    BY <2>1, TypesOf, RowSoundGrows DEF Sound
  <2> QED BY <2>1
<1>2. ASSUME NEW p \in Procs, NEW s \in RangeIds PROVE JobSound(p, s)'
  <2> DEFINE x == IF job[p][r].pc \in {"claim", "walk", "store"}
                  THEN [job[p][r] EXCEPT !.stale = TRUE] ELSE job[p][r]
  <2>1. job'[p][s] = IF s = r THEN x ELSE job[p][s]
    BY TypesOf DEF OutdateJobs
  <2>2. CASE s # r
    BY <2>1, <2>2, <1>0, JobSoundKept DEF Sound
  <2>3. CASE s = r
    <3>1. Held(x) => x.stale
      BY TypesOf DEF Job, Held
    <3> HIDE DEF x
    <3> QED BY <2>1, <2>3, <3>1 DEF JobSound
  <2> QED BY <2>2, <2>3
<1>3. ASSUME NEW g \in Handlers PROVE ReqSound(g)'
  <2> DEFINE q == IF g = h THEN NoReq ELSE req[g]
             x == IF q.kind \in {"flip", "flipping"} /\ q.id = r
                  THEN [q EXCEPT !.stale = TRUE] ELSE q
  <2>1. req'[g] = x /\ q \in Req
    BY TypesOf, ConstantTypes DEF OutdateReqs
  <2>2. /\ x.kind = q.kind /\ x.to = q.to /\ x.id = q.id
        /\ x.kind \in {"flip", "flipping"} /\ ~x.stale => g # h /\ x = req[g] /\ x.id # r
        /\ x.kind \in {"add", "readd"} => g # h
    BY <2>1 DEF Req, NoReq
  <2>3. ReqSound(g) /\ req[g].id \in RangeIds
    BY TypesOf DEF Sound
  <2>4. g # h => q = req[g]
    OBVIOUS
  <2> HIDE DEF x, q
  <2>5. x.kind \in {"add", "readd"} => x.to <= head
    BY <2>2, <2>3, <2>4 DEF ReqSound
  <2>6. x.kind \in {"flip", "flipping"} /\ ~x.stale => rows'[x.id] = rows[x.id]
    BY <2>2, <2>3
  <2>7. x.kind \in {"flip", "flipping"} /\ ~x.stale =>
          /\ Exists(x.id)
          /\ ~rows[x.id].tainted => Span(rows[x.id]) \subseteq indexed
    BY <2>2, <2>3 DEF ReqSound
  <2> QED BY <2>1, <2>5, <2>6, <2>7 DEF ReqSound, Exists
<1> QED BY <1>1, <1>2, <1>3 DEF Sound

LEMMA NoReqSound ==
  ASSUME NEW h \in Handlers, req \in [Handlers -> Req], req' = [req EXCEPT ![h] = NoReq]
  PROVE  ReqSound(h)'
BY DEF ReqSound, NoReq

LEMMA AddSound ==
  ASSUME IInv, TypeInv', NEW h \in Handlers, AddBegin(h) \/ AddInsert(h)
  PROVE  Sound'
<1> DEFINE q == req[h]
<1>1. TypeInv /\ Sound /\ ReqSound(h) /\ q \in Req /\ q.id \in RangeIds /\ head \in Int
  BY TypesOf DEF IInv, Sound
<1>2. CASE AddBegin(h)
  <2>1. PICK f \in AddRequests :
          req' = [req EXCEPT ![h] =
               [kind |-> "add", id |-> NextRangeId, from |-> f.from,
                to |-> IF f.to > head THEN head ELSE f.to, dir |-> f.dir, stale |-> FALSE]]
    BY <1>2 DEF AddBegin
  <2> DEFINE x == [kind |-> "add", id |-> NextRangeId, from |-> f.from,
                   to |-> IF f.to > head THEN head ELSE f.to, dir |-> f.dir, stale |-> FALSE]
  <2>2. f.to \in Int
    BY ActorsAssumption, ConstantTypes DEF Frames, Blocks
  <2>3. x.kind = "add" /\ x.to <= head
    BY <2>2, <1>1
  <2>4. req'[h] = x /\ head' = head
    BY <1>2, <2>1, <1>1, TypesOf DEF AddBegin
  <2> HIDE DEF x
  <2>5. ReqSound(h)'
    BY <2>3, <2>4 DEF ReqSound
  <2> QED BY <1>1, <1>2, <2>1, <2>5, OnlyReqSound DEF AddBegin, x
<1>3. CASE AddInsert(h) /\ Exists(q.id)
  <2>1. PICK x \in {NoReq, [q EXCEPT !.kind = "readd", !.id = NextRangeId]} :
          req' = [req EXCEPT ![h] = x]
    BY <1>3 DEF AddInsert
  <2>2. q.kind \in {"add", "readd"} /\ UNCHANGED <<head, indexed, job, rows>>
    BY <1>3 DEF AddInsert
  <2>3. q.to <= head
    BY <1>1, <2>2 DEF ReqSound
  <2>4. /\ x.kind \notin {"flip", "flipping"}
        /\ x.kind \in {"add", "readd"} => x.to = q.to
    <3>1. CASE x = NoReq
      BY <3>1 DEF NoReq
    <3>2. CASE x = [q EXCEPT !.kind = "readd", !.id = NextRangeId]
      BY <3>2, <1>1 DEF Req
    <3> QED BY <2>1, <3>1, <3>2
  <2>5. req'[h] = x
    BY <2>1, <1>1, TypesOf
  <2>6. ReqSound(h)'
    BY <2>2, <2>3, <2>4, <2>5 DEF ReqSound
  <2> QED BY <1>1, <2>1, <2>2, <2>6, OnlyReqSound
<1>4. CASE AddInsert(h) /\ ~Exists(q.id)
  <2> DEFINE row == [from |-> q.from, to |-> q.to, dir |-> q.dir, current |-> NoBlock,
                     status |-> "pending", fresh |-> TRUE, tainted |-> FALSE]
  <2>0. PICK r \in RangeIds : r = q.id
    BY <1>1
  <2>1. /\ rows' = [rows EXCEPT ![r] = row] /\ req' = [req EXCEPT ![h] = NoReq]
        /\ UNCHANGED <<head, indexed, job>> /\ q.to <= head
    BY <1>1, <1>4, <2>0 DEF AddInsert, ReqSound
  <2>2. rows'[r] = row /\ \A s \in RangeIds : s # r => rows'[s] = rows[s]
    BY <1>1, <2>1, TypesOf
  <2>3. RowKept(r)
    BY <1>4, <2>0 DEF RowKept
  <2>4. RowSound(r)'
    BY <2>1, <2>2 DEF RowSound, Walked, Reach
  <2>5. ReqSound(h)'
    BY <1>1, <2>1, NoReqSound, TypesOf
  <2> QED BY <1>1, <2>1, <2>2, <2>3, <2>4, <2>5, OneReqSound
<1> QED BY <1>2, <1>3, <1>4

\* An edit that leaves a row untainted leaves it sound.
LEMMA PatchedSound ==
  ASSUME IInv, NEW h \in Handlers, NEW r \in RangeIds, r = req[h].id, PatchWrite(h), Exists(r)
  PROVE  RowSound(r)'
<1> DEFINE q   == req[h]
           row == rows[r]
           n   == Patched(row, q)
           new == [Touched(row) EXCEPT !.from = q.from, !.to = q.to,
                                       !.dir = IF q.dir = "keep" THEN @ ELSE q.dir]
<1>1. TypeInv /\ RowSound(r) /\ q \in Req /\ row \in Row
  BY TypesOf DEF IInv, Sound
<1>2. rows'[r] = n /\ UNCHANGED <<head, indexed>>
  BY <1>1, TypesOf DEF PatchWrite
<1>3. /\ new.to = q.to /\ new.current = row.current /\ new.status = row.status
      /\ new.tainted = row.tainted /\ new.from = q.from
  BY <1>1 DEF Touched, Row
<1>4. n = TaintedBy(~(Claims(new) \subseteq Claims(row)) \/ q.to > head, new)
  BY DEF Patched
<1>5. head \in Int /\ q.to \in Int
  BY <1>1, TypesOf, ConstantTypes DEF Req, Blocks
<1>6. new \in Row
  BY <1>1 DEF Touched, Row, Req, Directions
<1> HIDE DEF new
<1>7. /\ n.status = row.status /\ n.current = row.current
      /\ n.tainted = FALSE => n = new /\ ~row.tainted /\ Claims(new) \subseteq Claims(row) /\ q.to <= head
  <2>1. CASE ~(Claims(new) \subseteq Claims(row)) \/ q.to > head
    BY <2>1, <1>3, <1>4, <1>6 DEF TaintedBy, Row
  <2>2. CASE Claims(new) \subseteq Claims(row) /\ ~(q.to > head)
    BY <2>2, <1>3, <1>4, <1>5 DEF TaintedBy
  <2> QED BY <2>1, <2>2
<1> HIDE DEF n
<1>8. ASSUME n.tainted = FALSE
      PROVE  /\ Walked(n) \subseteq indexed
             /\ n.status = "completed" => Span(n) \subseteq indexed
  <2>1. n = new /\ ~row.tainted /\ Claims(new) \subseteq Claims(row)
    BY <1>7, <1>8
  <2>2. /\ Walked(row) \subseteq indexed
        /\ row.status = "completed" => Span(row) \subseteq indexed
        /\ row.status = "pending" => row.current = NoBlock
    BY <1>1, <2>1 DEF RowSound
  <2>3. CASE row.status = "completed"
    BY <2>1, <2>2, <2>3, <1>3, ReachInSpan DEF Claims, Walked
  <2>4. CASE row.status \in {"indexing", "paused", "error"}
    BY <2>1, <2>2, <2>4, <1>3 DEF Claims
  <2>5. CASE row.status = "pending"
    BY <2>1, <2>2, <2>5, <1>3 DEF Walked, Reach
  <2> QED BY <2>3, <2>4, <2>5, <1>1 DEF Row, RowStatus, Exists
<1>9. n.tainted \in BOOLEAN
  BY <1>1, PatchedType DEF n, Row
<1> QED BY <1>1, <1>2, <1>3, <1>7, <1>8, <1>9 DEF RowSound, Exists

LEMMA PatchSound ==
  ASSUME IInv, NEW h \in Handlers, PatchWrite(h)
  PROVE  Sound'
<1> DEFINE q == req[h]
<1>1. PICK r \in RangeIds : r = q.id
  BY TypesOf DEF IInv
<1>2. TypeInv /\ Sound /\ rows[r] \in Row /\ q \in Req /\ UNCHANGED <<head, indexed>>
  BY TypesOf DEF IInv, PatchWrite
<1> DEFINE n == Patched(rows[r], q)
<1>3. CASE ~Exists(r)
  <2>1. UNCHANGED <<rows, job>> /\ req' = [req EXCEPT ![h] = NoReq]
    BY <1>1, <1>3 DEF PatchWrite
  <2>2. ReqSound(h)'
    BY <1>2, <2>1, TypesOf, NoReqSound
  <2> QED BY <1>2, <2>1, <2>2, OnlyReqSound
<1>4. CASE Exists(r)
  <2>1. RowSound(r)'
    BY <1>1, <1>4, PatchedSound
  <2>2. rows'[r] = n /\ \A s \in RangeIds : s # r => rows'[s] = rows[s]
    BY <1>1, <1>2, <1>4, TypesOf DEF PatchWrite
  <2>3. CASE SameFrame(rows[r], n)
    <3>1. UNCHANGED job /\ req' = [req EXCEPT ![h] = NoReq]
      BY <1>1, <1>4, <2>3 DEF PatchWrite
    <3>2. n.status = rows[r].status /\ (rows[r].tainted => n.tainted)
      BY <1>2 DEF Patched, TaintedBy, Touched, Row
    <3>3. RowKept(r)
      BY <1>4, <2>2, <2>3, <3>2 DEF RowKept, Exists
    <3>4. ReqSound(h)'
      BY <1>2, <3>1, TypesOf, NoReqSound
    <3> QED BY <1>2, <2>1, <2>2, <3>1, <3>3, <3>4, OneReqSound
  <2>4. CASE ~SameFrame(rows[r], n)
    <3>1. job' = OutdateJobs(r) /\ req' = OutdateReqs(r, [req EXCEPT ![h] = NoReq])
      BY <1>1, <1>4, <2>4 DEF PatchWrite
    <3> QED BY <1>2, <2>1, <2>2, <3>1, OutdateSound
  <2> QED BY <2>3, <2>4
<1> QED BY <1>3, <1>4

LEMMA DeleteSound ==
  ASSUME IInv, NEW h \in Handlers, DeleteWrite(h)
  PROVE  Sound'
<1>1. PICK r \in RangeIds : r = req[h].id
  BY TypesOf DEF IInv
<1>2. /\ TypeInv /\ Sound /\ UNCHANGED <<head, indexed>>
      /\ job' = OutdateJobs(r) /\ req' = OutdateReqs(r, [req EXCEPT ![h] = NoReq])
      /\ rows' = [rows EXCEPT ![r] = NoRow]
  BY <1>1 DEF IInv, DeleteWrite
<1>3. rows'[r] = NoRow /\ \A s \in RangeIds : s # r => rows'[s] = rows[s]
  BY <1>2, TypesOf
<1>4. RowSound(r)'
  BY <1>3 DEF RowSound, Exists, NoRow
<1> QED BY <1>2, <1>3, <1>4, OutdateSound

\* An edit, a deletion or a flip begins, or a flip is checked.
LEMMA BeginSound ==
  ASSUME IInv, NEW h \in Handlers,
         \/ \E r \in RangeIds : PatchBegin(h, r) \/ DeleteBegin(h, r) \/ FlipBegin(h, r)
         \/ FlipCheck(h)
  PROVE  Sound'
<1>1. TypeInv /\ Sound
  BY DEF IInv
<1>2. ASSUME NEW r \in RangeIds, PatchBegin(h, r) PROVE Sound'
  <2>1. PICK f : req' = [req EXCEPT ![h] = [kind |-> "patch", id |-> r, from |-> f.from,
                                            to |-> f.to, dir |-> f.dir, stale |-> FALSE]]
    BY <1>2 DEF PatchBegin
  <2>2. req'[h].kind = "patch" /\ UNCHANGED <<head, indexed, job, rows>>
    BY <1>1, <1>2, <2>1, TypesOf DEF PatchBegin
  <2>3. ReqSound(h)'
    BY <2>2 DEF ReqSound
  <2> QED BY <1>1, <2>1, <2>2, <2>3, OnlyReqSound
<1>3. ASSUME NEW r \in RangeIds, DeleteBegin(h, r) PROVE Sound'
  <2> DEFINE x == [NoReq EXCEPT !.kind = "delete", !.id = r]
  <2>1. req' = [req EXCEPT ![h] = x] /\ UNCHANGED <<head, indexed, job, rows>>
    BY <1>3 DEF DeleteBegin
  <2>2. req'[h].kind = "delete"
    BY <1>1, <2>1, TypesOf DEF NoReq
  <2>3. ReqSound(h)'
    BY <2>2 DEF ReqSound
  <2> QED BY <1>1, <2>1, <2>3, OnlyReqSound
<1>4. ASSUME NEW r \in RangeIds, FlipBegin(h, r) PROVE Sound'
  <2> DEFINE x == [NoReq EXCEPT !.kind = "flip", !.id = r]
  <2>1. /\ req' = [req EXCEPT ![h] = x] /\ UNCHANGED <<head, indexed, job, rows>>
        /\ Exists(r) /\ AtEnd(rows[r])
    BY <1>4 DEF FlipBegin
  <2>2. req'[h].kind = "flip" /\ req'[h].id = r
    BY <1>1, <2>1, TypesOf DEF NoReq
  <2>3. ~rows[r].tainted => Span(rows[r]) \subseteq indexed
    BY <1>1, <2>1, AtEndWalked, TypesOf DEF Sound, RowSound
  <2>4. ReqSound(h)'
    BY <2>1, <2>2, <2>3 DEF ReqSound, Exists
  <2> QED BY <1>1, <2>1, <2>4, OnlyReqSound
<1>5. CASE FlipCheck(h)
  <2>1. PICK x \in {NoReq, [req[h] EXCEPT !.kind = "flipping"]} :
          /\ req' = [req EXCEPT ![h] = x] /\ UNCHANGED <<head, indexed, job, rows>>
          /\ req[h].kind = "flip"
    BY <1>5 DEF FlipCheck
  <2>2. CASE x = NoReq
    BY <1>1, <2>1, <2>2, TypesOf, NoReqSound, OnlyReqSound
  <2>3. CASE x = [req[h] EXCEPT !.kind = "flipping"]
    <3>1. /\ req'[h].kind = "flipping" /\ req'[h].id = req[h].id
          /\ req'[h].stale = req[h].stale
      BY <1>1, <2>1, <2>3, TypesOf DEF Req
    <3>2. ReqSound(h)
      BY <1>1 DEF Sound
    <3>3. ReqSound(h)'
      BY <2>1, <3>1, <3>2 DEF ReqSound, Exists
    <3> QED BY <1>1, <2>1, <3>3, OnlyReqSound
  <2> QED BY <2>1, <2>2, <2>3
<1> QED BY <1>2, <1>3, <1>4, <1>5

LEMMA FlipSound ==
  ASSUME IInv, NEW h \in Handlers, FlipWrite(h)
  PROVE  Sound'
<1> DEFINE q == req[h]
<1>1. PICK r \in RangeIds : r = q.id
  BY TypesOf DEF IInv
<1>2. /\ TypeInv /\ Sound /\ RowSound(r) /\ rows[r] \in Row /\ ReqSound(h)
      /\ UNCHANGED <<head, indexed, job>> /\ q.kind = "flipping"
      /\ req' = [req EXCEPT ![h] = NoReq]
  BY <1>1, TypesOf DEF IInv, Sound, FlipWrite
<1> DEFINE n == TaintedBy(q.stale, [Touched(rows[r]) EXCEPT !.status = "completed"])
<1>3. rows' = IF Exists(r) THEN [rows EXCEPT ![r] = n] ELSE rows
  BY <1>1 DEF FlipWrite
<1>4. ReqSound(h)'
  BY <1>2, TypesOf, NoReqSound
<1>5. CASE ~Exists(r)
  BY <1>2, <1>3, <1>4, <1>5, OnlyReqSound
<1>6. CASE Exists(r)
  <2>1. /\ n.from = rows[r].from /\ n.to = rows[r].to /\ n.dir = rows[r].dir
        /\ n.current = rows[r].current /\ n.status = "completed"
        /\ n.tainted = IF q.stale THEN TRUE ELSE rows[r].tainted
    BY <1>2 DEF TaintedBy, Touched, Row
  <2>2. rows'[r] = n /\ \A s \in RangeIds : s # r => rows'[s] = rows[s]
    BY <1>2, <1>3, <1>6, TypesOf
  <2> HIDE DEF n
  <2>3. RowKept(r)
    BY <2>1, <2>2 DEF RowKept, Exists, SameFrame
  <2>4. /\ Span(n) = Span(rows[r]) /\ Walked(n) = Walked(rows[r])
    BY <2>1 DEF Span, Walked, Reach
  <2>5. RowSound(r)'
    BY <1>1, <1>2, <1>6, <2>1, <2>2, <2>4 DEF RowSound, ReqSound, Exists
  <2> QED BY <1>2, <1>4, <2>2, <2>3, <2>5, OneReqSound
<1> QED BY <1>5, <1>6

-----------------------------------------------------------------------------
(* The environment, and the theorem.                                        *)

LEMMA EnvironmentSound ==
  ASSUME IInv, TypeInv',
         \/ \E p \in Procs : Crash(p) \/ Boot(p) \/ BootUnreconciled(p)
         \/ \E r \in RangeIds : Age(r)
         \/ NewBlock
         \/ UNCHANGED vars
  PROVE  Sound'
<1>1. /\ TypeInv /\ Sound /\ head \in Int /\ head' \in Int
      /\ \A r \in RangeIds : RowSound(r) /\ rows[r] \in Row
  BY TypesOf, ConstantTypes DEF IInv, Sound, TypeInv, TypeOK, Blocks
<1>2. ASSUME NEW p \in Procs, Crash(p) PROVE Sound'
  <2>1. \A r \in RangeIds : RowSound(r)' /\ RowKept(r)
    BY <1>1, <1>2, UnchangedRowKept, RowSoundGrows DEF Crash
  <2>2. \A q \in Procs, r \in RangeIds : job'[q][r] = job[q][r] \/ job'[q][r].pc = "idle"
    BY <1>1, <1>2, TypesOf DEF Crash, NoJob
  <2>3. \A q \in Procs, r \in RangeIds : JobSound(q, r)'
    BY <1>1, <1>2, <2>1, <2>2, JobSoundKept DEF Sound, Crash, JobSound, Held
  <2>4. ASSUME NEW h \in Handlers PROVE ReqSound(h)'
    <3>1. req'[h] = NoReq \/ req'[h] = req[h]
      BY <1>2 DEF Crash
    <3>2. CASE req'[h] = NoReq
      BY <3>2 DEF ReqSound, NoReq
    <3>3. CASE req'[h] = req[h]
      BY <1>1, <1>2, <2>1, <3>3, TypesOf, ReqSoundKept DEF Sound, Crash
    <3> QED BY <3>1, <3>2, <3>3
  <2> QED BY <2>1, <2>3, <2>4 DEF Sound
<1>3. ASSUME UNCHANGED <<job, req>>, indexed' = indexed, head <= head',
             \A r \in RangeIds : RowSound(r)' /\ RowKept(r)
      PROVE  Sound'
  <2>1. \A p \in Procs, r \in RangeIds : JobSound(p, r)'
    BY <1>1, <1>3, JobSoundKept DEF Sound
  <2>2. \A h \in Handlers : ReqSound(h)'
    BY <1>1, <1>3, TypesOf, ReqSoundKept DEF Sound
  <2> QED BY <1>3, <2>1, <2>2 DEF Sound
<1>4. ASSUME NEW p \in Procs, Boot(p) PROVE Sound'
  <2>1. ASSUME NEW r \in RangeIds PROVE RowSound(r)' /\ RowKept(r)
    <3>1. rows'[r] = Reconciled(rows[r]) /\ UNCHANGED <<head, indexed>>
      BY <1>4 DEF Boot
    <3>2. CASE rows'[r] = rows[r]
      BY <1>1, <3>1, <3>2, UnchangedRowKept, RowSoundGrows
    <3>3. CASE rows'[r] # rows[r]
      <4>1. /\ rows[r].status = "indexing" /\ rows'[r].status = "error"
            /\ rows'[r].from = rows[r].from /\ rows'[r].to = rows[r].to
            /\ rows'[r].dir = rows[r].dir /\ rows'[r].current = rows[r].current
            /\ rows'[r].tainted = rows[r].tainted
        BY <1>1, <3>1, <3>3 DEF Reconciled, Touched, Row
      <4>2. Walked(rows'[r]) = Walked(rows[r])
        BY <4>1 DEF Walked, Reach, Span
      <4> QED BY <1>1, <3>1, <4>1, <4>2 DEF RowSound, RowKept, Exists, SameFrame
    <3> QED BY <3>2, <3>3
  <2> QED BY <1>1, <1>3, <1>4, <2>1 DEF Boot
<1>5. ASSUME NEW p \in Procs, BootUnreconciled(p) PROVE Sound'
  BY <1>1, <1>3, <1>5, UnchangedRowKept, RowSoundGrows DEF BootUnreconciled
<1>6. ASSUME NEW s \in RangeIds, Age(s) PROVE Sound'
  <2>1. ASSUME NEW r \in RangeIds PROVE RowSound(r)' /\ RowKept(r)
    <3>1. /\ rows'[r].status = rows[r].status /\ rows'[r].tainted = rows[r].tainted
          /\ rows'[r].from = rows[r].from /\ rows'[r].to = rows[r].to
          /\ rows'[r].dir = rows[r].dir /\ rows'[r].current = rows[r].current
          /\ UNCHANGED <<head, indexed>>
      BY <1>1, <1>6, TypesOf DEF Age, Row
    <3>2. Walked(rows'[r]) = Walked(rows[r]) /\ Span(rows'[r]) = Span(rows[r])
      BY <3>1 DEF Walked, Reach, Span
    <3> QED BY <1>1, <3>1, <3>2 DEF RowSound, RowKept, Exists, SameFrame
  <2> QED BY <1>1, <1>3, <1>6, <2>1 DEF Age
<1>7. CASE NewBlock
  BY <1>1, <1>3, <1>7, UnchangedRowKept, RowSoundGrows DEF NewBlock
<1>8. CASE UNCHANGED vars
  BY <1>1, <1>3, <1>8, UnchangedRowKept, RowSoundGrows DEF vars
<1> QED BY <1>2, <1>4, <1>5, <1>6, <1>7, <1>8

LEMMA IInvInit == Init => IInv
<1> SUFFICES ASSUME Init PROVE Sound
  BY TypeInvInit DEF IInv
<1> QED BY DEF Init, Sound, RowSound, JobSound, ReqSound, Exists, Held, NoRow, NoJob, NoReq

LEMMA IInvStep == IInv /\ [Next]_vars => IInv'
<1> SUFFICES ASSUME IInv, [Next]_vars PROVE IInv'
  OBVIOUS
<1>1. TypeInv'
  BY TypeInvStep DEF IInv
<1>2. ASSUME NEW p \in Procs, NEW r \in RangeIds, JobStep(p, r) \/ OperatorStep(p, r)
      PROVE  Sound'
  BY <1>2, StartSound, ReadRowSound, ClaimRowSound, IndexBatchSound, CheckpointSound,
     CloseOutSound, ThrowSound DEF JobStep, OperatorStep, Resume
<1>3. ASSUME NEW h \in Handlers, RequestStep(h)
      PROVE  Sound'
  BY <1>1, <1>3, AddSound, PatchSound, DeleteSound, BeginSound, FlipSound DEF RequestStep
<1>4. CASE Next
  BY <1>1, <1>2, <1>3, <1>4, EnvironmentSound DEF Next, IInv
<1>5. CASE UNCHANGED vars
  BY <1>1, <1>5, EnvironmentSound DEF IInv
<1> QED BY <1>4, <1>5

LEMMA IInvClaims == IInv => ClaimsStored
BY ReachInSpan DEF IInv, Sound, RowSound, ClaimsStored, Claims, Exists

\* The invariant holds in every behaviour: a walk, a pause or an edit that goes on after an
\* await still knows its row, or is marked as stale.
THEOREM Invariant == Spec => []IInv
BY IInvInit, IInvStep, PTL DEF Spec

\* What the indexing status reports as indexed is stored, for every row that no
\* stale walk or flip wrote and no edit widened.
THEOREM ClaimsStoredAlways == Spec => []ClaimsStored
BY Invariant, IInvClaims, PTL

-----------------------------------------------------------------------------
(* What a step does to the status and the checkpoint of a row.              *)

StatusMoves(r) ==
  \/ rows'[r].status = rows[r].status
  \/ rows[r].status = "indexing" /\ rows'[r].status \in {"paused", "completed", "error"}
  \/ Exists(r) /\ rows'[r].status = "indexing" /\ Claiming(r)
  \/ Exists(r) /\ rows'[r].status = "completed" /\ Flipping(r)
  \/ rows'[r].status = "absent" /\ Deleting(r)
  \/ ~Exists(r) /\ rows'[r].status = "pending"

CheckpointMoves(r) ==
  \/ rows'[r].current = rows[r].current
  \/ \E p \in Procs : Checkpoint(p, r) \/ CloseOut(p, r)
  \/ ~Exists(r) \/ rows'[r].status = "absent"

RowMoves(r) == StatusMoves(r) /\ CheckpointMoves(r)

LEMMA SameRowMoves == ASSUME NEW r \in RangeIds, rows'[r] = rows[r] PROVE RowMoves(r)
BY DEF RowMoves, StatusMoves, CheckpointMoves

\* A walk writes its own row, unless the row has left 'indexing'.
LEMMA JobMoves ==
  ASSUME TypeInv, NEW p \in Procs, NEW r \in RangeIds, JobStep(p, r), NEW s \in RangeIds
  PROVE  RowMoves(s)
<1>1. /\ rows \in [RangeIds -> Row] /\ rows[r] \in Row /\ job[p][r] \in Job
      /\ job \in [Procs -> [RangeIds -> Job]]
  BY TypesOf
<1>2. ASSUME NEW n, IfIndexing(r, n), n.status \in {"indexing", "paused", "completed", "error"}
      PROVE  StatusMoves(s) /\ (s # r => rows'[s] = rows[s])
  BY <1>1, <1>2 DEF IfIndexing, StatusMoves
<1>3. CASE ReadRow(p, r) \/ ReadFails(p, r) \/ IndexBatch(p, r)
  BY <1>3, SameRowMoves DEF ReadRow, ReadFails, IndexBatch
<1>4. CASE ClaimRow(p, r)
  <2>1. s # r \/ ~Exists(r) => rows'[s] = rows[s]
    BY <1>1, <1>4 DEF ClaimRow
  <2>2. job[p][r].pc = "claim" /\ job'[p][r].pc = "walk"
    BY <1>1, <1>4 DEF ClaimRow, Job
  <2>3. s = r /\ Exists(r) => rows'[s].status = "indexing" /\ rows'[s].current = rows[s].current
    BY <1>1, <1>4 DEF ClaimRow, Touched, Row
  <2> QED BY <2>1, <2>2, <2>3, SameRowMoves DEF RowMoves, StatusMoves, CheckpointMoves, Claiming
<1>5. CASE Checkpoint(p, r)
  <2> DEFINE n == TaintedBy(job[p][r].stale, [Touched(rows[r]) EXCEPT !.current = job[p][r].last,
                                                                       !.status = "indexing"])
  <2>1. IfIndexing(r, n) /\ n.status = "indexing"
    BY <1>1, <1>5 DEF Checkpoint, TaintedBy, Touched, Row
  <2> HIDE DEF n
  <2> QED BY <1>2, <1>5, <2>1, SameRowMoves DEF RowMoves, CheckpointMoves
<1>6. CASE CloseOut(p, r)
  <2> DEFINE j == job[p][r]
             n == TaintedBy(j.stale,
                    IF j.abort
                    THEN [Touched(rows[r]) EXCEPT
                            !.status  = "paused",
                            !.current = IF AbortCheckpoint(j) = NoBlock THEN @ ELSE AbortCheckpoint(j)]
                    ELSE [Touched(rows[r]) EXCEPT !.status = "completed", !.current = EndBlock(j)])
  <2>1. IfIndexing(r, n)
    BY <1>6 DEF CloseOut
  <2>2. n.status \in {"paused", "completed"}
    BY <1>1 DEF TaintedBy, Touched, Row
  <2> HIDE DEF n
  <2> QED BY <1>2, <1>6, <2>1, <2>2, SameRowMoves DEF RowMoves, CheckpointMoves
<1>7. CASE Throw(p, r)
  <2> DEFINE n == [Touched(rows[r]) EXCEPT !.status = "error"]
  <2>1. n.status = "error" /\ n.current = rows[r].current
    BY <1>1 DEF Touched, Row
  <2>2. CASE UNCHANGED rows
    BY <2>2, SameRowMoves
  <2>3. CASE IfIndexing(r, n)
    <3> HIDE DEF n
    <3>1. rows'[s].current = rows[s].current
      BY <1>1, <2>1, <2>3 DEF IfIndexing
    <3> QED BY <1>2, <2>1, <2>3, <3>1 DEF RowMoves, CheckpointMoves
  <2> QED BY <1>7, <2>2, <2>3 DEF Throw
<1> QED BY <1>3, <1>4, <1>5, <1>6, <1>7 DEF JobStep

LEMMA RequestMoves ==
  ASSUME TypeInv, NEW h \in Handlers, RequestStep(h), NEW s \in RangeIds
  PROVE  RowMoves(s)
<1> DEFINE q == req[h]
<1>1. /\ rows \in [RangeIds -> Row] /\ req \in [Handlers -> Req] /\ q \in Req /\ q.id \in RangeIds
      /\ rows[q.id] \in Row /\ NoReq.kind = "none"
  BY TypesOf DEF NoReq
<1>2. CASE UNCHANGED rows
  BY <1>2, SameRowMoves
<1>3. CASE AddInsert(h)
  <2>1. ~Exists(q.id) => rows'[s].status = "pending" \/ rows'[s] = rows[s]
    BY <1>1, <1>3 DEF AddInsert
  <2>2. Exists(q.id) \/ s # q.id => rows'[s] = rows[s]
    BY <1>1, <1>3 DEF AddInsert
  <2> QED BY <2>1, <2>2, SameRowMoves DEF RowMoves, StatusMoves, CheckpointMoves
<1>4. CASE PatchWrite(h)
  <2>1. Patched(rows[q.id], q).status = rows[q.id].status
        /\ Patched(rows[q.id], q).current = rows[q.id].current
    BY <1>1 DEF Patched, TaintedBy, Touched, Row
  <2>2. rows'[s].status = rows[s].status /\ rows'[s].current = rows[s].current
    BY <1>1, <1>4, <2>1 DEF PatchWrite
  <2> QED BY <2>2 DEF RowMoves, StatusMoves, CheckpointMoves
<1>5. CASE DeleteWrite(h)
  <2>1. rows'[s] = IF s = q.id THEN NoRow ELSE rows[s]
    BY <1>1, <1>5 DEF DeleteWrite
  <2>2. q.kind = "delete" /\ req'[h].kind = "none"
    BY <1>1, <1>5 DEF DeleteWrite, OutdateReqs
  <2> QED BY <2>1, <2>2, SameRowMoves DEF RowMoves, StatusMoves, CheckpointMoves, Deleting, NoRow
<1>6. CASE FlipWrite(h)
  <2> DEFINE n == TaintedBy(q.stale, [Touched(rows[q.id]) EXCEPT !.status = "completed"])
  <2>1. n.status = "completed" /\ n.current = rows[q.id].current
    BY <1>1 DEF TaintedBy, Touched, Row
  <2>2. rows' = IF Exists(q.id) THEN [rows EXCEPT ![q.id] = n] ELSE rows
    BY <1>6 DEF FlipWrite
  <2>3. q.kind = "flipping" /\ req'[h].kind = "none"
    BY <1>1, <1>6 DEF FlipWrite
  <2> HIDE DEF n
  <2>4. rows'[s] = IF Exists(q.id) /\ s = q.id THEN n ELSE rows[s]
    BY <1>1, <2>2
  <2> QED BY <2>1, <2>3, <2>4, SameRowMoves DEF RowMoves, StatusMoves, CheckpointMoves, Flipping
<1> QED BY <1>2, <1>3, <1>4, <1>5, <1>6
        DEF RequestStep, AddBegin, FlipCheck, PatchBegin, DeleteBegin, FlipBegin

LEMMA RowStep ==
  ASSUME TypeInv, Next, NEW s \in RangeIds PROVE RowMoves(s)
<1>1. rows \in [RangeIds -> Row] /\ rows[s] \in Row
  BY TypesOf
<1>2. ASSUME NEW p \in Procs, Boot(p) PROVE RowMoves(s)
  <2>1. rows'[s] = Reconciled(rows[s])
    BY <1>2 DEF Boot
  <2> QED BY <1>1, <2>1 DEF Reconciled, Touched, Row, RowMoves, StatusMoves, CheckpointMoves
<1>3. ASSUME NEW r \in RangeIds, Age(r) PROVE RowMoves(s)
  <2>1. rows'[s].status = rows[s].status /\ rows'[s].current = rows[s].current
    BY <1>1, <1>3 DEF Age, Row
  <2> QED BY <2>1 DEF RowMoves, StatusMoves, CheckpointMoves
<1>4. CASE UNCHANGED rows
  BY <1>4, SameRowMoves
<1> QED BY <1>2, <1>3, <1>4, JobMoves, RequestMoves
        DEF Next, OperatorStep, Start, Resume, Pause, Crash, BootUnreconciled, NewBlock

\* A row that was paused, failed or completed leaves that status only for 'indexing' by a
\* claim, for 'completed' by the pause route, or by its deletion.
THEOREM SettledStaysHolds == Spec => SettledStays
<1> DEFINE Stays ==
             \A r \in RangeIds :
               rows[r].status \in {"paused", "error", "completed"} /\ rows'[r].status # rows[r].status =>
                 \/ rows'[r].status = "indexing" /\ Claiming(r)
                 \/ rows'[r].status = "completed" /\ Flipping(r)
                 \/ rows'[r].status = "absent" /\ Deleting(r)
<1>1. TypeInv /\ [Next]_vars => [Stays]_vars
  BY RowStep DEF RowMoves, StatusMoves, Exists
<1>2. Spec => [][Stays]_vars
  BY <1>1, TypeInvInit, TypeInvStep, PTL DEF Spec
<1> QED BY <1>2 DEF SettledStays

\* A row becomes 'pending' only where there was none.
THEOREM AddsDoNotResetHolds == Spec => AddsDoNotReset
<1> DEFINE Kept == \A r \in RangeIds : Exists(r) /\ rows'[r].status = "pending" => rows[r].status = "pending"
<1>1. TypeInv /\ [Next]_vars => [Kept]_vars
  BY RowStep DEF RowMoves, StatusMoves, Exists
<1>2. Spec => [][Kept]_vars
  BY <1>1, TypeInvInit, TypeInvStep, PTL DEF Spec
<1> QED BY <1>2 DEF AddsDoNotReset

-----------------------------------------------------------------------------
(* One process: no walked block is forgotten.                               *)

\* Every process serves every range with at most one walk; there is one process.
OneProcess == \A p, q \in Procs : p = q

\* The cursor of job j has left checkpoint c.
Past(j, c) ==
  \/ c = NoBlock
  \/ j.dir = "forward" /\ c < j.cur
  \/ j.dir = "backward" /\ c > j.cur

\* A walk that knows its row covers, with the checkpoint it would leave, what the row has
\* walked, and its cursor has left that checkpoint.
Ahead(p, r) ==
  LET j == job[p][r] IN
  /\ j.pc = "claim" => j.last = NoBlock
  /\ j.pc = "walk" => Past(j, AbortCheckpoint(j))
  /\ j.pc = "store" => j.last = CoveredBlock(j)
  /\ Held(j) /\ ~j.stale => Walked(rows[r]) \subseteq Reach(j, AbortCheckpoint(j))

AllAhead == \A p \in Procs, r \in RangeIds : Ahead(p, r)

\* The first cursor has left the checkpoint it was computed from, and a batch goes beyond
\* every checkpoint the cursor has left.
LEMMA FirstCursorPast ==
  ASSUME NEW j \in Job, NEW x, x.dir = j.dir, x.cur = FirstCursor(j) PROVE Past(x, j.cp)
BY ConstantTypes DEF Past, FirstCursor, Job, Blocks, Directions

LEMMA BatchAdvances ==
  ASSUME NEW j \in Job, ~Exhausted(j), NEW c \in Blocks \cup {NoBlock}, Past(j, c)
  PROVE  Reach(j, c) \subseteq Reach(j, CoveredBlock(j))
<1>1. BatchSize \in Nat /\ BatchSize > 0 /\ MaxBlock \in Nat
  BY ConstantTypes
<1>2. CASE j.dir = "forward"
  BY <1>1, <1>2 DEF Past, Reach, CoveredBlock, BatchTo, Span, Exhausted, Job, Blocks, Cursors
<1>3. CASE j.dir = "backward"
  BY <1>1, <1>3 DEF Past, Reach, CoveredBlock, BatchFrom, Span, Exhausted, Job, Blocks, Cursors
<1> QED BY <1>2, <1>3 DEF Job, Directions

LEMMA StepPast ==
  ASSUME NEW j \in Job, ~Exhausted(j), NEW x, x.dir = j.dir, x.cur = StepCursor(j)
  PROVE  Past(x, CoveredBlock(j))
BY ConstantTypes DEF Past, StepCursor, CoveredBlock, BatchFrom, BatchTo, Exhausted, Job, Blocks,
   Cursors, Directions

LEMMA EndCovers == ASSUME NEW j \in Job PROVE Span(j) \subseteq Reach(j, EndBlock(j))
BY DEF Reach, Span, EndBlock, Job, Blocks, Directions

\* What a walk that stores a batch would leave is the block it has covered.
LEMMA StoreCheckpoint ==
  ASSUME TypeInv, NEW p \in Procs, NEW r \in RangeIds, job[p][r].pc = "store", Ahead(p, r)
  PROVE  /\ ~Exhausted(job[p][r]) /\ job[p][r].last = CoveredBlock(job[p][r])
         /\ AbortCheckpoint(job[p][r]) = job[p][r].last
<1> DEFINE j == job[p][r]
<1>1. j \in Job /\ ~Exhausted(j) /\ j.last = CoveredBlock(j)
      /\ (j.dir = "forward" => 0 <= j.cur) /\ (j.dir = "backward" => j.cur <= MaxBlock)
  BY TypesOf DEF TypeInv, CursorOK, Ahead
<1>2. CoveredBlock(j) \in Blocks
  BY <1>1, BatchType
<1> QED BY <1>1, <1>2 DEF AbortCheckpoint, Blocks

\* A job that is left where it was, or becomes stale, stays ahead of a row that has walked
\* no more.
LEMMA AheadKept ==
  ASSUME NEW p \in Procs, NEW r \in RangeIds, Ahead(p, r),
         job'[p][r].pc = job[p][r].pc, job'[p][r].cp = job[p][r].cp,
         job'[p][r].cur = job[p][r].cur, job'[p][r].last = job[p][r].last,
         SameFrame(job'[p][r], job[p][r]),
         job[p][r].stale => job'[p][r].stale,
         Held(job[p][r]) /\ ~job'[p][r].stale => Walked(rows'[r]) = Walked(rows[r])
  PROVE  Ahead(p, r)'
BY DEF Ahead, Held, Past, AbortCheckpoint, CoveredBlock, BatchTo, BatchFrom, Reach, Span, SameFrame

LEMMA OneJobAhead ==
  ASSUME OneProcess, TypeInv, AllAhead, NEW p \in Procs, NEW r \in RangeIds, NEW x,
         job' = [job EXCEPT ![p][r] = x], \A s \in RangeIds : s # r => rows'[s] = rows[s],
         Ahead(p, r)'
  PROVE  AllAhead'
<1> SUFFICES ASSUME NEW q \in Procs, NEW s \in RangeIds, s # r PROVE Ahead(q, s)'
  BY DEF AllAhead, OneProcess
<1>1. job'[q][s] = job[q][s] /\ rows'[s] = rows[s]
  BY TypesOf
<1> QED BY <1>1, AheadKept DEF AllAhead, SameFrame

LEMMA JobAhead ==
  ASSUME OneProcess, IInv, AllAhead, NEW p \in Procs, NEW r \in RangeIds,
         JobStep(p, r) \/ OperatorStep(p, r)
  PROVE  AllAhead'
<1> DEFINE j == job[p][r]
<1>1. /\ TypeInv /\ JobSound(p, r) /\ Ahead(p, r) /\ j \in Job /\ rows[r] \in Row
      /\ job \in [Procs -> [RangeIds -> Job]] /\ rows \in [RangeIds -> Row]
      /\ job[p] \in [RangeIds -> Job]
  BY TypesOf DEF IInv, Sound, AllAhead
<1>n. ASSUME NEW n, IfIndexing(r, n) PROVE \A s \in RangeIds : s # r => rows'[s] = rows[s]
  BY <1>1, <1>n DEF IfIndexing
<1>2. CASE Start(p, r) \/ ReadFails(p, r)
  <2>1. PICK c \in {"select", "leaked"} : job' = [job EXCEPT ![p][r].pc = c] /\ UNCHANGED rows
    BY <1>2 DEF Start, ReadFails
  <2> DEFINE x == [j EXCEPT !.pc = c]
  <2>2. job' = [job EXCEPT ![p][r] = x] /\ job'[p][r].pc = c
    BY <1>1, <2>1 DEF Job
  <2>3. Ahead(p, r)'
    BY <2>2 DEF Ahead, Held
  <2> QED BY <1>1, <2>1, <2>2, <2>3, OneJobAhead
<1>3. CASE Pause(p, r)
  <2> DEFINE x == [j EXCEPT !.abort = TRUE]
  <2>1. job' = [job EXCEPT ![p][r] = x] /\ UNCHANGED rows
    BY <1>1, <1>3 DEF Pause
  <2>2. /\ job'[p][r].pc = j.pc /\ job'[p][r].cp = j.cp /\ job'[p][r].cur = j.cur
        /\ job'[p][r].last = j.last /\ job'[p][r].stale = j.stale /\ SameFrame(job'[p][r], j)
    BY <1>1, <2>1 DEF Job, SameFrame
  <2> QED BY <1>1, <2>1, <2>2, AheadKept, OneJobAhead
<1>4. CASE ReadRow(p, r)
  <2> DEFINE x == IF rows[r].status \in {"absent", "completed"} THEN NoJob
                  ELSE [pc |-> "claim", from |-> rows[r].from, to |-> rows[r].to,
                        dir |-> rows[r].dir, cp |-> rows[r].current, cur |-> 0,
                        last |-> NoBlock, abort |-> j.abort, stale |-> FALSE]
  <2>1. job' = [job EXCEPT ![p][r] = x] /\ UNCHANGED rows
    BY <1>4 DEF ReadRow
  <2>2. job'[p][r] = x
    BY <1>1, <2>1
  <2>3. CASE x = NoJob
    BY <1>1, <2>1, <2>2, <2>3, OneJobAhead DEF Ahead, Held, NoJob
  <2>4. CASE x # NoJob
    <3>1. x.pc = "claim" /\ x.last = NoBlock /\ x.cp = rows[r].current /\ SameFrame(x, rows[r])
      BY <2>4 DEF SameFrame
    <3> HIDE DEF x
    <3>2. Walked(rows[r]) = Reach(x, AbortCheckpoint(x))
      BY <3>1, FrameDecides DEF Walked, AbortCheckpoint
    <3>3. Ahead(p, r)'
      BY <2>1, <2>2, <3>1, <3>2 DEF Ahead
    <3> QED BY <1>1, <2>1, <3>3, OneJobAhead
  <2> QED BY <2>3, <2>4
<1>5. CASE ClaimRow(p, r)
  <2> DEFINE x == [j EXCEPT !.pc = "walk", !.cur = FirstCursor(j)]
  <2>1. job' = [job EXCEPT ![p][r] = x] /\ j.pc = "claim"
    BY <1>5 DEF ClaimRow
  <2>2. /\ job'[p][r] = x /\ x.pc = "walk" /\ x.cur = FirstCursor(j) /\ x.cp = j.cp
        /\ x.last = j.last /\ x.stale = j.stale /\ SameFrame(x, j)
    BY <1>1, <2>1 DEF Job, SameFrame
  <2>3. \A s \in RangeIds : s # r => rows'[s] = rows[s]
    BY <1>1, <1>5 DEF ClaimRow
  <2>4. rows'[r].current = rows[r].current /\ SameFrame(rows'[r], rows[r])
    BY <1>1, <1>5 DEF ClaimRow, Touched, Row, SameFrame
  <2>5. Walked(rows'[r]) = Walked(rows[r])
    BY <2>4, FrameDecides DEF Walked
  <2> HIDE DEF x
  <2>6. j.last = NoBlock /\ AbortCheckpoint(x) = j.cp /\ AbortCheckpoint(j) = j.cp
    BY <1>1, <2>1, <2>2 DEF Ahead, AbortCheckpoint
  <2>7. Past(x, j.cp) /\ Reach(x, j.cp) = Reach(j, j.cp)
    BY <1>1, <2>2, FirstCursorPast, FrameDecides DEF SameFrame
  <2>8. Ahead(p, r)'
    BY <1>1, <2>1, <2>2, <2>5, <2>6, <2>7 DEF Ahead, Held
  <2> QED BY <1>1, <2>1, <2>3, <2>8, OneJobAhead
<1>6. CASE IndexBatch(p, r)
  <2> DEFINE x == [j EXCEPT !.pc = "store", !.last = CoveredBlock(j)]
  <2>1. job' = [job EXCEPT ![p][r] = x] /\ j.pc = "walk" /\ ~Exhausted(j) /\ UNCHANGED rows
    BY <1>6 DEF IndexBatch
  <2>2. /\ job'[p][r] = x /\ x.pc = "store" /\ x.cur = j.cur
        /\ x.last = CoveredBlock(j) /\ x.stale = j.stale /\ SameFrame(x, j)
    BY <1>1, <2>1 DEF Job, SameFrame
  <2> HIDE DEF x
  <2>3. CoveredBlock(x) = CoveredBlock(j)
    BY <2>2 DEF SameFrame, CoveredBlock, BatchTo, BatchFrom
  <2>4. CoveredBlock(j) \in Blocks
    BY <1>1, <2>1, BatchType DEF TypeInv, CursorOK
  <2>5. AbortCheckpoint(x) = CoveredBlock(j)
    BY <2>2, <2>4 DEF AbortCheckpoint, Blocks
  <2>6. AbortCheckpoint(j) \in Blocks \cup {NoBlock} /\ Past(j, AbortCheckpoint(j))
    BY <1>1, <2>1 DEF AbortCheckpoint, Job, Ahead
  <2>7. Reach(j, AbortCheckpoint(j)) \subseteq Reach(x, CoveredBlock(j))
    BY <1>1, <2>1, <2>2, <2>6, BatchAdvances, FrameDecides
  <2>8. Ahead(p, r)'
    BY <1>1, <2>1, <2>2, <2>3, <2>5, <2>7 DEF Ahead, Held
  <2> QED BY <1>1, <2>1, <2>8, OneJobAhead
<1>7. CASE Checkpoint(p, r)
  <2> DEFINE x == [j EXCEPT !.pc = "walk", !.cur = StepCursor(j)]
             n == TaintedBy(j.stale, [Touched(rows[r]) EXCEPT !.current = j.last,
                                                               !.status = "indexing"])
  <2>1. job' = [job EXCEPT ![p][r] = x] /\ j.pc = "store" /\ IfIndexing(r, n)
    BY <1>7 DEF Checkpoint
  <2>2. /\ job'[p][r] = x /\ x.pc = "walk" /\ x.cur = StepCursor(j) /\ x.cp = j.cp
        /\ x.last = j.last /\ x.stale = j.stale /\ SameFrame(x, j)
    BY <1>1, <2>1 DEF Job, SameFrame
  <2>3. n.current = j.last /\ SameFrame(n, rows[r])
    BY <1>1 DEF TaintedBy, Touched, Row, SameFrame
  <2>4. rows'[r] \in {n, rows[r]}
    BY <1>1, <2>1 DEF IfIndexing
  <2> HIDE DEF x, n
  <2>5. ~Exhausted(j) /\ j.last = CoveredBlock(j) /\ AbortCheckpoint(j) = j.last
    BY <1>1, <2>1, StoreCheckpoint
  <2>6. AbortCheckpoint(x) = j.last
    BY <2>2, <2>5 DEF AbortCheckpoint
  <2>7. Past(x, j.last) /\ Reach(x, j.last) = Reach(j, j.last)
    BY <1>1, <2>2, <2>5, StepPast, FrameDecides DEF SameFrame
  <2>8. ~j.stale => Walked(rows'[r]) \subseteq Reach(j, j.last)
    <3>1. ~j.stale => SameFrame(j, rows[r]) /\ Walked(rows[r]) \subseteq Reach(j, j.last)
      BY <1>1, <2>1, <2>5 DEF JobSound, Ahead, Held
    <3>2. ~j.stale => SameFrame(j, n)
      BY <2>3, <3>1 DEF SameFrame
    <3>3. ~j.stale => Walked(n) \subseteq Reach(j, j.last)
      BY <2>3, <3>2, FrameDecides DEF Walked
    <3> QED BY <2>4, <3>1, <3>3
  <2>9. Ahead(p, r)'
    BY <2>2, <2>6, <2>7, <2>8 DEF Ahead
  <2> QED BY <1>1, <1>n, <2>1, <2>9, OneJobAhead
<1>8. CASE CloseOut(p, r) \/ Throw(p, r)
  <2>1. job' = [job EXCEPT ![p][r] = NoJob] /\ ((\E n : IfIndexing(r, n)) \/ UNCHANGED rows)
    BY <1>8 DEF CloseOut, Throw
  <2>2. job'[p][r] = NoJob
    BY <1>1, <2>1
  <2>3. Ahead(p, r)'
    BY <2>2 DEF Ahead, Held, NoJob
  <2>4. \A s \in RangeIds : s # r => rows'[s] = rows[s]
    BY <1>n, <2>1
  <2> QED BY <1>1, <2>1, <2>3, <2>4, OneJobAhead
<1> QED BY <1>2, <1>3, <1>4, <1>5, <1>6, <1>7, <1>8 DEF JobStep, OperatorStep, Resume

\* A request leaves the walks where they are, or makes those of the row it edits stale.
LEMMA RequestAhead ==
  ASSUME IInv, AllAhead, NEW h \in Handlers, RequestStep(h)
  PROVE  AllAhead'
<1> DEFINE q == req[h]
<1>1. /\ TypeInv /\ rows \in [RangeIds -> Row] /\ q \in Req /\ q.id \in RangeIds
      /\ rows[q.id] \in Row /\ job \in [Procs -> [RangeIds -> Job]]
  BY TypesOf DEF IInv
<1>2. ASSUME NEW p \in Procs, NEW r \in RangeIds, job'[p][r] = job[p][r],
             Held(job[p][r]) /\ ~job[p][r].stale => Walked(rows'[r]) = Walked(rows[r])
      PROVE  Ahead(p, r)'
  BY <1>2, AheadKept DEF AllAhead, SameFrame
<1>3. ASSUME NEW r \in RangeIds, job' = OutdateJobs(r), \A s \in RangeIds : s # r => rows'[s] = rows[s]
      PROVE  AllAhead'
  <2> SUFFICES ASSUME NEW p \in Procs, NEW s \in RangeIds PROVE Ahead(p, s)'
    BY DEF AllAhead
  <2> DEFINE x == IF job[p][r].pc \in {"claim", "walk", "store"}
                  THEN [job[p][r] EXCEPT !.stale = TRUE] ELSE job[p][r]
  <2>1. job'[p][s] = IF s = r THEN x ELSE job[p][s]
    BY <1>3, TypesOf, <1>1 DEF OutdateJobs
  <2>2. CASE s # r
    BY <1>2, <1>3, <2>1, <2>2
  <2>3. CASE s = r
    <3>1. /\ x.pc = job[p][r].pc /\ x.cp = job[p][r].cp /\ x.cur = job[p][r].cur
          /\ x.last = job[p][r].last /\ SameFrame(x, job[p][r])
          /\ (job[p][r].stale => x.stale) /\ (Held(job[p][r]) => x.stale)
      BY <1>1, TypesOf DEF Job, SameFrame, Held
    <3> HIDE DEF x
    <3> QED BY <2>1, <2>3, <3>1, AheadKept DEF AllAhead
  <2> QED BY <2>2, <2>3
<1>4. CASE UNCHANGED <<rows, job>>
  BY <1>2, <1>4 DEF AllAhead
<1>5. CASE AddInsert(h)
  <2>1. UNCHANGED job
    BY <1>5 DEF AddInsert
  <2>2. ASSUME NEW p \in Procs, NEW r \in RangeIds, Held(job[p][r]) /\ ~job[p][r].stale
        PROVE  rows'[r] = rows[r]
    <3>1. Exists(r)
      BY <2>2 DEF IInv, Sound, JobSound
    <3> QED BY <1>1, <1>5, <3>1 DEF AddInsert
  <2> QED BY <1>2, <2>1, <2>2 DEF AllAhead
<1>6. CASE PatchWrite(h)
  <2> DEFINE n == Patched(rows[q.id], q)
  <2>1. n.current = rows[q.id].current
    BY <1>1 DEF Patched, TaintedBy, Touched, Row
  <2>2. \A s \in RangeIds : s # q.id => rows'[s] = rows[s]
    BY <1>1, <1>6 DEF PatchWrite
  <2>3. CASE Exists(q.id) /\ ~SameFrame(rows[q.id], n)
    BY <1>1, <1>3, <1>6, <2>2, <2>3 DEF PatchWrite
  <2>4. CASE Exists(q.id) /\ SameFrame(rows[q.id], n)
    <3>1. rows'[q.id] = n /\ UNCHANGED job
      BY <1>1, <1>6, <2>4 DEF PatchWrite
    <3> HIDE DEF n
    <3>2. Walked(rows'[q.id]) = Walked(rows[q.id])
      BY <2>1, <2>4, <3>1, FrameDecides DEF Walked
    <3> QED BY <1>2, <2>2, <3>1, <3>2 DEF AllAhead
  <2>5. CASE ~Exists(q.id)
    BY <1>4, <1>6, <2>5 DEF PatchWrite
  <2> QED BY <2>3, <2>4, <2>5
<1>7. CASE DeleteWrite(h)
  <2>1. job' = OutdateJobs(q.id) /\ \A s \in RangeIds : s # q.id => rows'[s] = rows[s]
    BY <1>1, <1>7 DEF DeleteWrite
  <2> QED BY <1>1, <1>3, <2>1
<1>8. CASE FlipWrite(h)
  <2> DEFINE n == TaintedBy(q.stale, [Touched(rows[q.id]) EXCEPT !.status = "completed"])
  <2>1. n.current = rows[q.id].current /\ SameFrame(n, rows[q.id])
    BY <1>1 DEF TaintedBy, Touched, Row, SameFrame
  <2>2. rows' = (IF Exists(q.id) THEN [rows EXCEPT ![q.id] = n] ELSE rows) /\ UNCHANGED job
    BY <1>8 DEF FlipWrite
  <2> HIDE DEF n
  <2>3. Walked(n) = Walked(rows[q.id])
    BY <2>1, FrameDecides DEF Walked
  <2>4. \A s \in RangeIds : Walked(rows'[s]) = Walked(rows[s])
    BY <1>1, <2>2, <2>3
  <2> QED BY <1>2, <2>2, <2>4 DEF AllAhead
<1> QED BY <1>4, <1>5, <1>6, <1>7, <1>8
        DEF RequestStep, AddBegin, FlipCheck, PatchBegin, DeleteBegin, FlipBegin

LEMMA EnvironmentAhead ==
  ASSUME IInv, AllAhead,
         \/ \E p \in Procs : Crash(p) \/ Boot(p) \/ BootUnreconciled(p)
         \/ \E r \in RangeIds : Age(r)
         \/ NewBlock
         \/ UNCHANGED vars
  PROVE  AllAhead'
<1>1. /\ TypeInv /\ rows \in [RangeIds -> Row] /\ job \in [Procs -> [RangeIds -> Job]]
      /\ \A r \in RangeIds : rows[r] \in Row
  BY TypesOf DEF IInv
<1>2. ASSUME NEW p \in Procs, NEW r \in RangeIds, job'[p][r] = job[p][r],
             Walked(rows'[r]) = Walked(rows[r])
      PROVE  Ahead(p, r)'
  BY <1>2, AheadKept DEF AllAhead, SameFrame
<1>3. ASSUME NEW p \in Procs, Crash(p) PROVE AllAhead'
  <2> SUFFICES ASSUME NEW q \in Procs, NEW s \in RangeIds PROVE Ahead(q, s)'
    BY DEF AllAhead
  <2>1. job'[q][s] = job[q][s] \/ job'[q][s] = NoJob
    BY <1>1, <1>3 DEF Crash
  <2>2. job'[q][s] = NoJob => Ahead(q, s)'
    BY DEF Ahead, Held, NoJob
  <2> QED BY <1>2, <1>3, <2>1, <2>2 DEF Crash
<1>4. ASSUME NEW p \in Procs, Boot(p) PROVE AllAhead'
  <2>1. ASSUME NEW s \in RangeIds PROVE Walked(rows'[s]) = Walked(rows[s])
    <3>1. rows'[s].current = rows[s].current /\ SameFrame(rows'[s], rows[s])
      BY <1>1, <1>4 DEF Boot, Reconciled, Touched, Row, SameFrame
    <3> QED BY <3>1, FrameDecides DEF Walked
  <2> QED BY <1>2, <1>4, <2>1 DEF AllAhead, Boot
<1>5. ASSUME NEW r \in RangeIds, Age(r) PROVE AllAhead'
  <2>1. ASSUME NEW s \in RangeIds PROVE Walked(rows'[s]) = Walked(rows[s])
    <3>1. rows'[s].current = rows[s].current /\ SameFrame(rows'[s], rows[s])
      BY <1>1, <1>5 DEF Age, Row, SameFrame
    <3> QED BY <3>1, FrameDecides DEF Walked
  <2> QED BY <1>2, <1>5, <2>1 DEF AllAhead, Age
<1>6. CASE UNCHANGED <<rows, job>>
  BY <1>2, <1>6 DEF AllAhead
<1> QED BY <1>3, <1>4, <1>5, <1>6 DEF BootUnreconciled, NewBlock, vars

LEMMA AheadStep == ASSUME OneProcess PROVE IInv /\ AllAhead /\ [Next]_vars => AllAhead'
BY JobAhead, RequestAhead, EnvironmentAhead DEF Next

\* With one process, no step makes an unedited row forget blocks it has walked: what a walk
\* writes as a checkpoint covers what the row had.
THEOREM NoRewindHolds == ASSUME OneProcess PROVE Spec => NoRewind
<1> DEFINE Grows(r) == Walked(rows[r]) \subseteq Walked(rows'[r])
           Stays ==
             \A r \in RangeIds :
               Exists(r) /\ rows'[r].status # "absent" /\ SameFrame(rows[r], rows'[r]) /\ ~rows'[r].tainted
                 => Walked(rows[r]) \subseteq Walked(rows'[r])
<1>1. ASSUME IInv, AllAhead, Next, NEW r \in RangeIds, Exists(r), rows'[r].status # "absent",
             SameFrame(rows[r], rows'[r]), ~rows'[r].tainted
      PROVE  Grows(r)
  <2>1. /\ TypeInv /\ rows \in [RangeIds -> Row] /\ rows[r] \in Row
        /\ \A c : Reach(rows'[r], c) = Reach(rows[r], c)
    BY <1>1, TypesOf, FrameDecides DEF IInv
  <2>2. CASE rows'[r].current = rows[r].current
    BY <2>1, <2>2 DEF Walked
  <2>3. ASSUME NEW p \in Procs, Checkpoint(p, r) PROVE Grows(r)
    <3> DEFINE j == job[p][r]
               n == TaintedBy(j.stale, [Touched(rows[r]) EXCEPT !.current = j.last,
                                                                 !.status = "indexing"])
    <3>1. j.pc = "store" /\ rows'[r] \in {n, rows[r]}
      BY <2>1, <2>3 DEF Checkpoint, IfIndexing
    <3>2. n.current = j.last /\ (j.stale => n.tainted)
      BY <2>1 DEF TaintedBy, Touched, Row
    <3> HIDE DEF n
    <3>3. CASE rows'[r] = rows[r]
      BY <3>3, <2>2
    <3>4. CASE rows'[r] = n
      <4>1. ~j.stale
        BY <1>1, <3>2, <3>4
      <4>2. SameFrame(j, rows[r]) /\ Walked(rows[r]) \subseteq Reach(j, j.last)
        BY <1>1, <2>1, <3>1, <4>1, StoreCheckpoint DEF AllAhead, Ahead, Held, IInv, Sound, JobSound
      <4>3. Reach(j, j.last) = Walked(rows'[r])
        BY <2>1, <3>2, <3>4, <4>2, FrameDecides DEF Walked
      <4> QED BY <4>2, <4>3
    <3> QED BY <3>1, <3>3, <3>4
  <2>4. ASSUME NEW p \in Procs, CloseOut(p, r) PROVE Grows(r)
    <3> DEFINE j == job[p][r]
               c == IF j.abort THEN IF AbortCheckpoint(j) = NoBlock THEN rows[r].current ELSE AbortCheckpoint(j)
                               ELSE EndBlock(j)
               n == TaintedBy(j.stale,
                      IF j.abort
                      THEN [Touched(rows[r]) EXCEPT
                              !.status  = "paused",
                              !.current = IF AbortCheckpoint(j) = NoBlock THEN @ ELSE AbortCheckpoint(j)]
                      ELSE [Touched(rows[r]) EXCEPT !.status = "completed", !.current = EndBlock(j)])
    <3>1. j.pc = "walk" /\ IfIndexing(r, n)
      BY <2>4 DEF CloseOut
    <3>2. rows'[r] \in {n, rows[r]}
      BY <2>1, <3>1 DEF IfIndexing
    <3>3. n.current = c /\ (j.stale => n.tainted)
      BY <2>1 DEF TaintedBy, Touched, Row
    <3> HIDE DEF n
    <3>4. CASE rows'[r] = rows[r]
      BY <3>4, <2>2
    <3>5. CASE rows'[r] = n
      <4>1. ~j.stale
        BY <1>1, <3>3, <3>5
      <4>2. /\ SameFrame(j, rows[r]) /\ Walked(rows[r]) \subseteq Reach(j, AbortCheckpoint(j))
            /\ j \in Job
        BY <1>1, <2>1, <3>1, <4>1, TypesOf DEF AllAhead, Ahead, Held, IInv, Sound, JobSound
      <4>3. \A b : Reach(j, b) = Reach(rows[r], b)
        BY <4>2, FrameDecides
      <4>4. Walked(rows[r]) \subseteq Span(j)
        BY <4>2, ReachInSpan
      <4>5. Walked(rows[r]) \subseteq Reach(j, EndBlock(j))
        BY <4>2, <4>4, EndCovers
      <4>6. Walked(rows[r]) \subseteq Reach(rows[r], c)
        BY <4>2, <4>3, <4>5 DEF Walked
      <4> QED BY <2>1, <3>3, <3>5, <4>6 DEF Walked
    <3> QED BY <3>2, <3>4, <3>5
  <2> QED BY <1>1, <2>1, <2>2, <2>3, <2>4, RowStep DEF RowMoves, CheckpointMoves
<1>2. IInv /\ AllAhead /\ [Next]_vars => [Stays]_vars
  BY <1>1
<1>3. Init => AllAhead
  BY DEF Init, AllAhead, Ahead, Held, NoJob
<1>4. Spec => [][Stays]_vars
  BY <1>2, <1>3, AheadStep, Invariant, PTL DEF Spec
<1> QED BY <1>4 DEF NoRewind
=============================================================================
