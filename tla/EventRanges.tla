----------------------------- MODULE EventRanges -----------------------------
(***************************************************************************)
(* The event-indexing ranges of one contract on one chain                  *)
(* (src/src/services/EventIndexingService.ts and the range routes of       *)
(* src/src/routes/events.ts).                                              *)
(*                                                                         *)
(* A range is a database row: a window of blocks, a direction, a           *)
(* checkpoint and a status.  Walks move through the window in batches,     *)
(* store the events they find and then move the checkpoint.  Several       *)
(* request handlers, and the walks themselves, read a row, wait, and write *)
(* it; every wait is a separate action here, so other handlers, other      *)
(* walks and process crashes come in between.                              *)
(*                                                                         *)
(* Two history fields record what the code does not: a job or a request is *)
(* `stale' when the row it was read from has since been edited or deleted, *)
(* and a row is `tainted' when a stale walk or flip has written it or when *)
(* an edit made it claim blocks it did not claim before.                   *)
(***************************************************************************)
EXTENDS Integers, FiniteSets

CONSTANTS
  Procs,         \* server processes sharing the database
  Standalone,    \* those started by server.ts, which reconcile before they listen
  Handlers,      \* slots for admin requests in flight
  Home,          \* the process that serves each handler
  MaxRangeId,    \* bound: range ids are 1..MaxRangeId
  MaxBlock,      \* bound: the chain never grows past this block
  BatchSize,     \* blocks per batch
  CreationBlock, \* the contract's creation block (0 when genesis or unknown)
  AddRequests,   \* frames the operator may ask to add
  PatchRequests  \* frames the operator may PATCH a range to

Blocks     == 0..MaxBlock
RangeIds   == 1..MaxRangeId
Directions == {"forward", "backward"}
Frames     == [from : Blocks, to : Blocks, dir : Directions]
NoBlock    == -1    \* a NULL checkpoint
Cursors    == -BatchSize .. (MaxBlock + BatchSize)

ASSUME SizesAssumption ==
  /\ MaxRangeId \in Nat \ {0}
  /\ MaxBlock \in Nat
  /\ BatchSize \in Nat \ {0}
  /\ CreationBlock \in Blocks

ASSUME ActorsAssumption ==
  /\ Standalone \subseteq Procs
  /\ Home \in [Handlers -> Procs]
  /\ AddRequests \subseteq Frames
  /\ PatchRequests \subseteq Frames

VARIABLES
  head,     \* the newest block of the chain
  indexed,  \* blocks whose events are all stored
  rows,     \* the indexing_ranges table
  job,      \* job[p][r]: process p's activeJobs entry for range r and its walk
  req,      \* req[h]: what handler h is in the middle of
  up        \* up[p]: process p is serving

vars == <<head, indexed, rows, job, req, up>>

RowStatus == {"absent", "pending", "indexing", "paused", "completed", "error"}
JobPc     == {"idle", "select", "claim", "walk", "store", "leaked"}
ReqKind   == {"none", "add", "readd", "patch", "delete", "flip", "flipping"}

Row == [from : Blocks, to : Blocks, dir : Directions, current : Blocks \cup {NoBlock},
        status : RowStatus, fresh : BOOLEAN, tainted : BOOLEAN]

\* cp, cur and last are the row's checkpoint as read, the walk's cursor
\* (`currentBlock') and its `lastCoveredBlock'.
Job == [pc : JobPc, from : Blocks, to : Blocks, dir : Directions,
        cp : Blocks \cup {NoBlock}, cur : Cursors, last : Blocks \cup {NoBlock},
        abort : BOOLEAN, stale : BOOLEAN]

Req == [kind : ReqKind, id : RangeIds, from : Blocks, to : Blocks,
        dir : Directions \cup {"keep"}, stale : BOOLEAN]

NoRow == [from |-> 0, to |-> 0, dir |-> "forward", current |-> NoBlock,
          status |-> "absent", fresh |-> FALSE, tainted |-> FALSE]

NoJob == [pc |-> "idle", from |-> 0, to |-> 0, dir |-> "forward", cp |-> NoBlock,
          cur |-> 0, last |-> NoBlock, abort |-> FALSE, stale |-> FALSE]

NoReq == [kind |-> "none", id |-> 1, from |-> 0, to |-> 0, dir |-> "keep", stale |-> FALSE]

TypeOK ==
  /\ head \in Blocks
  /\ indexed \subseteq 0..head
  /\ rows \in [RangeIds -> Row]
  /\ job \in [Procs -> [RangeIds -> Job]]
  /\ req \in [Handlers -> Req]
  /\ up \in [Procs -> BOOLEAN]

-----------------------------------------------------------------------------
(* What a row says has been indexed, as getIndexingStatus reports it.       *)

Span(f) == f.from..f.to

\* The blocks of window f that a checkpoint c stands for: c is inclusive and
\* clipped into the window.
Reach(f, c) ==
  IF c = NoBlock THEN {}
  ELSE IF f.dir = "forward"
       THEN {b \in Span(f) : b <= c \/ b = f.from}
       ELSE {b \in Span(f) : b >= c \/ b = f.to}

\* walkedBlockCount.
Walked(row) == Reach(row, row.current)

Claims(row) ==
  CASE row.status = "completed"                      -> Span(row)
    [] row.status \in {"indexing", "paused", "error"} -> Walked(row)
    [] OTHER                                          -> {}

Exists(r) == rows[r].status # "absent"

\* What an UPDATE of the row leaves besides the columns it sets.
Touched(row) == [row EXCEPT !.fresh = TRUE]

\* onlyIfIndexing: a loop write takes effect only while the row is 'indexing'.
IfIndexing(r, new) ==
  rows' = IF rows[r].status = "indexing" THEN [rows EXCEPT ![r] = new] ELSE rows

\* History: whoever has read row r now holds a frame that may no longer be the row's.
OutdateJobs(r) ==
  [p \in Procs |->
     [job[p] EXCEPT ![r] =
        IF @.pc \in {"claim", "walk", "store"} THEN [@ EXCEPT !.stale = TRUE] ELSE @]]

OutdateReqs(r, reqs) ==
  [h \in Handlers |->
     IF reqs[h].kind \in {"flip", "flipping"} /\ reqs[h].id = r
     THEN [reqs[h] EXCEPT !.stale = TRUE] ELSE reqs[h]]

\* History: the row after a write by someone whose frame is `stale'.
TaintedBy(stale, row) == IF stale THEN [row EXCEPT !.tainted = TRUE] ELSE row

-----------------------------------------------------------------------------
(* The walk: startIndexingRange.                                            *)

\* The reservation is taken before the first await.
Start(p, r) ==
  /\ up[p]
  /\ job[p][r].pc = "idle"
  /\ job' = [job EXCEPT ![p][r].pc = "select"]
  /\ UNCHANGED <<head, indexed, rows, req, up>>

\* resumeIndexingRange re-validates the status and delegates to Start.
Resume(p, r) ==
  /\ rows[r].status \in {"paused", "error"}
  /\ Start(p, r)

\* The SELECT.  A missing or completed range releases the reservation.
ReadRow(p, r) ==
  /\ job[p][r].pc = "select"
  /\ job' = [job EXCEPT ![p][r] =
       IF rows[r].status \in {"absent", "completed"} THEN NoJob
       ELSE [pc |-> "claim", from |-> rows[r].from, to |-> rows[r].to, dir |-> rows[r].dir,
             cp |-> rows[r].current, cur |-> 0, last |-> NoBlock,
             abort |-> job[p][r].abort, stale |-> FALSE]]
  /\ UNCHANGED <<head, indexed, rows, req, up>>

\* The SELECT rejects: it stands before the try block, so nothing releases the key.
ReadFails(p, r) ==
  /\ job[p][r].pc = "select"
  /\ job' = [job EXCEPT ![p][r].pc = "leaked"]
  /\ UNCHANGED <<head, indexed, rows, req, up>>

\* Faulty: a checkpoint at block 0 taken for none.
FirstCursorFalsy(j) ==
  IF j.dir = "forward"
  THEN IF j.cp \in {NoBlock, 0} THEN j.from ELSE j.cp + 1
  ELSE IF j.cp \in {NoBlock, 0} THEN j.to ELSE j.cp - 1

FirstCursor(j) ==
  IF j.dir = "forward"
  THEN IF j.cp = NoBlock THEN j.from ELSE j.cp + 1
  ELSE IF j.cp = NoBlock THEN j.to ELSE j.cp - 1

\* The claim is a bare UPDATE: it needs no status, and misses a deleted row.
ClaimRow(p, r) ==
  /\ job[p][r].pc = "claim"
  /\ rows' = IF Exists(r) THEN [rows EXCEPT ![r] = [Touched(@) EXCEPT !.status = "indexing"]]
             ELSE rows
  /\ job' = [job EXCEPT ![p][r] = [@ EXCEPT !.pc = "walk", !.cur = FirstCursor(job[p][r])]]
  /\ UNCHANGED <<head, indexed, req, up>>

\* Faulty: stops one block early.
ExhaustedEarly(j) == IF j.dir = "forward" THEN j.cur >= j.to ELSE j.cur <= j.from

Exhausted(j) == IF j.dir = "forward" THEN j.cur > j.to ELSE j.cur < j.from

BatchFrom(j) ==
  IF j.dir = "forward" THEN j.cur
  ELSE IF j.cur - BatchSize + 1 < j.from THEN j.from ELSE j.cur - BatchSize + 1

BatchTo(j) ==
  IF j.dir = "backward" THEN j.cur
  ELSE IF j.cur + BatchSize - 1 > j.to THEN j.to ELSE j.cur + BatchSize - 1

CoveredBlock(j) == IF j.dir = "forward" THEN BatchTo(j) ELSE BatchFrom(j)

\* Faulty: a backward walk does not step.
StepCursorForwardOnly(j) == IF j.dir = "forward" THEN j.cur + BatchSize ELSE j.cur

StepCursor(j) == IF j.dir = "forward" THEN j.cur + BatchSize ELSE j.cur - BatchSize

\* Blocks lo..hi as far as the chain has them: a node returns no logs past its head.
OnChain(lo, hi) == {b \in lo..hi : b <= head}

\* getLogs, decode and insert one batch.
IndexBatch(p, r) ==
  LET j == job[p][r] IN
  /\ j.pc = "walk"
  /\ ~Exhausted(j)
  /\ ~j.abort
  /\ indexed' = indexed \cup OnChain(BatchFrom(j), BatchTo(j))
  /\ job' = [job EXCEPT ![p][r] = [@ EXCEPT !.pc = "store", !.last = CoveredBlock(j)]]
  /\ UNCHANGED <<head, rows, req, up>>

\* Faulty: the checkpoint without onlyIfIndexing.
CheckpointBare(p, r) ==
  LET j == job[p][r] IN
  /\ j.pc = "store"
  /\ rows' = IF Exists(r)
             THEN [rows EXCEPT ![r] = TaintedBy(j.stale, [Touched(@) EXCEPT
                                        !.current = j.last, !.status = "indexing"])]
             ELSE rows
  /\ job' = [job EXCEPT ![p][r] = [@ EXCEPT !.pc = "walk", !.cur = StepCursor(j)]]
  /\ UNCHANGED <<head, indexed, req, up>>

\* Persist the covered block, then step the cursor.
Checkpoint(p, r) ==
  LET j == job[p][r] IN
  /\ j.pc = "store"
  /\ IfIndexing(r, TaintedBy(j.stale, [Touched(rows[r]) EXCEPT !.current = j.last,
                                                                !.status  = "indexing"]))
  /\ job' = [job EXCEPT ![p][r] = [@ EXCEPT !.pc = "walk", !.cur = StepCursor(j)]]
  /\ UNCHANGED <<head, indexed, req, up>>

\* Faulty: an abort persists the stepped cursor.
AbortCheckpointStepped(j) == IF j.last # NoBlock THEN j.cur ELSE j.cp

\* The checkpoint an abort persists: lastCoveredBlock ?? range.currentBlock.
AbortCheckpoint(j) == IF j.last # NoBlock THEN j.last ELSE j.cp

EndBlock(j) == IF j.dir = "forward" THEN j.to ELSE j.from

\* The loop has ended, by exhaustion or by an abort that is read at close-out.
\* The reconciliation and the count before the close-out write change no state
\* of this module.
CloseOut(p, r) ==
  LET j == job[p][r] IN
  /\ j.pc = "walk"
  /\ Exhausted(j) \/ j.abort
  /\ IfIndexing(r,
       TaintedBy(j.stale,
         IF j.abort
         THEN [Touched(rows[r]) EXCEPT
                 !.status  = "paused",
                 !.current = IF AbortCheckpoint(j) = NoBlock THEN @ ELSE AbortCheckpoint(j)]
         ELSE [Touched(rows[r]) EXCEPT !.status = "completed", !.current = EndBlock(j)]))
  /\ job' = [job EXCEPT ![p][r] = NoJob]
  /\ UNCHANGED <<head, indexed, req, up>>

\* Any await in the try block may reject.  A failing batch has stored the chunks
\* before the one that failed; the error write may fail as well; the finally
\* clause releases the key either way.
Throw(p, r) ==
  LET j == job[p][r] IN
  /\ j.pc \in {"claim", "walk", "store"}
  /\ \/ /\ j.pc = "walk" /\ ~Exhausted(j) /\ ~j.abort
        /\ \E b \in BatchFrom(j)..BatchTo(j) : indexed' = indexed \cup OnChain(BatchFrom(j), b)
     \/ UNCHANGED indexed
  /\ \/ IfIndexing(r, [Touched(rows[r]) EXCEPT !.status = "error"])
     \/ UNCHANGED rows
  /\ job' = [job EXCEPT ![p][r] = NoJob]
  /\ UNCHANGED <<head, req, up>>

\* pauseIndexingRange, reached by the pause route while the job is active.
Pause(p, r) ==
  /\ up[p]
  /\ job[p][r].pc # "idle"
  /\ job' = [job EXCEPT ![p][r].abort = TRUE]
  /\ UNCHANGED <<head, indexed, rows, req, up>>

-----------------------------------------------------------------------------
(* Admin requests: each reads, waits, and writes.                           *)

Free(h) == up[Home[h]] /\ req[h].kind = "none"

NextRangeId == 1 + (IF \E r \in RangeIds : Exists(r)
                    THEN CHOOSE r \in RangeIds :
                           Exists(r) /\ \A s \in RangeIds : Exists(s) => s <= r
                    ELSE 0)

\* Faulty: bounds past the head are stored as given.
AddBeginUnclamped(h) ==
  /\ Free(h)
  /\ NextRangeId \in RangeIds
  /\ \E f \in AddRequests :
       /\ CreationBlock <= f.from
       /\ f.from < f.to
       /\ req' = [req EXCEPT ![h] = [kind |-> "add", id |-> NextRangeId, from |-> f.from,
                                     to |-> f.to, dir |-> f.dir, stale |-> FALSE]]
  /\ UNCHANGED <<head, indexed, rows, job, up>>

\* addIndexingRange up to the SELECT of getNextRangeId.  A bound past the head
\* is clamped to the head read here, and a window that starts there is refused.
AddBegin(h) ==
  /\ Free(h)
  /\ NextRangeId \in RangeIds
  /\ \E f \in AddRequests :
       /\ CreationBlock <= f.from
       /\ f.from < f.to
       /\ f.to > head => f.from < head
       /\ req' = [req EXCEPT ![h] =
            [kind |-> "add", id |-> NextRangeId, from |-> f.from,
             to |-> IF f.to > head THEN head ELSE f.to, dir |-> f.dir, stale |-> FALSE]]
  /\ UNCHANGED <<head, indexed, rows, job, up>>

\* Faulty: an upsert instead of the INSERT and its retry.
AddInsertOver(h) ==
  LET q == req[h] IN
  /\ q.kind \in {"add", "readd"}
  /\ rows' = [rows EXCEPT ![q.id] =
       [from |-> q.from, to |-> q.to, dir |-> q.dir, current |-> NoBlock,
        status |-> "pending", fresh |-> TRUE, tainted |-> FALSE]]
  /\ req' = [req EXCEPT ![h] = NoReq]
  /\ UNCHANGED <<head, indexed, job, up>>

\* The INSERT.  On a duplicate key the first try mints a new id (NextRangeId
\* within the bound); the second one answers an error.
AddInsert(h) ==
  LET q == req[h] IN
  /\ q.kind \in {"add", "readd"}
  /\ IF Exists(q.id)
     THEN /\ UNCHANGED rows
          /\ req' = [req EXCEPT ![h] =
               IF q.kind = "add" /\ NextRangeId \in RangeIds
               THEN [q EXCEPT !.kind = "readd", !.id = NextRangeId]
               ELSE NoReq]
     ELSE /\ rows' = [rows EXCEPT ![q.id] =
               [from |-> q.from, to |-> q.to, dir |-> q.dir, current |-> NoBlock,
                status |-> "pending", fresh |-> TRUE, tainted |-> FALSE]]
          /\ req' = [req EXCEPT ![h] = NoReq]
  /\ UNCHANGED <<head, indexed, job, up>>

\* updateIndexingRange up to its last check.  An edit of the priority alone
\* writes back the bounds it read and leaves the direction.
PatchBegin(h, r) ==
  /\ Free(h)
  /\ Exists(r)
  /\ rows[r].status # "indexing"
  /\ \E f \in PatchRequests \cup {[from |-> rows[r].from, to |-> rows[r].to, dir |-> "keep"]} :
       /\ CreationBlock <= f.from
       /\ f.from < f.to
       /\ req' = [req EXCEPT ![h] = [kind |-> "patch", id |-> r, from |-> f.from,
                                     to |-> f.to, dir |-> f.dir, stale |-> FALSE]]
  /\ UNCHANGED <<head, indexed, rows, job, up>>

\* The row an edit leaves.  It is tainted when it now claims blocks it did not
\* claim, or reaches past the head.
Patched(row, q) ==
  LET new == [Touched(row) EXCEPT !.from = q.from, !.to = q.to,
                                  !.dir = IF q.dir = "keep" THEN @ ELSE q.dir]
  IN  TaintedBy(~(Claims(new) \subseteq Claims(row)) \/ q.to > head, new)

SameFrame(a, b) == a.from = b.from /\ a.to = b.to /\ a.dir = b.dir

\* The UPDATE is bare: whatever the row has become since, it takes the bounds.
PatchWrite(h) ==
  LET q == req[h]
      new == Patched(rows[q.id], q)
  IN
  /\ q.kind = "patch"
  /\ IF Exists(q.id)
     THEN /\ rows' = [rows EXCEPT ![q.id] = new]
          /\ IF SameFrame(rows[q.id], new)
             THEN /\ job' = job
                  /\ req' = [req EXCEPT ![h] = NoReq]
             ELSE /\ job' = OutdateJobs(q.id)
                  /\ req' = OutdateReqs(q.id, [req EXCEPT ![h] = NoReq])
     ELSE /\ UNCHANGED <<rows, job>>
          /\ req' = [req EXCEPT ![h] = NoReq]
  /\ UNCHANGED <<head, indexed, up>>

DeleteBegin(h, r) ==
  /\ Free(h)
  /\ Exists(r)
  /\ rows[r].status # "indexing"
  /\ req' = [req EXCEPT ![h] = [NoReq EXCEPT !.kind = "delete", !.id = r]]
  /\ UNCHANGED <<head, indexed, rows, job, up>>

\* Events stay stored; the id may be minted again.
DeleteWrite(h) ==
  LET r == req[h].id IN
  /\ req[h].kind = "delete"
  /\ rows' = [rows EXCEPT ![r] = NoRow]
  /\ job' = OutdateJobs(r)
  /\ req' = OutdateReqs(r, [req EXCEPT ![h] = NoReq])
  /\ UNCHANGED <<head, indexed, up>>

AtEnd(row) ==
  /\ row.current # NoBlock
  /\ IF row.dir = "forward" THEN row.current >= row.to ELSE row.current <= row.from

\* The pause route without an active job: a row whose checkpoint is at its end
\* is to become 'completed' ...
FlipBegin(h, r) ==
  /\ Free(h)
  /\ job[Home[h]][r].pc = "idle"
  /\ Exists(r)
  /\ AtEnd(rows[r])
  /\ req' = [req EXCEPT ![h] = [NoReq EXCEPT !.kind = "flip", !.id = r]]
  /\ UNCHANGED <<head, indexed, rows, job, up>>

\* ... unless updateRangeStatus finds it gone or 'indexing' ...
FlipCheck(h) ==
  LET r == req[h].id IN
  /\ req[h].kind = "flip"
  /\ req' = [req EXCEPT ![h] =
       IF rows[r].status \in {"absent", "indexing"} THEN NoReq ELSE [@ EXCEPT !.kind = "flipping"]]
  /\ UNCHANGED <<head, indexed, rows, job, up>>

\* ... and then it writes, bare.
FlipWrite(h) ==
  LET r == req[h].id IN
  /\ req[h].kind = "flipping"
  /\ rows' = IF Exists(r)
             THEN [rows EXCEPT ![r] =
                     TaintedBy(req[h].stale, [Touched(@) EXCEPT !.status = "completed"])]
             ELSE rows
  /\ req' = [req EXCEPT ![h] = NoReq]
  /\ UNCHANGED <<head, indexed, job, up>>

-----------------------------------------------------------------------------
(* The environment.                                                         *)

\* A process dies: its jobs and its requests are gone, the database stays.
Crash(p) ==
  /\ up[p]
  /\ up' = [up EXCEPT ![p] = FALSE]
  /\ job' = [job EXCEPT ![p] = [r \in RangeIds |-> NoJob]]
  /\ req' = [h \in Handlers |-> IF Home[h] = p THEN NoReq ELSE req[h]]
  /\ UNCHANGED <<head, indexed, rows>>

\* reconcileInterruptedRanges: one UPDATE over the rows not written lately.
Reconciled(row) ==
  IF row.status = "indexing" /\ ~row.fresh THEN [Touched(row) EXCEPT !.status = "error"] ELSE row

\* server.ts awaits the reconciliation before it listens.
Boot(p) ==
  /\ p \in Standalone
  /\ ~up[p]
  /\ up' = [up EXCEPT ![p] = TRUE]
  /\ rows' = [r \in RangeIds |-> Reconciled(rows[r])]
  /\ UNCHANGED <<head, indexed, job, req>>

\* It boots even if the reconciliation failed; the vite bridge does not reconcile.
BootUnreconciled(p) ==
  /\ ~up[p]
  /\ up' = [up EXCEPT ![p] = TRUE]
  /\ UNCHANGED <<head, indexed, rows, job, req>>

\* More than INTERRUPTED_ROW_STALE_MS pass without a write to row r.
Age(r) ==
  /\ rows[r].fresh
  /\ rows' = [rows EXCEPT ![r].fresh = FALSE]
  /\ UNCHANGED <<head, indexed, job, req, up>>

NewBlock ==
  /\ head < MaxBlock
  /\ head' = head + 1
  /\ UNCHANGED <<indexed, rows, job, req, up>>

-----------------------------------------------------------------------------
Init ==
  /\ head \in Blocks
  /\ indexed = {}
  /\ rows = [r \in RangeIds |-> NoRow]
  /\ job = [p \in Procs |-> [r \in RangeIds |-> NoJob]]
  /\ req = [h \in Handlers |-> NoReq]
  /\ up = [p \in Procs |-> TRUE]

JobStep(p, r) ==
  \/ ReadRow(p, r) \/ ReadFails(p, r) \/ ClaimRow(p, r) \/ IndexBatch(p, r)
  \/ Checkpoint(p, r) \/ CloseOut(p, r) \/ Throw(p, r)

RequestStep(h) ==
  \/ AddBegin(h) \/ AddInsert(h) \/ PatchWrite(h) \/ DeleteWrite(h)
  \/ FlipCheck(h) \/ FlipWrite(h)
  \/ \E r \in RangeIds : PatchBegin(h, r) \/ DeleteBegin(h, r) \/ FlipBegin(h, r)

OperatorStep(p, r) == Start(p, r) \/ Resume(p, r) \/ Pause(p, r)

Next ==
  \/ \E p \in Procs, r \in RangeIds : JobStep(p, r) \/ OperatorStep(p, r)
  \/ \E h \in Handlers : RequestStep(h)
  \/ \E p \in Procs : Crash(p) \/ Boot(p) \/ BootUnreconciled(p)
  \/ \E r \in RangeIds : Age(r)
  \/ NewBlock

Spec == Init /\ [][Next]_vars

\* Every await of a walk is answered in the end: RPC and database calls resolve
\* or reject, and the event loop runs what follows.  Nothing is fair about
\* operators, crashes, restarts or the chain.
FairSpec == Spec /\ \A p \in Procs, r \in RangeIds : WF_vars(JobStep(p, r))
-----------------------------------------------------------------------------
(* Properties.                                                              *)

\* What getIndexingStatus reports as indexed is stored: on every row that no
\* stale walk or flip wrote and no edit widened, each block up to the checkpoint,
\* or of the whole window once it is 'completed', has its events in the table,
\* whatever pauses, failures, crashes, resumes and second walks came before.
ClaimsStored == \A r \in RangeIds : ~rows[r].tainted => Claims(rows[r]) \subseteq indexed

Claiming(r)  == \E p \in Procs : job[p][r].pc = "claim" /\ job'[p][r].pc = "walk"
Flipping(r)  == \E h \in Handlers : req[h].kind = "flipping" /\ req[h].id = r /\ req'[h].kind = "none"
Deleting(r)  == \E h \in Handlers : req[h].kind = "delete" /\ req[h].id = r /\ req'[h].kind = "none"

\* A row that was paused, failed or completed leaves that status only for
\* 'indexing' by a claim, for 'completed' by the pause route, or by its deletion:
\* a draining walk, of this process or of another, neither resurrects
\* 'indexing' nor marks 'completed' a row settled underneath it.
SettledStays ==
  [][\A r \in RangeIds :
       rows[r].status \in {"paused", "error", "completed"} /\ rows'[r].status # rows[r].status =>
         \/ rows'[r].status = "indexing" /\ Claiming(r)
         \/ rows'[r].status = "completed" /\ Flipping(r)
         \/ rows'[r].status = "absent" /\ Deleting(r)]_vars

\* With one process, no step makes an unedited row forget blocks it has walked:
\* an abort before the first batch, a failure, a crash or a resume keep the
\* checkpoint.
NoRewind ==
  [][\A r \in RangeIds :
       Exists(r) /\ rows'[r].status # "absent" /\ SameFrame(rows[r], rows'[r]) /\ ~rows'[r].tainted
         => Walked(rows[r]) \subseteq Walked(rows'[r])]_vars

\* Two adds that minted the same id: the one that loses does not put the
\* winner's row, which may be walked by then, back to 'pending'.
AddsDoNotReset ==
  [][\A r \in RangeIds :
       Exists(r) /\ rows'[r].status = "pending" => rows[r].status = "pending"]_vars

\* A start that has reserved its range settles: the walk ends and the key is
\* released, or the SELECT failed.
JobsSettle ==
  \A p \in Procs, r \in RangeIds :
    job[p][r].pc \notin {"idle", "leaked"} ~> job[p][r].pc \in {"idle", "leaked"}
=============================================================================
