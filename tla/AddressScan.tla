----------------------------- MODULE AddressScan -----------------------------
(***************************************************************************)
(* The deep-scan jobs of src/src/services/AddressScanService.ts: one row   *)
(* per address in address_scan_jobs, the findings a walk stores, the       *)
(* registry of running walks with its bounded slots and its queue, and the *)
(* requests that create, replace, pause, resume, extend and delete jobs.   *)
(*                                                                         *)
(* A walk moves a cursor over the blocks from..to of its job.  It compares *)
(* the balance at its cursor with the balance a batch further on: equal    *)
(* balances skip the segment, different ones send it to the first block    *)
(* that changed the balance, whose transactions it stores.                 *)
(***************************************************************************)
EXTENDS Integers, Sequences, FiniteSets, SequencesExt

CONSTANTS
  Addrs,       \* addresses (of one chain)
  Handlers,    \* requests in flight at once
  Slots,       \* MAX_CONCURRENT_SCAN_JOBS
  MaxBlock,    \* bound: blocks are 0..MaxBlock
  FirstHead,   \* the head when the process first starts
  Batch,       \* INITIAL_CHECKPOINT_BATCH_BLOCKS; the smallest batch is 1
  Linear,      \* LINEAR_SCAN_THRESHOLD_BLOCKS
  Retries,     \* MAX_TRANSIENT_RETRIES_AT_MIN_BATCH
  Balance,     \* Balance[a][b]: the balance of a after block b
  Direct,      \* Direct[a]: blocks with a transaction from or to a
  Jobs,        \* Jobs[a]: the bounds and the trace option a POST for a asks for
  Asks,        \* Asks[a]: the other requests made for a
  Faults       \* what may go wrong: "rpc", "db", "crash"

Blocks  == 0..MaxBlock
Cursors == -1..MaxBlock

\* Before genesis the balance is 0.
BalanceAt(a, b) == IF b < 0 THEN 0 ELSE Balance[a][b]

Changes(a) == {b \in Blocks : BalanceAt(a, b) # BalanceAt(a, b - 1)}

ASSUME SizesAssumption ==
  /\ IsFiniteSet(Addrs) /\ Addrs # {}
  /\ Slots \in Nat \ {0} /\ Batch \in Nat \ {0} /\ Linear \in Nat \ {0} /\ Retries \in Nat
  /\ MaxBlock \in Nat /\ FirstHead \in Blocks
  /\ Jobs \in [Addrs -> SUBSET [from : Blocks, to : Blocks, traced : BOOLEAN]]
  /\ \A a \in Addrs : \A j \in Jobs[a] : j.from <= j.to
  /\ Asks \in [Addrs -> SUBSET {"pause", "resume", "catchup", "delete"}]
  /\ Faults \subseteq {"rpc", "db", "crash"}

\* Assumption 1 of the file's header: a transaction of the address changes its
\* balance, and no two changes cancel out.
ASSUME HonestBalances ==
  /\ Balance \in [Addrs -> [Blocks -> Nat]]
  /\ \A a \in Addrs :
       /\ Direct[a] \subseteq Changes(a)
       /\ \A b, c \in Cursors :
            b < c /\ BalanceAt(a, b) = BalanceAt(a, c) => Changes(a) \cap ((b + 1)..c) = {}

VARIABLES
  rows,      \* address_scan_jobs
  findings,  \* findings[a]: blocks whose transactions are stored for a
  internals, \* internals[a]: blocks whose internal transactions are stored for a
  walk,      \* runningScanJobs, and where the walk of a stands
  queue,     \* scanQueue
  req,       \* requests in flight
  head,      \* the chain head
  wiped      \* history: the findings of a were deleted and its row not yet reset

vars == <<rows, findings, internals, walk, queue, req, head, wiped>>
tables == <<rows, findings, internals, wiped>>

\* traces: not asked for; asked for; asked for and refused by the provider.
Statuses == {"absent", "pending", "running", "paused", "error", "complete"}

Row == [status : Statuses,
        from : Blocks, to : Blocks, cur : Cursors, traces : {"off", "on", "refused"}]

NoRow == [status |-> "absent", from |-> 0, to |-> 0, cur |-> -1, traces |-> "off"]

\* at stands for `first.block', was for the status a walk has observed.
Walk == [pc : {"idle", "read", "flip", "verify", "client", "test", "segment", "own", "insert",
               "trace", "checkpoint", "fail", "pause", "finish"},
         abort : BOOLEAN, was : {"pending", "paused", "error"}, from : Blocks, to : Blocks,
         cur : Cursors, at : Blocks, batch : 1..Batch, tries : 0..Retries,
         traces : {"off", "on", "refused"}]

NoWalk == [pc |-> "idle", abort |-> FALSE, was |-> "pending", from |-> 0, to |-> 0, cur |-> -1,
           at |-> 0, batch |-> Batch, tries |-> 0, traces |-> "off"]

NewWalk == [NoWalk EXCEPT !.pc = "read"]

\* What a request keeps of the row it has read.
Seen(row) == [status |-> row.status, from |-> row.from, to |-> row.to]

\* from, to and traces are what a POST asks for.
Req == [pc : {"none", "decide", "wipe", "wipe internals", "upsert", "start", "pause", "requeue",
              "extend", "extended", "delete row"},
        op : {"post", "pause", "resume", "catchup", "delete"},
        a : Addrs, from : Blocks, to : Blocks, traces : {"off", "on"}, force : BOOLEAN,
        seen : [status : Statuses, from : Blocks, to : Blocks]]

NoReq == [pc |-> "none", op |-> "post", a |-> CHOOSE a \in Addrs : TRUE, from |-> 0, to |-> 0,
          traces |-> "off", force |-> FALSE, seen |-> Seen(NoRow)]

TypeOK ==
  /\ rows \in [Addrs -> Row]
  /\ findings \in [Addrs -> SUBSET Blocks]
  /\ internals \in [Addrs -> SUBSET Blocks]
  /\ walk \in [Addrs -> Walk]
  /\ queue \in Seq(Addrs) /\ IsInjective(queue)
  /\ req \in [Handlers -> Req]
  /\ head \in Blocks
  /\ wiped \in [Addrs -> BOOLEAN]

-----------------------------------------------------------------------------
(* The registry.                                                            *)

Active == {a \in Addrs : walk[a].pc # "idle"}

\* The queue without a, which it holds at most once.
Unqueued(a) ==
  IF a \in ToSet(queue) THEN RemoveAt(queue, CHOOSE i \in 1..Len(queue) : queue[i] = a) ELSE queue

\* Faulty: one walk too many.
EnsureOver(a) ==
  IF a \in Active \/ Cardinality(Active) > Slots
  THEN /\ queue' = IF a \in ToSet(queue) THEN queue ELSE Append(queue, a)
       /\ UNCHANGED walk
  ELSE /\ walk' = [walk EXCEPT ![a] = NewWalk]
       /\ UNCHANGED queue

\* Faulty: the start goes to the front of the queue.
EnsureInFront(a) ==
  IF a \in Active \/ Cardinality(Active) >= Slots
  THEN /\ queue' = IF a \in ToSet(queue) THEN queue ELSE <<a>> \o queue
       /\ UNCHANGED walk
  ELSE /\ walk' = [walk EXCEPT ![a] = NewWalk]
       /\ UNCHANGED queue

\* ensureScanRunning
Ensure(a) ==
  IF a \in Active \/ Cardinality(Active) >= Slots
  THEN /\ queue' = IF a \in ToSet(queue) THEN queue ELSE Append(queue, a)
       /\ UNCHANGED walk
  ELSE /\ walk' = [walk EXCEPT ![a] = NewWalk]
       /\ UNCHANGED queue

\* Addresses among the first n of the queue that have no walk: the ones a pump
\* that goes that far starts.  The others are dropped.
Startable(active, n) == ToSet(SubSeq(queue, 1, n)) \ active

\* How far a pump goes: until the slots are taken or the queue is empty.
PumpEnd(active) ==
  CHOOSE n \in 0..Len(queue) :
    /\ n = Len(queue) \/ Cardinality(active \cup Startable(active, n)) >= Slots
    /\ \A k \in 0..(n - 1) : Cardinality(active \cup Startable(active, k)) < Slots

\* The walk of a returns or throws: its slot is freed and the queue is pumped.
End(a) ==
  LET active == Active \ {a}
      n      == PumpEnd(active) IN
  /\ walk' = [b \in Addrs |-> IF b \in Startable(active, n) THEN NewWalk
                              ELSE IF b = a THEN NoWalk ELSE walk[b]]
  /\ queue' = SubSeq(queue, n + 1, Len(queue))

-----------------------------------------------------------------------------
(* The walk.                                                                *)

\* The walk of a goes on as w.
Goes(a, w) == walk' = [walk EXCEPT ![a] = w] /\ UNCHANGED queue

At(a, pc) == walk[a].pc = pc

Restartable == {"pending", "paused", "error"}

ReadRow(a) ==
  LET row == rows[a] IN
  /\ At(a, "read")
  /\ IF row.status \in Restartable
     THEN Goes(a, [walk[a] EXCEPT !.pc = "flip", !.was = row.status, !.from = row.from,
                                  !.to = row.to, !.cur = row.cur, !.traces = row.traces])
     ELSE End(a)
  /\ UNCHANGED <<tables, req, head>>

\* Compare-and-set on the status the walk has observed.
Flip(a) ==
  /\ At(a, "flip")
  /\ rows' = [rows EXCEPT ![a].status = IF @ = walk[a].was THEN "running" ELSE @]
  /\ Goes(a, [walk[a] EXCEPT !.pc = "verify", !.was = "pending"])
  /\ UNCHANGED <<findings, internals, req, head, wiped>>

Owns(a) ==
  /\ rows[a].status = "running"
  /\ rows[a].from = walk[a].from
  /\ rows[a].to = walk[a].to

\* A row replaced underneath is left to its own queued start.
Verify(a) ==
  /\ At(a, "verify")
  /\ IF Owns(a) THEN Goes(a, [walk[a] EXCEPT !.pc = "client"]) ELSE End(a)
  /\ UNCHANGED <<tables, req, head>>

\* The client and the baseline balance are there.
Client(a) ==
  /\ At(a, "client")
  /\ Goes(a, [walk[a] EXCEPT !.pc = "test"])
  /\ UNCHANGED <<tables, req, head>>

\* The condition of the loop, and what follows it.
Test(a) ==
  LET w == walk[a] IN
  /\ At(a, "test")
  /\ Goes(a, [w EXCEPT !.pc = IF w.abort THEN "pause"
                              ELSE IF w.cur < w.to THEN "segment" ELSE "finish"])
  /\ UNCHANGED <<tables, req, head>>

SegmentEnd(w) == IF w.cur + w.batch > w.to THEN w.to ELSE w.cur + w.batch

Same(a, b, c) == BalanceAt(a, b) = BalanceAt(a, c)

\* Both balances are equal: the segment is empty, and the cursor jumps.
Skip(a) ==
  LET w == walk[a] IN
  /\ At(a, "segment")
  /\ SegmentEnd(w) <= head
  /\ Same(a, w.cur, SegmentEnd(w))
  /\ Goes(a, [w EXCEPT !.pc = "checkpoint", !.cur = SegmentEnd(w), !.tries = 0])
  /\ UNCHANGED <<tables, req, head>>

\* findFirstBalanceChange: halving down to Linear blocks, then one by one.
Segment == [lo : Cursors, hi : Cursors]

Halved(a, from, s) ==
  LET mid == (s.lo + s.hi) \div 2 IN
  IF Same(a, mid, from) THEN [s EXCEPT !.lo = mid] ELSE [s EXCEPT !.hi = mid]

Nearest(a, from, s) ==
  CHOOSE b \in (s.lo + 1)..s.hi :
    /\ b = s.hi \/ ~Same(a, from, b)
    /\ \A c \in (s.lo + 1)..(b - 1) : Same(a, from, c)

Search(a, from) ==
  LET S[s \in Segment] ==
        IF s.hi - s.lo > Linear THEN S[Halved(a, from, s)] ELSE Nearest(a, from, s)
  IN S

FirstChange(a, from, to) == Search(a, from)[[lo |-> from, hi |-> to]]

\* Where the walk goes once the transactions of its block are stored.
Traced(w) == [w EXCEPT !.pc = IF w.traces = "on" THEN "trace" ELSE "checkpoint",
                       !.cur = IF w.traces = "on" THEN @ ELSE w.at]

\* The first change and its block are there.  A walk that is aborted leaves before it
\* stores transactions of the address; a block without any needs no ownership check.
Change(a) ==
  LET w == [walk[a] EXCEPT !.at = FirstChange(a, walk[a].cur, SegmentEnd(walk[a])), !.tries = 0] IN
  /\ At(a, "segment")
  /\ SegmentEnd(walk[a]) <= head
  /\ ~Same(a, walk[a].cur, SegmentEnd(walk[a]))
  /\ Goes(a, IF w.at \notin Direct[a] THEN Traced(w)
             ELSE [w EXCEPT !.pc = IF w.abort THEN "pause" ELSE "own"])
  /\ UNCHANGED <<tables, req, head>>

\* stillOwnsJobRow; a walk that has lost its row leaves the loop.
Own(a) ==
  /\ At(a, "own")
  /\ Goes(a, [walk[a] EXCEPT !.pc = IF Owns(a) THEN "insert"
                                    ELSE IF walk[a].abort THEN "pause" ELSE "finish"])
  /\ UNCHANGED <<tables, req, head>>

\* persistFindings
Insert(a) ==
  /\ At(a, "insert")
  /\ findings' = [findings EXCEPT ![a] = @ \cup {walk[a].at}]
  /\ Goes(a, Traced(walk[a]))
  /\ UNCHANGED <<rows, internals, req, head, wiped>>

\* Frames are stored; or the provider does not trace; or a failure is passed over.
Trace(a) ==
  LET w == [walk[a] EXCEPT !.pc = "checkpoint", !.cur = walk[a].at] IN
  /\ At(a, "trace")
  /\ \/ internals' = [internals EXCEPT ![a] = @ \cup {w.at}] /\ Goes(a, w)
     \/ UNCHANGED internals /\ Goes(a, [w EXCEPT !.traces = "refused"])
     \/ UNCHANGED internals /\ Goes(a, w)
  /\ UNCHANGED <<rows, findings, req, head, wiped>>

\* updateScanJobRow with onlyIfRunning
IfRunning(a, row) == rows' = [rows EXCEPT ![a] = IF @.status = "running" THEN row ELSE @]

\* Faulty: the checkpoint is written whatever the row has become.
CheckpointBare(a) ==
  /\ At(a, "checkpoint")
  /\ rows' = [rows EXCEPT ![a].cur = walk[a].cur]
  /\ Goes(a, [walk[a] EXCEPT !.pc = "test", !.at = 0])
  /\ UNCHANGED <<findings, internals, req, head, wiped>>

Checkpoint(a) ==
  /\ At(a, "checkpoint")
  /\ IfRunning(a, [rows[a] EXCEPT !.cur = walk[a].cur,
                                  !.traces = IF walk[a].traces = "refused" THEN "refused" ELSE @])
  /\ Goes(a, [walk[a] EXCEPT !.pc = "test", !.at = 0])
  /\ UNCHANGED <<findings, internals, req, head, wiped>>

\* A call inside the try block rejects for good; so does every read past the head, and a
\* statement that rejects does not look like a cap either.
Inside == {"segment", "own", "insert", "checkpoint"}

Beyond(a) == At(a, "segment") /\ SegmentEnd(walk[a]) > head

Fails(a) ==
  /\ walk[a].pc \in Inside
  /\ Beyond(a) \/ (At(a, "segment") /\ "rpc" \in Faults) \/ (~At(a, "segment") /\ "db" \in Faults)
  /\ Goes(a, [walk[a] EXCEPT !.pc = "fail"])
  /\ UNCHANGED <<tables, req, head>>

\* Faulty: a cap at the smallest batch is retried for ever.
CappedForever(a) ==
  LET w == walk[a] IN
  /\ At(a, "segment")
  /\ "rpc" \in Faults
  /\ w.batch > 1 \/ w.tries < Retries
  /\ Goes(a, IF w.batch > 1 THEN [w EXCEPT !.pc = "test", !.batch = @ \div 2]
             ELSE [w EXCEPT !.pc = "test"])
  /\ UNCHANGED <<tables, req, head>>

\* A cap: a smaller batch, or a few more tries with the smallest one.
Capped(a) ==
  LET w == walk[a] IN
  /\ At(a, "segment")
  /\ "rpc" \in Faults
  /\ w.batch > 1 \/ w.tries < Retries
  /\ Goes(a, IF w.batch > 1 THEN [w EXCEPT !.pc = "test", !.batch = @ \div 2]
             ELSE [w EXCEPT !.pc = "test", !.tries = @ + 1])
  /\ UNCHANGED <<tables, req, head>>

\* failJob, and the close-out of an aborted and of a finished walk.
Settle(a, pc, row) ==
  /\ At(a, pc)
  /\ IfRunning(a, row)
  /\ End(a)
  /\ UNCHANGED <<findings, internals, req, head, wiped>>

FailJob(a) == Settle(a, "fail", [rows[a] EXCEPT !.status = "error"])
PauseJob(a) == Settle(a, "pause", [rows[a] EXCEPT !.status = "paused"])
Finish(a) == Settle(a, "finish", [rows[a] EXCEPT !.status = "complete", !.cur = walk[a].to])

\* A call outside the try block rejects: the walk ends and writes nothing.
Outside == {"read", "flip", "verify", "client", "fail", "pause", "finish"}

Throws(a) ==
  /\ walk[a].pc \in Outside
  /\ \/ At(a, "client") /\ "rpc" \in Faults
     \/ ~At(a, "client") /\ "db" \in Faults
  /\ End(a)
  /\ UNCHANGED <<tables, req, head>>

-----------------------------------------------------------------------------
(* Requests.  Each statement is a step of its own.                          *)

Answer(h) == req' = [req EXCEPT ![h] = NoReq]
Step(h, pc) == req' = [req EXCEPT ![h].pc = pc]
In(h, op, pc) == req[h].op = op /\ req[h].pc = pc

\* The SELECT every request but a DELETE starts with.
Read(h, op, a, from, to, traces, force) ==
  /\ req[h].pc = "none"
  /\ req' = [req EXCEPT ![h] = [pc |-> "decide", op |-> op, a |-> a, from |-> from, to |-> to,
                                traces |-> traces, force |-> force, seen |-> Seen(rows[a])]]
  /\ UNCHANGED <<tables, walk, queue, head>>

Post(h, a) ==
  \E j \in Jobs[a], force \in BOOLEAN :
    Read(h, "post", a, j.from, j.to, IF j.traced THEN "on" ELSE "off", force)

Ask(h, op, a) == Read(h, op, a, 0, 0, "off", FALSE)

Decision(q) ==
  IF q.seen.status = "absent" THEN "create"
  ELSE IF q.force THEN "replace"
  ELSE IF q.from = q.seen.from /\ q.to = q.seen.to THEN "idempotent" ELSE "conflict"

\* Abort the walk of a and drop its queued start.
Stop(a) ==
  /\ walk' = [walk EXCEPT ![a].abort = (walk[a].pc # "idle")]
  /\ queue' = Unqueued(a)

\* createOrReplaceScanJob up to its first write
Decide(h) ==
  LET q == req[h]
      d == Decision(q) IN
  /\ In(h, "post", "decide")
  /\ \/ d = "create" /\ Step(h, "upsert") /\ UNCHANGED <<walk, queue>>
     \/ d = "replace" /\ Step(h, "wipe") /\ Stop(q.a)
     \/ /\ d = "idempotent" /\ Answer(h)
        /\ IF q.seen.status \in {"pending", "error"} /\ q.a \notin Active
           THEN Ensure(q.a) ELSE UNCHANGED <<walk, queue>>
     \/ d = "conflict" /\ Answer(h) /\ UNCHANGED <<walk, queue>>
  /\ UNCHANGED <<tables, head>>

\* deleteScanJob up to its first write
Delete(h, a) ==
  /\ req[h].pc = "none"
  /\ "delete" \in Asks[a]
  /\ req' = [req EXCEPT ![h] = [NoReq EXCEPT !.pc = "wipe", !.op = "delete", !.a = a]]
  /\ Stop(a)
  /\ UNCHANGED <<tables, head>>

Wipe(h) ==
  LET a == req[h].a IN
  /\ req[h].pc = "wipe"
  /\ findings' = [findings EXCEPT ![a] = {}]
  /\ wiped' = [wiped EXCEPT ![a] = TRUE]
  /\ Step(h, "wipe internals")
  /\ UNCHANGED <<rows, internals, walk, queue, head>>

WipeInternals(h) ==
  LET q == req[h] IN
  /\ q.pc = "wipe internals"
  /\ internals' = [internals EXCEPT ![q.a] = {}]
  /\ Step(h, IF q.op = "delete" THEN "delete row" ELSE "upsert")
  /\ UNCHANGED <<rows, findings, walk, queue, head, wiped>>

\* Faulty: a replaced job keeps its checkpoint.
UpsertKeepsCursor(h) ==
  LET q == req[h] IN
  /\ q.pc = "upsert"
  /\ rows' = [rows EXCEPT ![q.a] = [status |-> "pending", from |-> q.from, to |-> q.to,
                                    cur |-> IF @.status = "absent" THEN q.from - 1 ELSE @.cur,
                                    traces |-> q.traces]]
  /\ wiped' = [wiped EXCEPT ![q.a] = FALSE]
  /\ Step(h, "start")
  /\ UNCHANGED <<findings, internals, walk, queue, head>>

Upsert(h) ==
  LET q == req[h] IN
  /\ q.pc = "upsert"
  /\ rows' = [rows EXCEPT ![q.a] = [status |-> "pending", from |-> q.from, to |-> q.to,
                                    cur |-> q.from - 1, traces |-> q.traces]]
  /\ wiped' = [wiped EXCEPT ![q.a] = FALSE]
  /\ Step(h, "start")
  /\ UNCHANGED <<findings, internals, walk, queue, head>>

\* The row is read again, and its walk ensured.
Start(h) ==
  LET a == req[h].a IN
  /\ req[h].pc = "start"
  /\ Answer(h)
  /\ IF rows[a].status # "absent" THEN Ensure(a) ELSE UNCHANGED <<walk, queue>>
  /\ UNCHANGED <<tables, head>>

DeleteRow(h) ==
  LET a == req[h].a IN
  /\ req[h].pc = "delete row"
  /\ rows' = [rows EXCEPT ![a] = NoRow]
  /\ wiped' = [wiped EXCEPT ![a] = FALSE]
  /\ Answer(h)
  /\ UNCHANGED <<findings, internals, walk, queue, head>>

\* The pause route and pauseScanJob; the walk writes 'paused' itself.
Pause(h) ==
  LET q == req[h] IN
  /\ In(h, "pause", "decide")
  /\ Answer(h)
  /\ IF q.seen.status = "running" /\ q.a \in Active THEN Stop(q.a) ELSE UNCHANGED <<walk, queue>>
  /\ UNCHANGED <<tables, head>>

Resume(h) ==
  LET q == req[h] IN
  /\ In(h, "resume", "decide")
  /\ IF q.seen.status = "paused" /\ q.a \notin Active THEN Step(h, "requeue") ELSE Answer(h)
  /\ UNCHANGED <<tables, walk, queue, head>>

Requeue(h) ==
  LET a == req[h].a IN
  /\ req[h].pc = "requeue"
  /\ rows' = [rows EXCEPT ![a].status = IF @ = "absent" THEN @ ELSE "pending"]
  /\ Step(h, "start")
  /\ UNCHANGED <<findings, internals, walk, queue, head, wiped>>

\* planCatchup against the head; a queued start is dropped before the row changes.
Catchup(h) ==
  LET q == req[h] IN
  /\ In(h, "catchup", "decide")
  /\ IF q.seen.status \notin {"absent", "running"} /\ head > q.seen.to
     THEN /\ req' = [req EXCEPT ![h].pc = "extend", ![h].to = head]
          /\ queue' = Unqueued(q.a)
     ELSE Answer(h) /\ UNCHANGED queue
  /\ UNCHANGED <<tables, walk, head>>

Requeued(status) == IF status = "complete" THEN "pending" ELSE status

\* Compare-and-set on the status and the end the request has read.
Extend(h) ==
  LET q   == req[h]
      row == rows[q.a] IN
  /\ q.pc = "extend"
  /\ rows' = [rows EXCEPT ![q.a] =
                IF row.status = q.seen.status /\ row.to = q.seen.to
                THEN [row EXCEPT !.status = Requeued(@), !.to = q.to] ELSE row]
  /\ Step(h, "extended")
  /\ UNCHANGED <<findings, internals, walk, queue, head, wiped>>

Extended(h) ==
  LET q   == req[h]
      row == rows[q.a] IN
  /\ q.pc = "extended"
  /\ Answer(h)
  /\ IF row.status # "absent" /\ row.to = q.to /\ Requeued(q.seen.status) = "pending"
     THEN Ensure(q.a) ELSE UNCHANGED <<walk, queue>>
  /\ UNCHANGED <<tables, head>>

\* A statement of a request rejects, or the chain does not answer: it is answered 500.
Drop(h) ==
  /\ "db" \in Faults
  /\ req[h].pc # "none"
  /\ Answer(h)
  /\ UNCHANGED <<tables, walk, queue, head>>

-----------------------------------------------------------------------------
NewBlock ==
  /\ head < MaxBlock
  /\ head' = head + 1
  /\ UNCHANGED <<tables, walk, queue, req>>

\* The process dies and starts again.  reconcileInterruptedAddressScans flips the
\* 'running' rows whose last write is two minutes old.
Restart ==
  /\ "crash" \in Faults
  /\ \E stale \in SUBSET {a \in Addrs : rows[a].status = "running"} :
       rows' = [a \in Addrs |-> IF a \in stale THEN [rows[a] EXCEPT !.status = "error"]
                                ELSE rows[a]]
  /\ walk' = [a \in Addrs |-> NoWalk]
  /\ queue' = <<>>
  /\ req' = [h \in Handlers |-> NoReq]
  /\ UNCHANGED <<findings, internals, head, wiped>>

Init ==
  /\ rows = [a \in Addrs |-> NoRow]
  /\ findings = [a \in Addrs |-> {}]
  /\ internals = [a \in Addrs |-> {}]
  /\ walk = [a \in Addrs |-> NoWalk]
  /\ queue = <<>>
  /\ req = [h \in Handlers |-> NoReq]
  /\ head = FirstHead
  /\ wiped = [a \in Addrs |-> FALSE]

WalkStep(a) ==
  \/ ReadRow(a) \/ Flip(a) \/ Verify(a) \/ Client(a) \/ Test(a) \/ Skip(a) \/ Change(a)
  \/ Own(a) \/ Insert(a) \/ Trace(a) \/ Checkpoint(a) \/ Fails(a) \/ Capped(a) \/ FailJob(a)
  \/ PauseJob(a) \/ Finish(a) \/ Throws(a)

RequestStep(h) ==
  \/ Decide(h) \/ Wipe(h) \/ WipeInternals(h) \/ Upsert(h) \/ Start(h) \/ DeleteRow(h)
  \/ Pause(h) \/ Resume(h) \/ Requeue(h) \/ Catchup(h) \/ Extend(h) \/ Extended(h) \/ Drop(h)

Arrives(h, a) ==
  Post(h, a) \/ Delete(h, a) \/ \E op \in Asks[a] \ {"delete"} : Ask(h, op, a)

Next ==
  \/ \E a \in Addrs : WalkStep(a)
  \/ \E h \in Handlers : RequestStep(h) \/ \E a \in Addrs : Arrives(h, a)
  \/ NewBlock
  \/ Restart

Spec == Init /\ [][Next]_vars

\* What a walk awaits is answered or rejected in the end.
FairSpec == Spec /\ \A a \in Addrs : WF_vars(WalkStep(a))

-----------------------------------------------------------------------------
(* Properties.                                                              *)

\* The types hold, and what a job claims as walked is found: up to its cursor, and to its end
\* once it is complete, every block with a transaction of the address is in the findings, after
\* any failures, aborts, restarts, replacements and extensions.  Between the wipe of a
\* replacement or a deletion and the write of the row it does not hold.
CursorFound ==
  /\ TypeOK
  /\ \A a \in Addrs :
       LET row == rows[a] IN
       row.status # "absent" /\ ~wiped[a] =>
         /\ {b \in Direct[a] : row.from <= b /\ b <= row.cur} \subseteq findings[a]
         /\ row.status = "complete" => row.cur = row.to

\* No more walks run than there are slots, and no start waits while a slot is free: on
\* every path on which a walk ends its slot goes to the next one in the queue.
Slotted ==
  /\ Cardinality(Active) <= Slots
  /\ Cardinality(Active) < Slots => ToSet(queue) \subseteq Active

\* A walk that drains after its job was replaced or deleted leaves the new row alone:
\* once it has verified its bounds, it writes only to a row that has them.
DrainingHarmless ==
  [][\A a \in Addrs :
       WalkStep(a) /\ ~At(a, "flip") /\ rows'[a] # rows[a] =>
         rows[a].from = walk[a].from /\ rows[a].to = walk[a].to]_vars

\* A walk ends, whatever mix of errors it meets; it may be started again at once.
WalksEnd == \A a \in Addrs : walk[a].pc \notin {"idle", "read"} ~> walk[a].pc \in {"idle", "read"}

\* A queued start is taken up or withdrawn.
QueueDrains == \A a \in Addrs : a \in ToSet(queue) ~> a \notin ToSet(queue)

\* Addresses with a request under way.
Busy == {req[h].a : h \in {g \in Handlers : req[g].pc # "none"}}

\* While the process lives, a row that says 'running' has a walk: the comment in the
\* pause route calls a row without one "a restart-stranded job".
RunningWalks ==
  \A a \in Addrs \ Busy : rows[a].status = "running" => a \in Active \cup ToSet(queue)
=============================================================================
