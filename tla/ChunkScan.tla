------------------------------ MODULE ChunkScan ------------------------------
(***************************************************************************)
(* The on-demand log scans of an address:                                  *)
(* src/src/services/TokenTransferService.ts, whose rows are read page by   *)
(* page, and src/src/services/ApprovalScanService.ts, whose loop restates  *)
(* the first one's.  A scan sweeps a window newest chunk first under a     *)
(* budget, and its result is cached for a minute.                          *)
(***************************************************************************)
EXTENDS Integers, Sequences, FiniteSets, SequencesExt

CONSTANTS
  Handlers,      \* requests in flight at once
  Windows,       \* depths that are asked for, in blocks
  Depth,         \* the depth the reader asks for
  MaxBlock,      \* bound: blocks are 0..MaxBlock
  FirstHead,     \* the head at the start
  Logs,          \* logs of the address, each [n, i, q, p]
  Pairs,         \* what an approval is of: kind, token, spender
  InitialChunk, MinChunk, MaxChunk,  \* INITIAL_, MIN_ and MAX_CHUNK_BLOCKS
  MaxCalls,      \* DEFAULT_MAX_SCAN_CALLS
  Queries,       \* getLogs calls of a transfer chunk
  CacheCap,      \* TRANSFERS_CACHE_MAX_ENTRIES, APPROVALS_CACHE_MAX_ENTRIES
  HistoryCap,    \* MAX_APPROVAL_HISTORY_EVENTS
  Limit,         \* rows of a page
  Faults         \* what may go wrong: "cap", "rpc", "time"

Blocks == 0..MaxBlock
None == -1
Kinds == {"transfers", "approvals"}

\* A log has a place in its block, the query of an approval scan that brings it, and a pair.
ASSUME LogsAssumption ==
  /\ IsFiniteSet(Logs) /\ Logs \subseteq [n : Blocks, i : Nat, q : {1, 2}, p : Pairs]
  /\ \A l, k \in Logs : l.n = k.n /\ l.i = k.i => l = k

ASSUME SizesAssumption ==
  /\ MaxBlock \in Nat /\ FirstHead \in Blocks /\ Windows \subseteq Nat \ {0} /\ Depth \in Windows
  /\ MinChunk \in Nat \ {0} /\ InitialChunk \in Nat /\ MaxChunk \in Nat
  /\ MinChunk <= InitialChunk /\ InitialChunk <= MaxChunk
  /\ {MaxCalls, Queries, CacheCap, HistoryCap, Limit} \subseteq Nat \ {0}
  /\ Faults \subseteq {"cap", "rpc", "time"}

VARIABLES
  head,   \* the chain head
  cache,  \* cache[k]: transfersCache and approvalsCache, the least recent entry first
  scan,   \* scan[h]: the request a handler serves
  view    \* history: what a reader that pages through the transfers has seen

vars == <<head, cache, scan, view>>

-----------------------------------------------------------------------------
(* Logs, results and requests.                                              *)

Newer(l, k) == l.n > k.n \/ (l.n = k.n /\ l.i > k.i)

\* How many logs of S come before l.
Rank(S, l) == Cardinality({k \in S : Newer(k, l)})

\* Faulty: oldest first.
SortedUp(S) == [i \in 1..Cardinality(S) |-> CHOOSE l \in S : Rank(S, l) = Cardinality(S) - i]

\* Newest first.
Sorted(S) == [i \in 1..Cardinality(S) |-> CHOOSE l \in S : Rank(S, l) = i - 1]

Smallest(S) == CHOOSE x \in S : \A y \in S : x <= y

\* s.slice(c, c + n)
Slice(s, c, n) == SubSeq(s, c + 1, Smallest({c + n, Len(s)}))

LogsIn(from, to) == {l \in Logs : l.n \in from..to /\ l.n <= head}

\* The first block of a window that ends at latest.
Oldest(latest, w) == IF latest >= w THEN latest - w + 1 ELSE 0

Coverages == {"complete", "partial", "scan-failed"}

\* What the cache keeps; base is the head from which the scan has started, if it got that far.
Result == [window : Windows, base : Blocks \cup {None}, coverage : Coverages, rows : Seq(Logs),
           cut : BOOLEAN, pairs : SUBSET Pairs, fresh : BOOLEAN]

\* cursor is None but in a request of the reader.
Scan == [pc : {"idle", "head", "sweep", "read"}, kind : Kinds, window : Windows \cup {1},
         cursor : Nat \cup {None}, latest : Blocks \cup {None}, upper : Int, chunk : Int,
         ceiling : Int, calls : 0..(MaxCalls + Queries - 1), found : SUBSET Logs,
         history : Seq(Logs), cut : BOOLEAN, pairs : SUBSET Pairs, coverage : Coverages]

Idle == [pc |-> "idle", kind |-> "transfers", window |-> 1, cursor |-> None, latest |-> None,
         upper |-> 0, chunk |-> 0, ceiling |-> 0, calls |-> 0, found |-> {}, history |-> <<>>,
         cut |-> FALSE, pairs |-> {}, coverage |-> "partial"]

\* asked: a page is under way; whole: all pages were of complete scans, from first to last.
NoView == [asked |-> FALSE, next |-> 0, shown |-> {}, first |-> None, last |-> None, whole |-> TRUE]

View == [asked : BOOLEAN, next : Nat \cup {None}, shown : SUBSET Logs, first : Blocks \cup {None},
         last : Blocks \cup {None}, whole : BOOLEAN]

TypeOK ==
  /\ head \in Blocks
  /\ cache \in [Kinds -> Seq(Result)] /\ \A k \in Kinds : Len(cache[k]) <= CacheCap
  /\ scan \in [Handlers -> Scan]
  /\ \A h \in Handlers : scan[h].chunk <= MaxChunk /\ Len(scan[h].history) <= HistoryCap
  /\ view \in View

-----------------------------------------------------------------------------
(* The cache, and the reader of an answer.                                  *)

\* The entry of a key, which a Map holds once, is deleted.
Without(k, w) ==
  IF \E i \in DOMAIN cache[k] : cache[k][i].window = w
  THEN RemoveAt(cache[k], CHOOSE i \in DOMAIN cache[k] : cache[k][i].window = w)
  ELSE cache[k]

\* writeTransfersCache, writeApprovalsCache: past the cap the least recent entry goes.
Cached(k, r) ==
  LET q == Append(Without(k, r.window), r)
  IN  IF Len(q) > CacheCap THEN Tail(q) ELSE q

\* sliceResult, and what the reader makes of the page that starts at c.
Shown(r, c) ==
  [asked |-> FALSE,
   next  |-> IF c + Limit < Len(r.rows) THEN c + Limit ELSE None,
   shown |-> view.shown \cup ToSet(Slice(r.rows, c, Limit)),
   first |-> IF c = 0 THEN r.base ELSE view.first,
   last  |-> r.base,
   whole |-> view.whole /\ r.coverage = "complete"]

Hit(k, w) == {r \in ToSet(cache[k]) : r.window = w /\ r.fresh}

\* An answer from the cache becomes the most recent entry; one that is too old is dropped.
FromCache(k, w, c) ==
  \E r \in Hit(k, w) :
    /\ cache' = [cache EXCEPT ![k] = Append(Without(k, w), r)]
    /\ view' = IF c = None THEN view ELSE Shown(r, c)
    /\ UNCHANGED <<head, scan>>

\* getTokenTransfers, getApprovals; refresh does not look at the cache.
Asks(h, k, w, c) ==
  /\ scan[h].pc = "idle"
  /\ \/ FromCache(k, w, c)
     \/ /\ \E refresh \in BOOLEAN :
             /\ refresh \/ Hit(k, w) = {}
             /\ cache' = IF refresh THEN cache ELSE [cache EXCEPT ![k] = Without(k, w)]
        /\ scan' = [scan EXCEPT ![h] = [Idle EXCEPT !.pc = "head", !.kind = k, !.window = w, !.cursor = c]]
        /\ view' = IF c = None THEN view ELSE [view EXCEPT !.asked = TRUE]
        /\ UNCHANGED head

Ask(h) == \E k \in Kinds, w \in Windows : Asks(h, k, w, None)

\* The reader asks for the next page.
Turn(h) ==
  /\ ~view.asked /\ view.next # None
  /\ Asks(h, "transfers", Depth, view.next)

-----------------------------------------------------------------------------
(* A scan.                                                                  *)

Goes(h, s) == scan' = [scan EXCEPT ![h] = s] /\ UNCHANGED <<head, cache, view>>

\* The answer is cached and given.
Replies(h, r) ==
  LET s == scan[h] IN
  /\ cache' = [cache EXCEPT ![s.kind] = Cached(s.kind, r)]
  /\ scan' = [scan EXCEPT ![h] = Idle]
  /\ view' = IF s.cursor = None THEN view ELSE Shown(r, s.cursor)
  /\ UNCHANGED head

\* Faulty: a scan that fails begins again.
FailsAgain(h) ==
  /\ scan' = [scan EXCEPT ![h] = [Idle EXCEPT !.pc = "head", !.kind = scan[h].kind,
                                              !.window = scan[h].window, !.cursor = scan[h].cursor]]
  /\ UNCHANGED <<head, cache, view>>

\* An error: nothing is cached.
Fails(h) ==
  /\ scan' = [scan EXCEPT ![h] = Idle]
  /\ view' = IF scan[h].cursor = None THEN view ELSE [view EXCEPT !.asked = FALSE]
  /\ UNCHANGED <<head, cache>>

Answer(s) ==
  [window |-> s.window, base |-> s.latest, coverage |-> s.coverage,
   rows |-> IF s.kind = "transfers" THEN Sorted(s.found) ELSE s.history, cut |-> s.cut,
   pairs |-> s.pairs, fresh |-> TRUE]

\* The sweep is over; the current values of approvals are read next.
Swept(h, s) ==
  IF s.kind = "approvals" /\ s.pairs # {} THEN Goes(h, [s EXCEPT !.pc = "read"])
  ELSE Replies(h, Answer(s))

\* getBlockNumber
ReadHead(h) ==
  /\ scan[h].pc = "head"
  /\ Goes(h, [scan[h] EXCEPT !.pc = "sweep", !.latest = head, !.upper = head,
                             !.chunk = InitialChunk, !.ceiling = MaxChunk])

NoHead(h) ==
  /\ scan[h].pc = "head"
  /\ "rpc" \in Faults
  /\ Fails(h)

Lower(s) ==
  LET o == Oldest(s.latest, s.window) IN IF s.upper - s.chunk + 1 > o THEN s.upper - s.chunk + 1 ELSE o

\* Faulty: the last chunk may end one block early.
CoveredEarly(s) == Lower(s) <= Oldest(s.latest, s.window) + 1

Covered(s) == Lower(s) <= Oldest(s.latest, s.window)

Spent(s) == s.calls >= MaxCalls

\* Calls are counted before they are sent.
Dispatched(s) == [s EXCEPT !.calls = @ + IF s.kind = "transfers" THEN Queries ELSE 1]

\* The budget of calls or of time is spent.
StopsShort(h) ==
  /\ scan[h].pc = "sweep"
  /\ Spent(scan[h]) \/ "time" \in Faults
  /\ Swept(h, [scan[h] EXCEPT !.coverage = "partial"])

Chunk(s) == LogsIn(Lower(s), s.upper)

OfQuery(S, q) == {l \in S : l.q = q}

Recorded(s, S) == [s EXCEPT !.pairs = @ \cup {l.p : l \in S}]

\* The events of a step, newest first, as far as there is room.
Flushed(s, S) ==
  LET events == Sorted(S \ ToSet(s.history))
      room   == HistoryCap - Len(s.history)
  IN  [s EXCEPT !.history = @ \o Slice(events, 0, room), !.cut = @ \/ Len(events) > room]

\* Below the chunk that is done, and with a larger one up to the ceiling.
Onward(s) ==
  [s EXCEPT !.upper = Lower(s) - 1, !.chunk = Smallest({2 * s.chunk, s.ceiling, MaxChunk})]

\* All queries of a chunk are answered.
Clean(h) ==
  LET s == Dispatched(scan[h])
      S == Chunk(s)
      t == IF s.kind = "transfers" THEN [s EXCEPT !.found = @ \cup S]
           ELSE Flushed(Recorded(s, S), S)
  IN
  /\ scan[h].pc = "sweep" /\ ~Spent(scan[h])
  /\ IF Covered(s) THEN Swept(h, [t EXCEPT !.coverage = "complete"]) ELSE Goes(h, Onward(t))

\* The second query of an approval scan may fail after the first.
HalfRecorded(s) == {s, IF s.kind = "approvals" THEN Recorded(s, OfQuery(Chunk(s), 1)) ELSE s}

Halved(s) ==
  [s EXCEPT !.ceiling = s.chunk - 1, !.chunk = IF s.chunk \div 2 < MinChunk THEN MinChunk ELSE s.chunk \div 2]

\* Faulty: the events of the first query are kept when the second is rejected.
RejectedFlushes(h) ==
  LET s == Dispatched(scan[h]) IN
  /\ "cap" \in Faults
  /\ s.pc = "sweep" /\ ~Spent(scan[h])
  /\ \E t \in HalfRecorded(s) : Goes(h, Halved(IF t # s THEN Flushed(t, OfQuery(Chunk(s), 1)) ELSE s))

\* A range too wide for the provider: pairs stay, events are read again with half the chunk.
Rejected(h) ==
  LET s == Dispatched(scan[h]) IN
  /\ "cap" \in Faults
  /\ s.pc = "sweep" /\ ~Spent(scan[h])
  /\ \E t \in HalfRecorded(s) : Goes(h, Halved(t))

\* Any other error fails a transfer scan, and ends an approval scan with what it has.
Aborted(h) ==
  LET s == Dispatched(scan[h]) IN
  /\ "rpc" \in Faults
  /\ s.pc = "sweep" /\ ~Spent(scan[h])
  /\ IF s.kind = "transfers" THEN Fails(h)
     ELSE \E t \in {s, Flushed(Recorded(s, OfQuery(Chunk(s), 1)), OfQuery(Chunk(s), 1))} :
            Swept(h, [t EXCEPT !.coverage = "scan-failed"])

\* A call never settles: an empty answer, and the scan is left to itself.
Hung(h) ==
  LET s == scan[h] IN
  /\ "time" \in Faults
  /\ s.pc \in {"head", "sweep"}
  /\ Replies(h, Answer([Idle EXCEPT !.kind = s.kind, !.window = s.window,
                          !.coverage = IF s.kind = "transfers" THEN "partial" ELSE "scan-failed"]))

\* readCurrentValues, which may fail as a whole; either way the discovery stands.
ReadValues(h) ==
  /\ scan[h].pc = "read"
  /\ Replies(h, Answer(scan[h]))

-----------------------------------------------------------------------------
NewBlock ==
  /\ head < MaxBlock
  /\ head' = head + 1
  /\ UNCHANGED <<cache, scan, view>>

\* The minute of an entry is over.
Expire ==
  /\ \E k \in Kinds : \E i \in DOMAIN cache[k] :
       cache[k][i].fresh /\ cache' = [cache EXCEPT ![k][i].fresh = FALSE]
  /\ UNCHANGED <<head, scan, view>>

Init ==
  /\ head = FirstHead
  /\ cache = [k \in Kinds |-> <<>>]
  /\ scan = [h \in Handlers |-> Idle]
  /\ view = NoView

ScanStep(h) ==
  \/ ReadHead(h) \/ NoHead(h) \/ StopsShort(h) \/ Clean(h) \/ Rejected(h) \/ Aborted(h) \/ Hung(h)
  \/ ReadValues(h)

Next ==
  \/ NewBlock \/ Expire
  \/ \E h \in Handlers : Ask(h) \/ Turn(h) \/ ScanStep(h)

Spec == Init /\ [][Next]_vars

\* Every call is answered or rejected, or its scan times out.
FairSpec == Spec /\ \A h \in Handlers : WF_vars(ScanStep(h))

-----------------------------------------------------------------------------
(* Properties.                                                              *)

InWindow(r) == IF r.base = None THEN {} ELSE {l \in Logs : l.n \in Oldest(r.base, r.window)..r.base}

\* The types hold, and an answer that says `complete' misses no log of its window, an event only
\* when it says that the history was cut, whatever was rejected, halved and asked again.
Honest ==
  /\ TypeOK
  /\ \A k \in Kinds : \A r \in ToSet(cache[k]) :
       r.coverage = "complete" =>
         /\ k = "transfers" \/ ~r.cut => InWindow(r) \subseteq ToSet(r.rows)
         /\ k = "approvals" => {l.p : l \in InWindow(r)} \subseteq r.pairs

\* What an answer shows is newest first and has no hole: a log that is newer than one of its
\* rows is a row as well.  (A scan that failed shows what its last chunk had brought.)
NoHoles ==
  \A k \in Kinds : \A r \in ToSet(cache[k]) :
    r.coverage # "scan-failed" =>
      /\ \A i, j \in DOMAIN r.rows : i < j => Newer(r.rows[i], r.rows[j])
      /\ \A i \in DOMAIN r.rows : \A l \in InWindow(r) :
           Newer(l, r.rows[i]) => l \in ToSet(r.rows)

\* A reader that pages through complete scans skips no row, though the list is scanned anew
\* between two pages, at another head and for another window.
NoSkips ==
  view.next = None /\ view.whole =>
    {l \in Logs : l.n \in Oldest(view.last, Depth)..view.first} \subseteq view.shown

\* A scan ends, whatever mix of answers and rejections it meets.
ScansEnd == \A h \in Handlers : scan[h].pc # "idle" ~> scan[h].pc = "idle"
=============================================================================
