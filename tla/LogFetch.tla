------------------------------- MODULE LogFetch -------------------------------
(***************************************************************************)
(* fetchLogsWithRetry (src/src/services/EventIndexingService.ts) and the   *)
(* span ceiling it learns (src/src/services/providerCeilings.ts), for one  *)
(* chain and the walks of one process on it.                               *)
(*                                                                         *)
(* A call fetches a window of blocks as consecutive sub-spans.  A provider *)
(* rejects spans over its cap, and any request may fail besides: on errors *)
(* that look like a cap the span is halved down to a floor and the new     *)
(* span is remembered as the chain's ceiling, in memory at once and in the *)
(* provider_limits table by a write nobody waits for; other errors are     *)
(* retried with the same span a few times.                                 *)
(***************************************************************************)
EXTENDS Integers

CONSTANTS
  Walks,       \* walks that fetch logs of the chain
  MaxBlock,    \* bound: blocks are 0..MaxBlock
  MaxWindow,   \* BATCH_SIZE, the widest window a walk asks for
  MinSpan,     \* MIN_LOG_SPAN_BLOCKS
  MaxRetry,    \* MAX_RETRY
  ProviderCap, \* the widest span the provider serves
  Noise        \* Noise[w]: kinds of errors a request of w within the cap may meet

Blocks  == 0..MaxBlock
Spans   == 1..MaxWindow
Unknown == 0    \* no ceiling is known

ASSUME SpansAssumption ==
  /\ MaxBlock \in Nat
  /\ MaxWindow \in Nat \ {0}
  /\ MinSpan \in Nat \ {0}
  /\ MaxRetry \in Nat \ {0}
  /\ ProviderCap \in Nat \ {0}
  /\ Noise \in [Walks -> SUBSET {"shrinkable", "other"}]

VARIABLES
  call,     \* call[w]: the fetch a walk is in
  ceiling,  \* the in-memory ceiling
  loaded,   \* the load-once SELECT has been answered, or has failed
  stored,   \* the provider_limits row
  writes    \* ceilings on their way to it; the adapter gives each its own
            \* connection, so they may land in any order

vars == <<call, ceiling, loaded, stored, writes>>

\* got stands for `logs': the blocks whose logs have been pushed.
Fetch == [pc : {"idle", "ceiling", "fetch", "done", "failed"}, from : Blocks, to : Blocks,
          cursor : 0..(MaxBlock + 1), span : Spans, attempt : 0..(MaxRetry - 1),
          got : SUBSET Blocks]

NoFetch == [pc |-> "idle", from |-> 0, to |-> 0, cursor |-> 0, span |-> 1, attempt |-> 0,
            got |-> {}]

TypeOK ==
  /\ call \in [Walks -> Fetch]
  /\ ceiling \in Spans \cup {Unknown}
  /\ loaded \in BOOLEAN
  /\ stored \in Spans \cup {Unknown}
  /\ writes \subseteq Spans

-----------------------------------------------------------------------------
Begin(w) ==
  /\ call[w].pc = "idle"
  /\ \E lo, hi \in Blocks :
       /\ lo <= hi /\ hi - lo < MaxWindow
       /\ call' = [call EXCEPT ![w] = [NoFetch EXCEPT !.pc = "ceiling", !.from = lo, !.to = hi,
                                                      !.cursor = lo]]
  /\ UNCHANGED <<ceiling, loaded, stored, writes>>

\* rpcManager.getClient rejects.
NoClient(w) ==
  /\ call[w].pc = "ceiling"
  /\ call' = [call EXCEPT ![w].pc = "failed"]
  /\ UNCHANGED <<ceiling, loaded, stored, writes>>

\* loadOnce, by the first fetch that finds no ceiling.  A load that fails counts.
Load(w) ==
  /\ call[w].pc = "ceiling"
  /\ ceiling = Unknown
  /\ ~loaded
  /\ loaded' = TRUE
  /\ ceiling' \in {stored, Unknown}
  /\ UNCHANGED <<call, stored, writes>>

Length(f) == f.to - f.from + 1

FirstSpan(f) == IF ceiling # Unknown /\ ceiling < Length(f) THEN ceiling ELSE Length(f)

ReadCeiling(w) ==
  /\ call[w].pc = "ceiling"
  /\ ceiling # Unknown \/ loaded
  /\ call' = [call EXCEPT ![w] = [@ EXCEPT !.pc = "fetch", !.span = FirstSpan(call[w])]]
  /\ UNCHANGED <<ceiling, loaded, stored, writes>>

SpanTo(f) == IF f.cursor + f.span - 1 > f.to THEN f.to ELSE f.cursor + f.span - 1

Fetching(w) == call[w].pc = "fetch" /\ call[w].cursor <= call[w].to

OverCap(f) == SpanTo(f) - f.cursor + 1 > ProviderCap

\* Faulty: the next span starts with the last block of this one.
ServedShort(w) ==
  LET f == call[w] IN
  /\ Fetching(w)
  /\ ~OverCap(f)
  /\ call' = [call EXCEPT ![w] = [f EXCEPT !.got = @ \cup (f.cursor..SpanTo(f)),
                                           !.cursor = SpanTo(f), !.attempt = 0]]
  /\ UNCHANGED <<ceiling, loaded, stored, writes>>

\* getLogs answers.
Served(w) ==
  LET f == call[w] IN
  /\ Fetching(w)
  /\ ~OverCap(f)
  /\ call' = [call EXCEPT ![w] = [f EXCEPT !.got = @ \cup (f.cursor..SpanTo(f)),
                                           !.cursor = SpanTo(f) + 1, !.attempt = 0]]
  /\ UNCHANGED <<ceiling, loaded, stored, writes>>

ShrinkableError(w) == OverCap(call[w]) \/ "shrinkable" \in Noise[w]
OtherError(w)      == ~OverCap(call[w]) /\ "other" \in Noise[w]

Halved(span) == IF span \div 2 < MinSpan THEN MinSpan ELSE span \div 2

\* Faulty: a span that could only be halved to less than the floor is not halved.
AtFloorEarly(f) == f.span < 2 * MinSpan

\* Faulty: a span at the floor is halved again, which counts as a new start.
AtFloorMissed(f) == f.span < MinSpan

AtFloor(f) == f.span <= MinSpan

\* Faulty: the smaller span goes on behind the one that was rejected.
ShrinkSkipping(w) ==
  LET f == call[w] IN
  /\ Fetching(w)
  /\ ShrinkableError(w)
  /\ ~AtFloor(f)
  /\ call' = [call EXCEPT ![w] = [f EXCEPT !.span = Halved(f.span), !.attempt = 0,
                                           !.cursor = SpanTo(f) + 1]]
  /\ ceiling' = Halved(f.span)
  /\ writes' = writes \cup {Halved(f.span)}
  /\ UNCHANGED <<loaded, stored>>

\* isShrinkableProviderError above the floor: halve, and recordProviderLogSpanCeiling.
Shrink(w) ==
  LET f == call[w] IN
  /\ Fetching(w)
  /\ ShrinkableError(w)
  /\ ~AtFloor(f)
  /\ call' = [call EXCEPT ![w] = [f EXCEPT !.span = Halved(f.span), !.attempt = 0]]
  /\ ceiling' = Halved(f.span)
  /\ writes' = writes \cup {Halved(f.span)}
  /\ UNCHANGED <<loaded, stored>>

\* Any other failure, or one at the floor.
Fails(w) ==
  /\ Fetching(w)
  /\ OtherError(w) \/ (ShrinkableError(w) /\ AtFloor(call[w]))

Retry(w) ==
  /\ Fails(w)
  /\ call[w].attempt < MaxRetry - 1
  /\ call' = [call EXCEPT ![w].attempt = @ + 1]
  /\ UNCHANGED <<ceiling, loaded, stored, writes>>

GiveUp(w) ==
  /\ Fails(w)
  /\ call[w].attempt = MaxRetry - 1
  /\ call' = [call EXCEPT ![w].pc = "failed"]
  /\ UNCHANGED <<ceiling, loaded, stored, writes>>

Finish(w) ==
  /\ call[w].pc = "fetch"
  /\ call[w].cursor > call[w].to
  /\ call' = [call EXCEPT ![w].pc = "done"]
  /\ UNCHANGED <<ceiling, loaded, stored, writes>>

\* The caller takes the logs, or the error.
Return(w) ==
  /\ call[w].pc \in {"done", "failed"}
  /\ call' = [call EXCEPT ![w] = NoFetch]
  /\ UNCHANGED <<ceiling, loaded, stored, writes>>

\* A write lands, or fails and is dropped.
Persist ==
  \E s \in writes :
    /\ writes' = writes \ {s}
    /\ stored' \in {s, stored}
    /\ UNCHANGED <<call, ceiling, loaded>>

\* The process restarts; only the table stays.
Restart ==
  /\ call' = [w \in Walks |-> NoFetch]
  /\ ceiling' = Unknown
  /\ loaded' = FALSE
  /\ writes' = {}
  /\ UNCHANGED stored

-----------------------------------------------------------------------------
Init ==
  /\ call = [w \in Walks |-> NoFetch]
  /\ ceiling = Unknown
  /\ loaded = FALSE
  /\ stored = Unknown
  /\ writes = {}

FetchStep(w) ==
  \/ NoClient(w) \/ Load(w) \/ ReadCeiling(w) \/ Served(w) \/ Shrink(w) \/ Retry(w)
  \/ GiveUp(w) \/ Finish(w)

Next ==
  \/ \E w \in Walks : Begin(w) \/ FetchStep(w) \/ Return(w)
  \/ Persist
  \/ Restart

Spec == Init /\ [][Next]_vars

\* Requests and the SELECT are answered or rejected in the end.
FairSpec == Spec /\ \A w \in Walks : WF_vars(FetchStep(w))

-----------------------------------------------------------------------------
(* Properties.                                                              *)

Phase(f) == IF f.pc \in {"ceiling", "fetch"} THEN "open" ELSE f.pc

Asked(f) == IF f.pc = "idle" THEN {} ELSE {b \in Blocks : f.from <= b /\ b <= f.to}

Got(f) == IF f.pc = "done" THEN f.got ELSE {}

Phases  == [w \in Walks |-> Phase(call[w])]
Windows == [w \in Walks |-> Asked(call[w])]
Answers == [w \in Walks |-> Got(call[w])]

Window == INSTANCE WindowFetch WITH phase <- Phases, window <- Windows, answer <- Answers

\* A fetch answers the logs of its whole window or it fails, whatever was
\* rejected, halved, retried or learned by another walk in between: the walk
\* moves its checkpoint across the whole window once this resolves.
ImplementsWindow == Window!Spec

\* A fetch ends, however its requests fail.
FetchSettles == Window!Settles

\* What a fetch has pushed is its window up to the cursor: no block is skipped and
\* none fetched twice; a span that was halved is not below the floor.
Prefix ==
  \A w \in Walks :
    LET f == call[w] IN
    f.pc # "idle" =>
      /\ f.from <= f.to
      /\ f.from <= f.cursor /\ f.cursor <= f.to + 1
      /\ f.got = {b \in Blocks : f.from <= b /\ b < f.cursor}
      /\ f.pc = "done" => f.cursor = f.to + 1

\* A window is not wider than a batch, so its length is a span.
Narrow == \A w \in Walks : call[w].from <= call[w].to /\ call[w].to - call[w].from < MaxWindow

\* The inductive invariant: the types hold (no span, in memory or restored from the table,
\* is ever 0), windows are narrow, and what was pushed is the window up to the cursor.
IInv == TypeOK /\ Narrow /\ Prefix

\* A walk that meets nothing but a cap at or above the floor is served in the end:
\* no fetch of it fails once it has its client, whatever the other walks meet and
\* whatever ceiling they leave it.
NeverGivesUp ==
  [][MinSpan <= ProviderCap =>
       \A w \in Walks : Noise[w] = {} /\ call[w].pc = "fetch" => call'[w].pc # "failed"]_vars
=============================================================================
