----------------------------- MODULE WatchSweeps -----------------------------
(***************************************************************************)
(* The watch sweeps of src/src/services/WatchService.ts, for one chain:    *)
(* every four seconds a tick reads all subscriptions and the head, and a   *)
(* bounded pool of workers reads the logs of each one since its cursor,    *)
(* publishes them, posts them to its webhook and moves the cursor, while   *)
(* requests put and remove subscriptions.                                  *)
(***************************************************************************)
EXTENDS Integers, Sequences, FiniteSets, SequencesExt

CONSTANTS
  Addrs,      \* watched addresses
  Handlers,   \* requests in flight at once
  MaxBlock,   \* bound: blocks are 0..MaxBlock
  FirstHead,  \* the head at the first start
  GapCap,     \* WATCH_GAP_BLOCK_CAP
  MaxSubs,    \* WATCH_MAX_SUBSCRIPTIONS_PER_CHAIN
  Workers,    \* WATCH_GETLOGS_CONCURRENCY
  Memory,     \* WATCH_WEBHOOK_DEDUPE_CAPACITY
  Logs,       \* Logs[a]: blocks with a log of a
  Urls,       \* what a PUT may say of the webhook: "set", "clear", "keep"
  Faults      \* what may go wrong: "rpc", "db", "hook", "crash", "reorg"

Blocks  == 0..MaxBlock
None    == -1
Cursors == Blocks \cup {None}

ASSUME SizesAssumption ==
  /\ Addrs # {} /\ MaxBlock \in Nat /\ FirstHead \in Blocks
  /\ GapCap \in Nat \ {0} /\ MaxSubs \in Nat \ {0} /\ Workers \in Nat \ {0} /\ Memory \in Nat \ {0}
  /\ Logs \in [Addrs -> SUBSET Blocks]
  /\ Urls \subseteq {"set", "clear", "keep"}
  /\ Faults \subseteq {"rpc", "db", "hook", "crash", "reorg"}

VARIABLES
  subs,    \* watch_subscriptions
  head,    \* the chain head
  tick,    \* ticking, and the head the tick has read
  sweep,   \* sweep[a]: where the sweep of a stands
  posted,  \* deliveredWebhookIds
  req,     \* requests in flight
  since,   \* history: the block at which the subscription of a started
  told,    \* history: blocks published since then, with their logs or in a gap marker
  acked    \* history: blocks whose log the webhook has acknowledged to this process

vars == <<subs, head, tick, sweep, posted, req, since, told, acked>>
history == <<since, told, acked>>

Sub == [there : BOOLEAN, cursor : Cursors, hook : BOOLEAN, status : {"none", "ok", "failed"}]

NoSub == [there |-> FALSE, cursor |-> None, hook |-> FALSE, status |-> "none"]

\* seen and hook are what the tick has read of the row; left are the logs to be posted.
Sweep == [pc : {"idle", "due", "baseline", "logs", "hooks", "status", "cursor"},
          seen : Cursors, hook : BOOLEAN, left : SUBSET Blocks, tried : SUBSET Blocks,
          failed : BOOLEAN]

NoSweep == [pc |-> "idle", seen |-> None, hook |-> FALSE, left |-> {}, tried |-> {}, failed |-> FALSE]

Req == [pc : {"none", "insert", "delete"}, a : Addrs, hook : {"set", "clear", "keep"}]

NoReq == [pc |-> "none", a |-> CHOOSE a \in Addrs : TRUE, hook |-> "keep"]

TypeOK ==
  /\ subs \in [Addrs -> Sub]
  /\ head \in Blocks
  /\ tick \in [pc : {"idle", "head", "sweep"}, head : Blocks]
  /\ sweep \in [Addrs -> Sweep]
  /\ posted \in Seq(Addrs \X Blocks) /\ Len(posted) <= Memory
  /\ req \in [Handlers -> Req]
  /\ since \in [Addrs -> Cursors]
  /\ told \in [Addrs -> SUBSET Blocks]
  /\ acked \in [Addrs -> SUBSET Blocks]

-----------------------------------------------------------------------------
(* A tick.  A slow one never stacks on itself.                              *)

There == {a \in Addrs : subs[a].there}

Due(a) == [NoSweep EXCEPT !.pc = "due", !.seen = subs[a].cursor, !.hook = subs[a].hook]

\* All rows are read once.
Tick ==
  /\ tick.pc = "idle"
  /\ There # {}
  /\ tick' = [tick EXCEPT !.pc = "head"]
  /\ sweep' = [a \in Addrs |-> IF a \in There THEN Due(a) ELSE NoSweep]
  /\ UNCHANGED <<subs, head, posted, req, history>>

\* One head for all subscriptions of the tick.
ReadHead ==
  /\ tick.pc = "head"
  /\ tick' = [pc |-> "sweep", head |-> head]
  /\ UNCHANGED <<subs, head, sweep, posted, req, history>>

\* No client, or no answer: the chain is left out of this tick.
HeadFails ==
  /\ tick.pc = "head"
  /\ "rpc" \in Faults
  /\ tick' = [tick EXCEPT !.pc = "idle"]
  /\ sweep' = [a \in Addrs |-> NoSweep]
  /\ UNCHANGED <<subs, head, posted, req, history>>

EndTick ==
  /\ tick.pc = "sweep"
  /\ \A a \in Addrs : sweep[a].pc = "idle"
  /\ tick' = [pc |-> "idle", head |-> FirstHead]
  /\ UNCHANGED <<subs, head, sweep, posted, req, history>>

-----------------------------------------------------------------------------
(* The sweep of one subscription.                                           *)

\* Faulty: a subscription that lags by more than the cap is left alone.
PlanGivesUp(s) ==
  IF s.seen = None \/ tick.head < s.seen THEN "baseline"
  ELSE IF tick.head = s.seen \/ tick.head - s.seen > GapCap THEN "none" ELSE "scan"

\* planSubscriptionScan
Plan(s) ==
  IF s.seen = None \/ tick.head < s.seen THEN "baseline"
  ELSE IF tick.head = s.seen THEN "none" ELSE "scan"

\* The blocks whose logs are read; the older ones up to the cursor are reported unchecked.
Scanned(s) == {b \in (s.seen + 1)..tick.head : b > tick.head - GapCap}

InFlight == {a \in Addrs : sweep[a].pc \notin {"idle", "due"}}

Goes(a, s) == sweep' = [sweep EXCEPT ![a] = s]

\* A worker takes the next subscription.
Take(a) ==
  LET s == sweep[a] IN
  /\ tick.pc = "sweep"
  /\ s.pc = "due"
  /\ Cardinality(InFlight) < Workers
  /\ Goes(a, CASE Plan(s) = "none" -> NoSweep
               [] Plan(s) = "baseline" -> [s EXCEPT !.pc = "baseline"]
               [] Plan(s) = "scan" -> [s EXCEPT !.pc = "logs"])
  /\ UNCHANGED <<subs, head, tick, posted, req, history>>

\* The logs are there and published, after the gap marker if there is one.
Publish(a) ==
  LET s == sweep[a] IN
  /\ s.pc = "logs"
  /\ told' = [told EXCEPT ![a] = @ \cup (s.seen + 1)..tick.head]
  /\ Goes(a, [s EXCEPT !.pc = IF s.hook THEN "hooks" ELSE "cursor",
                       !.left = IF s.hook THEN Logs[a] \cap Scanned(s) ELSE {}])
  /\ UNCHANGED <<subs, head, tick, posted, req, since, acked>>

\* Faulty: nothing is forgotten.
RememberAll(id) == posted' = Append(posted, id)

\* rememberDeliveredWebhookId
Remember(id) ==
  LET ids == Append(posted, id) IN
  posted' = IF Len(ids) > Memory THEN Tail(ids) ELSE ids

\* Logs are posted in their order.
Oldest(S) == {b \in S : \A c \in S : b <= c}

Remembered(a, b) == <<a, b>> \in ToSet(posted)

\* Faulty: an event is remembered when it is sent, whatever becomes of it.
PostRemembered(a) ==
  LET s == sweep[a] IN
  \E b \in Oldest(s.left) :
    /\ s.pc = "hooks"
    /\ ~Remembered(a, b)
    /\ Remember(<<a, b>>)
    /\ \/ /\ acked' = [acked EXCEPT ![a] = @ \cup {b}]
          /\ Goes(a, [s EXCEPT !.left = @ \ {b}, !.tried = @ \cup {b}])
       \/ /\ "hook" \in Faults
          /\ Goes(a, [s EXCEPT !.left = @ \ {b}, !.tried = @ \cup {b}, !.failed = TRUE])
          /\ UNCHANGED acked
    /\ UNCHANGED <<subs, head, tick, req, since, told>>

\* An event is posted, with one retry; it is remembered once it was acknowledged.
Post(a) ==
  LET s == sweep[a] IN
  \E b \in Oldest(s.left) :
    /\ s.pc = "hooks"
    /\ ~Remembered(a, b)
    /\ \/ /\ Remember(<<a, b>>)
          /\ acked' = [acked EXCEPT ![a] = @ \cup {b}]
          /\ Goes(a, [s EXCEPT !.left = @ \ {b}, !.tried = @ \cup {b}])
       \/ /\ "hook" \in Faults
          /\ Goes(a, [s EXCEPT !.left = @ \ {b}, !.tried = @ \cup {b}, !.failed = TRUE])
          /\ UNCHANGED <<posted, acked>>
    /\ UNCHANGED <<subs, head, tick, req, since, told>>

\* A replayed event that was acknowledged is not posted again.
SkipPosted(a) ==
  LET s == sweep[a] IN
  \E b \in Oldest(s.left) :
    /\ s.pc = "hooks"
    /\ Remembered(a, b)
    /\ Goes(a, [s EXCEPT !.left = @ \ {b}])
    /\ UNCHANGED <<subs, head, tick, posted, req, history>>

PostsDone(a) ==
  LET s == sweep[a] IN
  /\ s.pc = "hooks"
  /\ s.left = {}
  /\ Goes(a, [s EXCEPT !.pc = IF s.tried = {} THEN "cursor" ELSE "status"])
  /\ UNCHANGED <<subs, head, tick, posted, req, history>>

\* Rows are written by chain and address, whatever row that is by now.
Write(a, row) == subs' = [subs EXCEPT ![a] = IF @.there THEN row ELSE @]

WriteStatus(a) ==
  LET s == sweep[a] IN
  /\ s.pc = "status"
  /\ Write(a, [subs[a] EXCEPT !.status = IF s.failed THEN "failed" ELSE "ok"])
  /\ Goes(a, [s EXCEPT !.pc = "cursor"])
  /\ UNCHANGED <<head, tick, posted, req, history>>

\* Faulty: the cursor is moved to the head as it is by now.
WriteCursorNow(a) ==
  /\ sweep[a].pc \in {"baseline", "cursor"}
  /\ Write(a, [subs[a] EXCEPT !.cursor = head])
  /\ since' = [since EXCEPT ![a] = IF subs[a].there /\ subs[a].cursor = None THEN head ELSE @]
  /\ Goes(a, NoSweep)
  /\ UNCHANGED <<head, tick, posted, req, told, acked>>

\* The head of the tick becomes the cursor, after a scan and for a baseline.
WriteCursor(a) ==
  /\ sweep[a].pc \in {"baseline", "cursor"}
  /\ Write(a, [subs[a] EXCEPT !.cursor = tick.head])
  /\ since' = [since EXCEPT ![a] = IF subs[a].there /\ subs[a].cursor = None THEN tick.head ELSE @]
  /\ Goes(a, NoSweep)
  /\ UNCHANGED <<head, tick, posted, req, told, acked>>

\* A call rejects: the cursor stays, and the next tick tries the range again.
Fails(a) ==
  /\ \/ sweep[a].pc = "logs" /\ "rpc" \in Faults
     \/ sweep[a].pc \in {"baseline", "status", "cursor"} /\ "db" \in Faults
  /\ Goes(a, NoSweep)
  /\ UNCHANGED <<subs, head, tick, posted, req, history>>

-----------------------------------------------------------------------------
(* Requests.                                                                *)

\* upsertSubscription up to its write: no row more than the cap.
Put(h, a) ==
  /\ req[h].pc = "none"
  /\ subs[a].there \/ Cardinality(There) < MaxSubs
  /\ \E hook \in Urls :
       req' = [req EXCEPT ![h] = [pc |-> "insert", a |-> a, hook |-> hook]]
  /\ UNCHANGED <<subs, head, tick, sweep, posted, history>>

\* A row that is put again keeps its cursor.
Insert(h) ==
  LET q == req[h] IN
  /\ q.pc = "insert"
  /\ subs' = [subs EXCEPT ![q.a] =
       IF @.there
       THEN IF q.hook = "keep" THEN @ ELSE [@ EXCEPT !.hook = (q.hook = "set"), !.status = "none"]
       ELSE [NoSub EXCEPT !.there = TRUE, !.hook = (q.hook = "set")]]
  /\ req' = [req EXCEPT ![h] = NoReq]
  /\ UNCHANGED <<head, tick, sweep, posted, history>>

\* removeSubscription up to its write
Unsubscribe(h, a) ==
  /\ req[h].pc = "none"
  /\ subs[a].there
  /\ req' = [req EXCEPT ![h] = [pc |-> "delete", a |-> a, hook |-> "keep"]]
  /\ UNCHANGED <<subs, head, tick, sweep, posted, history>>

Delete(h) ==
  LET a == req[h].a IN
  /\ req[h].pc = "delete"
  /\ subs' = [subs EXCEPT ![a] = NoSub]
  /\ since' = [since EXCEPT ![a] = None]
  /\ told' = [told EXCEPT ![a] = {}]
  /\ req' = [req EXCEPT ![h] = NoReq]
  /\ UNCHANGED <<head, tick, sweep, posted, acked>>

\* A statement of a request rejects.
Drop(h) ==
  /\ "db" \in Faults
  /\ req[h].pc # "none"
  /\ req' = [req EXCEPT ![h] = NoReq]
  /\ UNCHANGED <<subs, head, tick, sweep, posted, history>>

-----------------------------------------------------------------------------
NewBlock ==
  /\ head < MaxBlock
  /\ head' = head + 1
  /\ UNCHANGED <<subs, tick, sweep, posted, req, history>>

\* A reorganisation, or a node that lags: the head moves back.
Shrink ==
  /\ "reorg" \in Faults
  /\ head > 0
  /\ head' = head - 1
  /\ UNCHANGED <<subs, tick, sweep, posted, req, history>>

\* The process dies and starts again.
Restart ==
  /\ "crash" \in Faults
  /\ tick' = [pc |-> "idle", head |-> FirstHead]
  /\ sweep' = [a \in Addrs |-> NoSweep]
  /\ posted' = <<>>
  /\ req' = [h \in Handlers |-> NoReq]
  /\ acked' = [a \in Addrs |-> {}]
  /\ UNCHANGED <<subs, head, since, told>>

Init ==
  /\ subs = [a \in Addrs |-> NoSub]
  /\ head = FirstHead
  /\ tick = [pc |-> "idle", head |-> FirstHead]
  /\ sweep = [a \in Addrs |-> NoSweep]
  /\ posted = <<>>
  /\ req = [h \in Handlers |-> NoReq]
  /\ since = [a \in Addrs |-> None]
  /\ told = [a \in Addrs |-> {}]
  /\ acked = [a \in Addrs |-> {}]

TickStep == Tick \/ ReadHead \/ HeadFails \/ EndTick

SweepStep(a) ==
  \/ Take(a) \/ Publish(a) \/ Post(a) \/ SkipPosted(a) \/ PostsDone(a) \/ WriteStatus(a)
  \/ WriteCursor(a) \/ Fails(a)

RequestStep(h) ==
  Insert(h) \/ Delete(h) \/ Drop(h) \/ \E a \in Addrs : Put(h, a) \/ Unsubscribe(h, a)

Next ==
  \/ TickStep
  \/ \E a \in Addrs : SweepStep(a)
  \/ \E h \in Handlers : RequestStep(h)
  \/ NewBlock \/ Shrink \/ Restart

Spec == Init /\ [][Next]_vars

\* The interval ticks for ever, and every call is answered or rejected in the end.
FairSpec == Spec /\ WF_vars(TickStep) /\ \A a \in Addrs : WF_vars(SweepStep(a))

-----------------------------------------------------------------------------
(* Properties.                                                              *)

\* At-least-once: whatever fails, restarts, is removed and put again under a sweep, or
\* shrinks, the cursor of a subscription never passes a block that was not published.
Promise == INSTANCE Feed WITH cursor <- [a \in Addrs |-> subs[a].cursor]
ImplementsFeed == Promise!Spec

\* A webhook misses no event in silence: when a sweep moves the cursor over a log, the
\* endpoint has acknowledged that log or this very sweep has tried to post it.
HookTried ==
  [][\A a \in Addrs :
       sweep[a].pc = "cursor" /\ sweep[a].hook /\ subs'[a].cursor # subs[a].cursor /\ subs'[a].there =>
         Logs[a] \cap Scanned(sweep[a]) \subseteq acked[a] \cup sweep[a].tried]_vars

\* A step that only a fault takes.
Faulty == (HeadFails \/ Restart \/ \E a \in Addrs : Fails(a)) /\ ~EndTick /\ ~\E a \in Addrs : WriteCursor(a)

\* Once nothing fails any more, a subscription that stays catches up with a head that stays.
CatchesUp ==
  <>[][head' = head /\ ~Faulty]_vars =>
    \A a \in Addrs : <>[]subs[a].there => <>[](subs[a].cursor = head)

-----------------------------------------------------------------------------
(* The invariant by which WatchSweeps implements Feed.                      *)

\* Outside its sweeps a tick has no sweep under way.
Quiet == tick.pc # "sweep" => \A a \in Addrs : sweep[a].pc \in {"idle", "due"}

\* A row with a cursor is there, and told up to its cursor.
KeptOf(a) ==
  subs[a].cursor # None =>
    subs[a].there /\ (since[a] + 1)..subs[a].cursor \subseteq told[a]

\* A row has the cursor its sweep has read, unless it is a new one and has none.
CurrentOf(a) == sweep[a].pc # "idle" /\ subs[a].cursor # None => subs[a].cursor = sweep[a].seen

\* What a sweep has told before it writes, and why a baseline needs nothing told.
AheadOf(a) ==
  subs[a].cursor # None =>
    /\ sweep[a].pc \in {"hooks", "status", "cursor"} =>
         (sweep[a].seen + 1)..tick.head \subseteq told[a]
    /\ sweep[a].pc = "baseline" => tick.head < sweep[a].seen

RowInv(a) == KeptOf(a) /\ CurrentOf(a) /\ AheadOf(a)

\* The inductive invariant: the types hold, and a cursor never passes a block that was not
\* reported, whatever sweep, request or restart comes between its read and its write.
IInv == TypeOK /\ Quiet /\ \A a \in Addrs : RowInv(a)
=============================================================================
