------------------------- MODULE WatchSweeps_proofs -------------------------
(***************************************************************************)
(* WatchSweeps: type correctness, that the sweeps keep the promise of      *)
(* Feed, and that no cursor passes a log whose webhook was not tried, for  *)
(* every value of the constants.                                           *)
(***************************************************************************)
EXTENDS WatchSweeps, TLAPS

USE DEF None

-----------------------------------------------------------------------------
(* Type correctness.                                                        *)

LEMMA Constants ==
  /\ Addrs # {} /\ MaxBlock \in Nat /\ FirstHead \in Blocks
  /\ GapCap \in Nat /\ Memory \in Nat /\ Memory > 0
  /\ Logs \in [Addrs -> SUBSET Blocks]
  /\ Urls \subseteq {"set", "clear", "keep"}
  /\ Blocks \subseteq Nat /\ Blocks \subseteq Cursors
BY SizesAssumption DEF Blocks, Cursors

\* What a tick and a sweep start from.
LEMMA Shapes ==
  /\ NoSub \in Sub /\ NoSweep \in Sweep
  /\ \A a \in Addrs : subs[a] \in Sub => Due(a) \in Sweep
BY DEF NoSub, Sub, NoSweep, Sweep, Due, Cursors

\* A sweep that goes on within its type keeps the type of all sweeps.
LEMMA GoesTyped ==
  ASSUME TypeOK, NEW a \in Addrs, NEW s \in Sweep, Goes(a, s)
  PROVE  sweep' \in [Addrs -> Sweep]
BY DEF TypeOK, Goes

LEMMA WriteTyped ==
  ASSUME TypeOK, NEW a \in Addrs, NEW row \in Sub, Write(a, row)
  PROVE  subs' \in [Addrs -> Sub]
BY DEF TypeOK, Write

\* The memory of delivered ids stays a sequence within its bound.
LEMMA RememberTyped ==
  ASSUME TypeOK, NEW a \in Addrs, NEW b \in Blocks, Remember(<<a, b>>)
  PROVE  posted' \in Seq(Addrs \X Blocks) /\ Len(posted') <= Memory
<1> DEFINE ids == Append(posted, <<a, b>>)
<1>1. posted \in Seq(Addrs \X Blocks) /\ Len(posted) <= Memory
  BY DEF TypeOK
<1>2. <<a, b>> \in Addrs \X Blocks
  OBVIOUS
<1>3. ids \in Seq(Addrs \X Blocks) /\ Len(ids) = Len(posted) + 1
  BY <1>1, <1>2
<1>4. ids # <<>>
  BY <1>3, <1>1
<1>5. Tail(ids) \in Seq(Addrs \X Blocks) /\ Len(Tail(ids)) = Len(ids) - 1
  BY <1>3, <1>4
<1>6. posted' = IF Len(ids) > Memory THEN Tail(ids) ELSE ids
  BY DEF Remember
<1> QED
  BY <1>1, <1>3, <1>5, <1>6, Constants

\* The row a PUT leaves.
LEMMA SetTyped ==
  ASSUME NEW row \in Sub, NEW on \in BOOLEAN
  PROVE  /\ [row EXCEPT !.hook = on, !.status = "none"] \in Sub
         /\ [NoSub EXCEPT !.there = TRUE, !.hook = on] \in Sub
BY DEF Sub, NoSub, Cursors

LEMMA InitTyped == Init => TypeOK
<1> SUFFICES ASSUME Init PROVE TypeOK
  OBVIOUS
<1>1. posted \in Seq(Addrs \X Blocks) /\ Len(posted) <= Memory
  BY Constants DEF Init
<1>2. NoReq \in Req
  BY Constants DEF NoReq, Req
<1> QED
  BY <1>1, <1>2, Constants, Shapes DEF Init, TypeOK, Cursors

\* A block posted is a block.
LEMMA OldestTyped ==
  ASSUME NEW s \in Sweep, NEW b \in Oldest(s.left)
  PROVE  b \in Blocks
BY DEF Sweep, Oldest

LEMMA TypeStep == TypeOK /\ [Next]_vars => TypeOK'
<1> SUFFICES ASSUME TypeOK, [Next]_vars PROVE TypeOK'
  OBVIOUS
<1> USE Constants
<1>1. CASE Tick
  BY <1>1, Shapes DEF Tick, TypeOK, history
<1>2. CASE ReadHead
  BY <1>2 DEF ReadHead, TypeOK, history
<1>3. CASE HeadFails
  BY <1>3, Shapes DEF HeadFails, TypeOK, history
<1>4. CASE EndTick
  BY <1>4 DEF EndTick, TypeOK, history
<1>5. ASSUME NEW a \in Addrs, SweepStep(a) PROVE TypeOK'
  <2> DEFINE s == sweep[a]
  <2>0. s \in Sweep /\ subs[a] \in Sub
    BY DEF TypeOK
  <2>1. CASE Take(a)
    <3>1. [s EXCEPT !.pc = "baseline"] \in Sweep /\ [s EXCEPT !.pc = "logs"] \in Sweep
      BY <2>0 DEF Sweep
    <3>2. Plan(s) \in {"none", "baseline", "scan"}
      BY DEF Plan
    <3>3. sweep' \in [Addrs -> Sweep]
      BY <2>1, <3>1, <3>2, Shapes, GoesTyped DEF Take
    <3> QED
      BY <2>1, <3>3 DEF Take, TypeOK, history
  <2>2. CASE Publish(a)
    <3>1. [s EXCEPT !.pc = IF s.hook THEN "hooks" ELSE "cursor",
                    !.left = IF s.hook THEN Logs[a] \cap Scanned(s) ELSE {}] \in Sweep
      BY <2>0 DEF Sweep
    <3>2. sweep' \in [Addrs -> Sweep]
      BY <2>2, <3>1, GoesTyped DEF Publish
    <3>3. (s.seen + 1)..tick.head \subseteq Blocks
      BY <2>0 DEF Sweep, TypeOK, Cursors, Blocks
    <3> QED
      BY <2>2, <3>2, <3>3 DEF Publish, TypeOK
  <2>3. CASE Post(a)
    <3>1. PICK b \in Oldest(s.left) :
            /\ \/ /\ Remember(<<a, b>>)
                  /\ acked' = [acked EXCEPT ![a] = @ \cup {b}]
                  /\ Goes(a, [s EXCEPT !.left = @ \ {b}, !.tried = @ \cup {b}])
               \/ /\ Goes(a, [s EXCEPT !.left = @ \ {b}, !.tried = @ \cup {b}, !.failed = TRUE])
                  /\ UNCHANGED <<posted, acked>>
            /\ UNCHANGED <<subs, head, tick, req, since, told>>
      BY <2>3 DEF Post
    <3>2. b \in Blocks
      BY <2>0, OldestTyped
    <3>3. /\ [s EXCEPT !.left = @ \ {b}, !.tried = @ \cup {b}] \in Sweep
          /\ [s EXCEPT !.left = @ \ {b}, !.tried = @ \cup {b}, !.failed = TRUE] \in Sweep
      BY <2>0, <3>2 DEF Sweep
    <3>4. sweep' \in [Addrs -> Sweep]
      BY <3>1, <3>3, GoesTyped
    <3>5. posted' \in Seq(Addrs \X Blocks) /\ Len(posted') <= Memory
      BY <3>1, <3>2, RememberTyped DEF TypeOK
    <3>6. acked' \in [Addrs -> SUBSET Blocks]
      BY <3>1, <3>2 DEF TypeOK
    <3> QED
      BY <3>1, <3>4, <3>5, <3>6 DEF TypeOK
  <2>4. CASE SkipPosted(a)
    <3>1. PICK b \in Oldest(s.left) : Goes(a, [s EXCEPT !.left = @ \ {b}])
      BY <2>4 DEF SkipPosted
    <3>2. [s EXCEPT !.left = @ \ {b}] \in Sweep
      BY <2>0 DEF Sweep
    <3>3. sweep' \in [Addrs -> Sweep]
      BY <3>1, <3>2, GoesTyped
    <3> QED
      BY <2>4, <3>3 DEF SkipPosted, TypeOK, history
  <2>5. CASE PostsDone(a)
    <3>1. [s EXCEPT !.pc = IF s.tried = {} THEN "cursor" ELSE "status"] \in Sweep
      BY <2>0 DEF Sweep
    <3>2. sweep' \in [Addrs -> Sweep]
      BY <2>5, <3>1, GoesTyped DEF PostsDone
    <3> QED
      BY <2>5, <3>2 DEF PostsDone, TypeOK, history
  <2>6. CASE WriteStatus(a)
    <3>1. /\ [s EXCEPT !.pc = "cursor"] \in Sweep
          /\ [subs[a] EXCEPT !.status = IF s.failed THEN "failed" ELSE "ok"] \in Sub
      BY <2>0 DEF Sweep, Sub
    <3>2. sweep' \in [Addrs -> Sweep] /\ subs' \in [Addrs -> Sub]
      BY <2>6, <3>1, GoesTyped, WriteTyped DEF WriteStatus
    <3> QED
      BY <2>6, <3>2 DEF WriteStatus, TypeOK, history
  <2>7. CASE WriteCursor(a)
    <3>1. tick.head \in Cursors
      BY DEF TypeOK
    <3>2. [subs[a] EXCEPT !.cursor = tick.head] \in Sub
      BY <2>0, <3>1 DEF Sub
    <3>3. sweep' \in [Addrs -> Sweep] /\ subs' \in [Addrs -> Sub]
      BY <2>7, <3>2, Shapes, GoesTyped, WriteTyped DEF WriteCursor
    <3>4. since' \in [Addrs -> Cursors]
      BY <2>7, <3>1 DEF WriteCursor, TypeOK
    <3> QED
      BY <2>7, <3>3, <3>4 DEF WriteCursor, TypeOK
  <2>8. CASE Fails(a)
    <3>1. sweep' \in [Addrs -> Sweep]
      BY <2>8, Shapes, GoesTyped DEF Fails
    <3> QED
      BY <2>8, <3>1 DEF Fails, TypeOK, history
  <2> QED
    BY <1>5, <2>1, <2>2, <2>3, <2>4, <2>5, <2>6, <2>7, <2>8 DEF SweepStep
<1>6. ASSUME NEW h \in Handlers, RequestStep(h) PROVE TypeOK'
  <2>0. NoReq \in Req /\ req[h] \in Req
    BY DEF NoReq, Req, TypeOK
  <2>1. CASE Insert(h)
    <3> DEFINE q == req[h]
    <3>1. /\ [subs[q.a] EXCEPT !.hook = (q.hook = "set"), !.status = "none"] \in Sub
          /\ [NoSub EXCEPT !.there = TRUE, !.hook = (q.hook = "set")] \in Sub
      BY <2>0, SetTyped DEF Req, TypeOK
    <3>2. subs' \in [Addrs -> Sub]
      BY <2>1, <3>1, <2>0 DEF Insert, TypeOK, Req
    <3> QED
      BY <2>0, <2>1, <3>2 DEF Insert, TypeOK, history
  <2>2. CASE Delete(h)
    BY <2>0, <2>2, Shapes DEF Delete, TypeOK, Cursors
  <2>3. CASE Drop(h)
    BY <2>0, <2>3 DEF Drop, TypeOK, history
  <2>4. ASSUME NEW a \in Addrs, Put(h, a) PROVE TypeOK'
    BY <2>4 DEF Put, TypeOK, Req, history
  <2>5. ASSUME NEW a \in Addrs, Unsubscribe(h, a) PROVE TypeOK'
    BY <2>5 DEF Unsubscribe, TypeOK, Req, history
  <2> QED
    BY <1>6, <2>1, <2>2, <2>3, <2>4, <2>5 DEF RequestStep
<1>7. CASE NewBlock
  BY <1>7 DEF NewBlock, TypeOK, history, Blocks
<1>8. CASE Shrink
  BY <1>8 DEF Shrink, TypeOK, history, Blocks
<1>9. CASE Restart
  <2>1. <<>> \in Seq(Addrs \X Blocks) /\ Len(<<>>) = 0
    OBVIOUS
  <2>2. NoReq \in Req
    BY DEF NoReq, Req
  <2> QED
    BY <1>9, <2>1, <2>2, Shapes DEF Restart, TypeOK
<1>10. CASE UNCHANGED vars
  BY <1>10 DEF vars, TypeOK
<1> QED
  BY <1>1, <1>2, <1>3, <1>4, <1>5, <1>6, <1>7, <1>8, <1>9, <1>10 DEF Next, TickStep

\* Every variable keeps its type, and the memory of delivered webhook ids its bound.
THEOREM TypeCorrect == Spec => []TypeOK
BY InitTyped, TypeStep, PTL DEF Spec

-----------------------------------------------------------------------------
(* The invariant and the promise.  A sweep acts on a row and a head it has read earlier; what *)
(* it has read still relates to the row it writes.                          *)

LEMMA InitIInv == Init => IInv
BY InitTyped DEF Init, IInv, Quiet, RowInv, KeptOf, CurrentOf, AheadOf, NoSub, NoSweep

\* A step that leaves a's row, its sweep, what is told of it and the head of the tick alone.
LEMMA RowUntouched ==
  ASSUME NEW a \in Addrs, RowInv(a),
         subs'[a].cursor = subs[a].cursor, subs'[a].there = subs[a].there,
         sweep'[a] = sweep[a], told'[a] = told[a], since'[a] = since[a],
         tick'.head = tick.head
  PROVE  RowInv(a)'
BY DEF RowInv, KeptOf, CurrentOf, AheadOf

\* A step that leaves the row alone and takes its sweep out of the way.
LEMMA SweepGone ==
  ASSUME NEW a \in Addrs, RowInv(a), subs'[a] = subs[a], told'[a] = told[a], since'[a] = since[a],
         sweep'[a].pc = "idle"
  PROVE  RowInv(a)'
BY DEF RowInv, KeptOf, CurrentOf, AheadOf

\* The sweep of a goes on, and the others stay.
LEMMA Others ==
  ASSUME TypeOK, NEW a \in Addrs, NEW s, Goes(a, s)
  PROVE  sweep'[a] = s /\ \A c \in Addrs \ {a} : sweep'[c] = sweep[c]
BY DEF Goes, TypeOK

\* All blocks a cursor passes are told.
LEMMA PassTold ==
  ASSUME TypeOK, NEW a \in Addrs, RowInv(a), sweep[a].pc \in {"baseline", "cursor"},
         subs[a].cursor # None
  PROVE  (since[a] + 1)..tick.head \subseteq told[a]
<1> SUFFICES ASSUME NEW b \in (since[a] + 1)..tick.head PROVE b \in told[a]
  OBVIOUS
<1>0. since[a] \in Int /\ tick.head \in Int /\ subs[a].cursor \in Int /\ subs[a].cursor = sweep[a].seen
  BY DEF TypeOK, Blocks, Cursors, Sub, RowInv, CurrentOf
<1>1. CASE b <= subs[a].cursor
  BY <1>0, <1>1 DEF RowInv, KeptOf
<1>2. CASE b > subs[a].cursor
  BY <1>0, <1>2 DEF RowInv, AheadOf
<1> QED
  BY <1>0, <1>1, <1>2

\* What a sweep does to its row.
LEMMA OwnSweep ==
  ASSUME IInv, NEW a \in Addrs, SweepStep(a)
  PROVE  /\ RowInv(a)'
         /\ \A c \in Addrs \ {a} :
              /\ subs'[c] = subs[c] /\ told'[c] = told[c] /\ since'[c] = since[c]
              /\ sweep'[c] = sweep[c]
         /\ tick' = tick
         /\ tick.pc = "sweep" \/ sweep'[a].pc \in {"idle", "due"}
<1> DEFINE s == sweep[a]
<1>0. s \in Sweep /\ subs[a] \in Sub /\ TypeOK /\ RowInv(a) /\ tick.head \in Int
  BY DEF IInv, TypeOK, Blocks
<1>q. s.pc \notin {"idle", "due"} => tick.pc = "sweep"
  BY DEF IInv, Quiet
<1>1. CASE Take(a)
  <2>1. CASE Plan(s) = "none"
    BY <1>0, <1>1, <2>1, Others, SweepGone DEF Take, NoSweep, history
  <2>2. CASE Plan(s) = "baseline"
    <3>1. sweep'[a] = [s EXCEPT !.pc = "baseline"] /\ \A c \in Addrs \ {a} : sweep'[c] = sweep[c]
      BY <1>0, <1>1, <2>2, Others DEF Take
    <3>2. sweep'[a].pc = "baseline" /\ sweep'[a].seen = s.seen
      BY <1>0, <3>1 DEF Sweep
    <3>3. s.seen = None \/ tick.head < s.seen
      BY <2>2 DEF Plan
    <3>4. s.pc = "due" /\ UNCHANGED <<subs, tick, told, since>> /\ tick.pc = "sweep"
      BY <1>1 DEF Take, history
    <3>5. RowInv(a)'
      BY <1>0, <3>2, <3>3, <3>4 DEF RowInv, KeptOf, CurrentOf, AheadOf
    <3> QED
      BY <3>1, <3>4, <3>5
  <2>3. CASE Plan(s) = "scan"
    <3>1. sweep'[a] = [s EXCEPT !.pc = "logs"] /\ \A c \in Addrs \ {a} : sweep'[c] = sweep[c]
      BY <1>0, <1>1, <2>3, Others DEF Take
    <3>2. sweep'[a].pc = "logs" /\ sweep'[a].seen = s.seen
      BY <1>0, <3>1 DEF Sweep
    <3>4. s.pc = "due" /\ UNCHANGED <<subs, tick, told, since>> /\ tick.pc = "sweep"
      BY <1>1 DEF Take, history
    <3>5. RowInv(a)'
      BY <1>0, <3>2, <3>4 DEF RowInv, KeptOf, CurrentOf, AheadOf
    <3> QED
      BY <3>1, <3>4, <3>5
  <2> QED
    BY <2>1, <2>2, <2>3 DEF Plan
<1>2. CASE Publish(a)
  <2>1. /\ s.pc = "logs" /\ tick' = tick /\ UNCHANGED <<subs, since>>
        /\ told' = [told EXCEPT ![a] = @ \cup (s.seen + 1)..tick.head]
        /\ sweep'[a] = [s EXCEPT !.pc = IF s.hook THEN "hooks" ELSE "cursor",
                                 !.left = IF s.hook THEN Logs[a] \cap Scanned(s) ELSE {}]
        /\ \A c \in Addrs \ {a} : sweep'[c] = sweep[c]
    BY <1>0, <1>2, Others DEF Publish
  <2>2. sweep'[a].seen = s.seen /\ sweep'[a].pc \in {"hooks", "cursor"}
    BY <1>0, <2>1 DEF Sweep
  <2>3. told'[a] = told[a] \cup (s.seen + 1)..tick.head /\ \A c \in Addrs \ {a} : told'[c] = told[c]
    BY <1>0, <2>1 DEF TypeOK
  <2>4. RowInv(a)'
    BY <1>0, <2>1, <2>2, <2>3 DEF RowInv, KeptOf, CurrentOf, AheadOf
  <2> QED
    BY <1>q, <2>1, <2>3, <2>4
<1>3. CASE Post(a)
  <2>1. PICK b \in Oldest(s.left) :
          /\ s.pc = "hooks"
          /\ \/ Goes(a, [s EXCEPT !.left = @ \ {b}, !.tried = @ \cup {b}])
             \/ Goes(a, [s EXCEPT !.left = @ \ {b}, !.tried = @ \cup {b}, !.failed = TRUE])
          /\ UNCHANGED <<subs, tick, since, told>>
    BY <1>3 DEF Post
  <2>a. /\ \/ sweep'[a] = [s EXCEPT !.left = @ \ {b}, !.tried = @ \cup {b}]
           \/ sweep'[a] = [s EXCEPT !.left = @ \ {b}, !.tried = @ \cup {b}, !.failed = TRUE]
        /\ \A c \in Addrs \ {a} : sweep'[c] = sweep[c]
    BY <1>0, <2>1, Others
  <2>2. sweep'[a].pc = s.pc /\ sweep'[a].seen = s.seen
    BY <1>0, <2>a DEF Sweep
  <2>3. RowInv(a)'
    BY <1>0, <2>1, <2>2 DEF RowInv, KeptOf, CurrentOf, AheadOf
  <2> QED
    BY <1>q, <2>1, <2>a, <2>2, <2>3
<1>4. CASE SkipPosted(a)
  <2>1. PICK b \in Oldest(s.left) :
          s.pc = "hooks" /\ Goes(a, [s EXCEPT !.left = @ \ {b}]) /\ UNCHANGED <<subs, tick, since, told>>
    BY <1>4 DEF SkipPosted, history
  <2>2. /\ sweep'[a].pc = s.pc /\ sweep'[a].seen = s.seen
        /\ \A c \in Addrs \ {a} : sweep'[c] = sweep[c]
    BY <1>0, <2>1, Others DEF Sweep
  <2>3. RowInv(a)'
    BY <1>0, <2>1, <2>2 DEF RowInv, KeptOf, CurrentOf, AheadOf
  <2> QED
    BY <1>q, <2>1, <2>2, <2>3
<1>5. CASE PostsDone(a)
  <2>1. s.pc = "hooks" /\ UNCHANGED <<subs, tick, since, told>>
    BY <1>5 DEF PostsDone, history
  <2>2. /\ sweep'[a].pc \in {"cursor", "status"} /\ sweep'[a].seen = s.seen
        /\ \A c \in Addrs \ {a} : sweep'[c] = sweep[c]
    BY <1>0, <1>5, Others DEF PostsDone, Sweep
  <2>3. RowInv(a)'
    BY <1>0, <2>1, <2>2 DEF RowInv, KeptOf, CurrentOf, AheadOf
  <2> QED
    BY <1>q, <2>1, <2>2, <2>3
<1>6. CASE WriteStatus(a)
  <2>1. s.pc = "status" /\ UNCHANGED <<tick, since, told>>
    BY <1>6 DEF WriteStatus, history
  <2>2. /\ subs'[a].cursor = subs[a].cursor /\ subs'[a].there = subs[a].there
        /\ \A c \in Addrs \ {a} : subs'[c] = subs[c]
    BY <1>0, <1>6 DEF WriteStatus, Write, Sub, TypeOK
  <2>3. /\ sweep'[a].pc = "cursor" /\ sweep'[a].seen = s.seen
        /\ \A c \in Addrs \ {a} : sweep'[c] = sweep[c]
    BY <1>0, <1>6, Others DEF WriteStatus, Sweep
  <2>4. RowInv(a)'
    BY <1>0, <2>1, <2>2, <2>3 DEF RowInv, KeptOf, CurrentOf, AheadOf
  <2> QED
    BY <1>q, <2>1, <2>2, <2>3, <2>4
<1>7. CASE WriteCursor(a)
  <2>1. s.pc \in {"baseline", "cursor"} /\ UNCHANGED <<tick, told>>
    BY <1>7 DEF WriteCursor
  <2>2. sweep'[a].pc = "idle" /\ \A c \in Addrs \ {a} : sweep'[c] = sweep[c]
    BY <1>0, <1>7, Others DEF WriteCursor, NoSweep
  <2>3. /\ subs'[a] = IF subs[a].there THEN [subs[a] EXCEPT !.cursor = tick.head] ELSE subs[a]
        /\ \A c \in Addrs \ {a} : subs'[c] = subs[c]
    BY <1>0, <1>7 DEF WriteCursor, Write, TypeOK
  <2>4. /\ since'[a] = IF subs[a].there /\ subs[a].cursor = None THEN tick.head ELSE since[a]
        /\ \A c \in Addrs \ {a} : since'[c] = since[c]
    BY <1>0, <1>7 DEF WriteCursor, TypeOK
  <2>5. KeptOf(a)'
    <3>1. CASE ~subs[a].there
      BY <1>0, <2>1, <2>3, <2>4, <3>1 DEF RowInv, KeptOf
    <3>2. CASE subs[a].there /\ subs[a].cursor = None
      BY <1>0, <2>1, <2>3, <2>4, <3>2 DEF KeptOf, Sub
    <3>3. CASE subs[a].there /\ subs[a].cursor # None
      <4>1. (since[a] + 1)..tick.head \subseteq told[a]
        BY <1>0, <2>1, <3>3, PassTold DEF IInv
      <4> QED
        BY <1>0, <2>1, <2>3, <2>4, <3>3, <4>1 DEF KeptOf, Sub
    <3> QED
      BY <3>1, <3>2, <3>3
  <2>6. RowInv(a)'
    BY <2>2, <2>5 DEF RowInv, CurrentOf, AheadOf
  <2> QED
    BY <1>q, <2>1, <2>2, <2>3, <2>4, <2>6
<1>8. CASE Fails(a)
  <2>1. UNCHANGED <<subs, tick, since, told>>
    BY <1>8 DEF Fails, history
  <2>2. sweep'[a].pc = "idle" /\ \A c \in Addrs \ {a} : sweep'[c] = sweep[c]
    BY <1>0, <1>8, Others DEF Fails, NoSweep
  <2> QED
    BY <1>0, <2>1, <2>2, SweepGone
<1> QED
  BY <1>1, <1>2, <1>3, <1>4, <1>5, <1>6, <1>7, <1>8 DEF SweepStep

\* What a request does: a row that is removed takes its history with it.
LEMMA RequestRow ==
  ASSUME IInv, NEW h \in Handlers, RequestStep(h)
  PROVE  /\ UNCHANGED <<tick, sweep>>
         /\ \/ /\ UNCHANGED <<told, since>>
               /\ \A a \in Addrs :
                    /\ subs'[a].cursor = subs[a].cursor
                    /\ subs[a].there => subs'[a].there
            \/ \E a \in Addrs :
                 /\ subs' = [subs EXCEPT ![a] = NoSub]
                 /\ since' = [since EXCEPT ![a] = None]
                 /\ told' = [told EXCEPT ![a] = {}]
<1>0. TypeOK /\ \A a \in Addrs : subs[a] \in Sub /\ KeptOf(a)
  BY DEF IInv, RowInv, TypeOK
<1>1. CASE Insert(h)
  <2> DEFINE q == req[h]
  <2>1. q.a \in Addrs
    BY <1>0 DEF TypeOK, Req
  <2>2. /\ UNCHANGED <<tick, sweep, told, since>>
        /\ subs' = [subs EXCEPT ![q.a] =
             IF @.there
             THEN IF q.hook = "keep" THEN @ ELSE [@ EXCEPT !.hook = (q.hook = "set"), !.status = "none"]
             ELSE [NoSub EXCEPT !.there = TRUE, !.hook = (q.hook = "set")]]
    BY <1>1 DEF Insert, history
  <2>3. \A a \in Addrs \ {q.a} : subs'[a] = subs[a]
    BY <1>0, <2>2 DEF TypeOK
  <2>4. CASE subs[q.a].there
    <3>1. \/ subs'[q.a] = subs[q.a]
          \/ subs'[q.a] = [subs[q.a] EXCEPT !.hook = (q.hook = "set"), !.status = "none"]
      BY <1>0, <2>1, <2>2, <2>4 DEF TypeOK
    <3>2. subs'[q.a].cursor = subs[q.a].cursor /\ subs'[q.a].there = subs[q.a].there
      BY <1>0, <2>1, <3>1 DEF Sub
    <3> QED
      BY <2>2, <2>3, <3>2
  <2>5. CASE ~subs[q.a].there
    <3>1. subs'[q.a] = [NoSub EXCEPT !.there = TRUE, !.hook = (q.hook = "set")]
      BY <1>0, <2>1, <2>2, <2>5 DEF TypeOK
    <3>2. subs'[q.a].cursor = None /\ subs'[q.a].there
      BY <3>1 DEF NoSub
    <3>3. subs[q.a].cursor = None
      BY <1>0, <2>1, <2>5 DEF KeptOf
    <3> QED
      BY <2>2, <2>3, <3>2, <3>3
  <2> QED
    BY <2>4, <2>5
<1>2. CASE Delete(h)
  BY <1>0, <1>2 DEF Delete, TypeOK, Req
<1>3. CASE Drop(h)
  BY <1>3 DEF Drop, history
<1>4. ASSUME NEW a \in Addrs, Put(h, a) \/ Unsubscribe(h, a)
      PROVE  UNCHANGED <<tick, sweep, told, since, subs>>
  BY <1>4 DEF Put, Unsubscribe, history
<1> QED
  BY <1>1, <1>2, <1>3, <1>4 DEF RequestStep

LEMMA InvStep == IInv /\ [Next]_vars => IInv'
<1> SUFFICES ASSUME IInv, [Next]_vars PROVE Quiet' /\ \A c \in Addrs : RowInv(c)'
  BY TypeStep DEF IInv
<1>0. TypeOK /\ Quiet /\ \A c \in Addrs : RowInv(c) /\ subs[c] \in Sub /\ sweep[c] \in Sweep
  BY DEF IInv, TypeOK
<1>1. CASE Tick
  <2>1. /\ \A c \in Addrs : sweep'[c].pc \in {"idle", "due"}
        /\ \A c \in Addrs : sweep'[c].pc = "due" => sweep'[c].seen = subs[c].cursor
    BY <1>1 DEF Tick, NoSweep, Due
  <2>2. UNCHANGED <<subs, told, since>> /\ tick'.pc = "head"
    BY <1>0, <1>1 DEF Tick, TypeOK, history
  <2> QED
    BY <1>0, <2>1, <2>2 DEF Quiet, RowInv, KeptOf, CurrentOf, AheadOf
<1>2. CASE ReadHead
  <2>1. tick.pc = "head" /\ tick'.pc = "sweep" /\ UNCHANGED <<subs, told, since, sweep>>
    BY <1>2 DEF ReadHead, history
  <2>2. \A c \in Addrs : sweep[c].pc \in {"idle", "due"}
    BY <1>0, <2>1 DEF Quiet
  <2> QED
    BY <1>0, <2>1, <2>2 DEF Quiet, RowInv, KeptOf, CurrentOf, AheadOf
<1>3. CASE HeadFails \/ Restart
  <2>1. /\ UNCHANGED <<subs, told, since>>
        /\ \A c \in Addrs : sweep'[c].pc = "idle"
    BY <1>3 DEF HeadFails, Restart, NoSweep, history
  <2> QED
    BY <1>0, <2>1, SweepGone DEF Quiet
<1>4. CASE EndTick
  <2>1. UNCHANGED <<subs, told, since, sweep>> /\ \A c \in Addrs : sweep[c].pc = "idle"
    BY <1>4 DEF EndTick, history
  <2> QED
    BY <1>0, <2>1, SweepGone DEF Quiet
<1>5. ASSUME NEW a \in Addrs, SweepStep(a) PROVE Quiet' /\ \A c \in Addrs : RowInv(c)'
  <2>1. RowInv(a)' /\ tick' = tick /\ (tick.pc = "sweep" \/ sweep'[a].pc \in {"idle", "due"})
    BY <1>5, OwnSweep
  <2>2. ASSUME NEW c \in Addrs \ {a} PROVE RowInv(c)' /\ sweep'[c] = sweep[c]
    <3>1. /\ subs'[c] = subs[c] /\ told'[c] = told[c] /\ since'[c] = since[c]
          /\ sweep'[c] = sweep[c] /\ tick' = tick
      BY <1>5, <2>2, OwnSweep
    <3> QED
      BY <1>0, <3>1, RowUntouched
  <2> QED
    BY <1>0, <2>1, <2>2 DEF Quiet
<1>6. ASSUME NEW h \in Handlers, RequestStep(h) PROVE Quiet' /\ \A c \in Addrs : RowInv(c)'
  <2>1. UNCHANGED <<tick, sweep>>
    BY <1>6, RequestRow
  <2>2. ASSUME NEW c \in Addrs PROVE RowInv(c)'
    <3>1. CASE UNCHANGED <<told, since>> /\ subs'[c].cursor = subs[c].cursor /\ (subs[c].there => subs'[c].there)
      BY <1>0, <2>1, <3>1 DEF RowInv, KeptOf, CurrentOf, AheadOf
    <3>2. ASSUME NEW a \in Addrs, subs' = [subs EXCEPT ![a] = NoSub],
                 since' = [since EXCEPT ![a] = None], told' = [told EXCEPT ![a] = {}]
          PROVE  RowInv(c)'
      <4>1. CASE c = a
        <5>1. subs'[c].cursor = None
          BY <1>0, <3>2, <4>1 DEF TypeOK, NoSub
        <5> QED
          BY <5>1 DEF RowInv, KeptOf, CurrentOf, AheadOf
      <4>2. CASE c # a
        BY <1>0, <2>1, <3>2, <4>2, RowUntouched DEF TypeOK
      <4> QED
        BY <4>1, <4>2
    <3> QED
      BY <1>6, <3>1, <3>2, RequestRow
  <2> QED
    BY <1>0, <2>1, <2>2 DEF Quiet
<1>7. CASE NewBlock \/ Shrink \/ UNCHANGED vars
  <2>1. UNCHANGED <<subs, told, since, sweep, tick>>
    BY <1>7 DEF NewBlock, Shrink, vars, history
  <2> QED
    BY <1>0, <2>1, RowUntouched DEF Quiet
<1> QED
  BY <1>1, <1>2, <1>3, <1>4, <1>5, <1>6, <1>7 DEF Next, TickStep

\* The invariant holds in every behaviour: what a sweep has read still relates to the row it
\* will write, whatever requests and restarts come in between.
THEOREM Invariant == Spec => []IInv
BY InitIInv, InvStep, PTL DEF Spec

\* The cursors as Feed sees them.
Cursor == [a \in Addrs |-> subs[a].cursor]

LEMMA SameCursors ==
  ASSUME \A a \in Addrs : subs'[a].cursor = subs[a].cursor
  PROVE  Cursor' = Cursor
BY DEF Cursor

LEMMA FeedInit == Init => Promise!Init
BY DEF Init, Promise!Init, Promise!None, NoSub

LEMMA FeedMoves ==
  ASSUME NEW a \in Addrs, NEW c \in Promise!Blocks, Promise!Begin(a, c) \/ Promise!Pass(a, c)
  PROVE  Promise!Next
BY DEF Promise!Next

\* A step of a sweep tells blocks, starts the watching, passes told blocks, or is none.
LEMMA SweepFeeds ==
  ASSUME IInv, NEW a \in Addrs, SweepStep(a)
  PROVE  [Promise!Next]_(Promise!vars)
<1>0. TypeOK /\ RowInv(a) /\ sweep[a] \in Sweep /\ subs[a] \in Sub /\ tick.head \in Blocks
  BY DEF IInv, TypeOK
<1>1. CASE Publish(a)
  <2>1. (sweep[a].seen + 1)..tick.head \in SUBSET Promise!Blocks
    <3>1. \A b \in (sweep[a].seen + 1)..tick.head : b \in 0..MaxBlock
      BY <1>0, Constants DEF Sweep, Cursors, Blocks
    <3> QED
      BY <3>1 DEF Promise!Blocks
  <2>2. Promise!Tell(a, (sweep[a].seen + 1)..tick.head)
    BY <1>1 DEF Publish, Promise!Tell
  <2> QED
    BY <2>1, <2>2 DEF Promise!Next
<1>2. CASE WriteCursor(a)
  <2>0. /\ subs' = [subs EXCEPT ![a] = IF @.there THEN [subs[a] EXCEPT !.cursor = tick.head] ELSE @]
        /\ since' = [since EXCEPT ![a] = IF subs[a].there /\ subs[a].cursor = None THEN tick.head ELSE @]
        /\ told' = told /\ sweep[a].pc \in {"baseline", "cursor"}
    BY <1>2 DEF WriteCursor, Write
  <2>1. CASE ~subs[a].there
    <3>1. subs' = subs /\ since' = since
      BY <1>0, <2>0, <2>1 DEF TypeOK
    <3> QED
      BY <2>0, <3>1 DEF Promise!vars
  <2>2. CASE subs[a].there
    <3>1. Cursor' = [Cursor EXCEPT ![a] = tick.head]
      BY <1>0, <2>0, <2>2 DEF Cursor, TypeOK, Sub
    <3>2. PICK c \in Promise!Blocks : c = tick.head
      BY <1>0 DEF Blocks, Promise!Blocks
    <3>3. CASE subs[a].cursor = None
      <4>1. since' = [since EXCEPT ![a] = tick.head]
        BY <2>0, <2>2, <3>3
      <4>2. Cursor[a] = None
        BY <3>3 DEF Cursor
      <4>3. Promise!Begin(a, c)
        BY <2>0, <3>1, <3>2, <4>1, <4>2 DEF Promise!Begin, Cursor, Promise!None
      <4> QED
        BY <3>2, <4>3, FeedMoves
    <3>4. CASE subs[a].cursor # None
      <4>1. since' = since
        BY <1>0, <2>0, <3>4 DEF TypeOK
      <4>2. (since[a] + 1)..tick.head \subseteq told[a]
        BY <1>0, <2>0, <3>4, PassTold
      <4>3. Cursor[a] # None
        BY <3>4 DEF Cursor
      <4>4. Promise!Pass(a, c)
        BY <2>0, <3>1, <3>2, <4>1, <4>2, <4>3 DEF Promise!Pass, Cursor, Promise!None
      <4> QED
        BY <3>2, <4>4, FeedMoves
    <3> QED
      BY <3>3, <3>4
  <2> QED
    BY <2>1, <2>2
<1>3. CASE WriteStatus(a)
  <2>1. \A c \in Addrs : subs'[c].cursor = subs[c].cursor
    BY <1>0, <1>3 DEF WriteStatus, Write, TypeOK, Sub
  <2>2. UNCHANGED <<since, told>>
    BY <1>3 DEF WriteStatus, history
  <2> QED
    BY <2>1, <2>2, SameCursors DEF Promise!vars, Cursor
<1>4. CASE Take(a) \/ Post(a) \/ SkipPosted(a) \/ PostsDone(a) \/ Fails(a)
  <2>1. UNCHANGED <<subs, since, told>>
    BY <1>4 DEF Take, Post, SkipPosted, PostsDone, Fails, history
  <2> QED
    BY <2>1 DEF Promise!vars
<1> QED
  BY <1>1, <1>2, <1>3, <1>4 DEF SweepStep

LEMMA RequestFeeds ==
  ASSUME IInv, NEW h \in Handlers, RequestStep(h)
  PROVE  [Promise!Next]_(Promise!vars)
<1>1. CASE UNCHANGED <<told, since>> /\ \A a \in Addrs : subs'[a].cursor = subs[a].cursor
  BY <1>1, SameCursors DEF Promise!vars, Cursor
<1>2. ASSUME NEW a \in Addrs, subs' = [subs EXCEPT ![a] = NoSub],
             since' = [since EXCEPT ![a] = None], told' = [told EXCEPT ![a] = {}]
      PROVE  [Promise!Next]_(Promise!vars)
  <2>1. Cursor' = [Cursor EXCEPT ![a] = None]
    BY <1>2 DEF Cursor, NoSub, IInv, TypeOK
  <2>2. Promise!End(a)
    BY <1>2, <2>1 DEF Promise!End, Cursor, Promise!None
  <2> QED
    BY <2>2 DEF Promise!Next
<1> QED
  BY <1>1, <1>2, RequestRow

LEMMA FeedStep == IInv /\ [Next]_vars => [Promise!Next]_(Promise!vars)
<1> SUFFICES ASSUME IInv, [Next]_vars PROVE [Promise!Next]_(Promise!vars)
  OBVIOUS
<1>1. CASE TickStep \/ NewBlock \/ Shrink \/ Restart \/ UNCHANGED vars
  <2>1. UNCHANGED <<subs, since, told>>
    BY <1>1 DEF TickStep, Tick, ReadHead, HeadFails, EndTick, NewBlock, Shrink, Restart, history, vars
  <2> QED
    BY <2>1 DEF Promise!vars
<1> QED
  BY <1>1, SweepFeeds, RequestFeeds DEF Next

\* The sweeps keep the promise of Feed: whatever fails, restarts, is removed and put again
\* under a sweep, or shrinks, no cursor passes a block that was not told.
THEOREM Implementation == Spec => ImplementsFeed
<1>1. Spec => []IInv
  BY Invariant
<1>2. Init => Promise!Init
  BY FeedInit
<1>3. IInv /\ [Next]_vars => [Promise!Next]_(Promise!vars)
  BY FeedStep
<1> QED
  BY <1>1, <1>2, <1>3, PTL DEF Spec, ImplementsFeed, Promise!Spec

-----------------------------------------------------------------------------
(* The webhooks.                                                            *)

\* What is remembered was acknowledged.
PostedOK == \A a \in Addrs, b \in Blocks : Remembered(a, b) => b \in acked[a]

\* While a sweep posts, every log it scanned was acknowledged, was tried or is left, and
\* none is left when it goes on to its writes.
HooksOf(a) ==
  LET s == sweep[a] IN
  /\ s.hook /\ s.pc \in {"hooks", "status", "cursor"} =>
       Logs[a] \cap Scanned(s) \subseteq acked[a] \cup s.tried \cup s.left
  /\ s.pc \in {"status", "cursor"} => s.left = {}

HookInv == PostedOK /\ \A a \in Addrs : HooksOf(a)

\* One more id is remembered, and perhaps the oldest is forgotten.
LEMMA RememberAdds ==
  ASSUME TypeOK, NEW id \in Addrs \X Blocks, Remember(id)
  PROVE  ToSet(posted') \subseteq ToSet(posted) \cup {id}
<1> DEFINE ids == Append(posted, id)
<1>1. posted \in Seq(Addrs \X Blocks)
  BY DEF TypeOK
<1>2. ids \in Seq(Addrs \X Blocks) /\ ids # <<>> /\ Len(ids) = Len(posted) + 1
      /\ \A i \in 1..Len(ids) : ids[i] = IF i <= Len(posted) THEN posted[i] ELSE id
  BY <1>1
<1>3. ToSet(ids) \subseteq ToSet(posted) \cup {id}
  BY <1>1, <1>2 DEF ToSet
<1>4. Tail(ids) \in Seq(Addrs \X Blocks) /\ \A i \in 1..Len(Tail(ids)) : i + 1 \in 1..Len(ids) /\ Tail(ids)[i] = ids[i + 1]
  BY <1>2
<1> HIDE DEF ids
<1>5. ToSet(Tail(ids)) \subseteq ToSet(ids)
  BY <1>2, <1>4 DEF ToSet
<1> QED BY <1>3, <1>5 DEF Remember, ids

\* A sweep that is left alone, under a head of the tick that stays.
LEMMA HooksKept ==
  ASSUME NEW a \in Addrs, HooksOf(a), sweep'[a] = sweep[a], acked[a] \subseteq acked'[a],
         tick'.head = tick.head \/ sweep[a].pc \in {"idle", "due"}
  PROVE  HooksOf(a)'
BY DEF HooksOf, Scanned

LEMMA HooksGone == ASSUME NEW a \in Addrs, sweep'[a] = NoSweep \/ sweep'[a].pc = "due" PROVE HooksOf(a)'
BY DEF HooksOf, NoSweep

\* What a sweep does to its own webhooks.
LEMMA SweepHooks ==
  ASSUME IInv, HookInv, NEW a \in Addrs, SweepStep(a)
  PROVE  HookInv'
<1> DEFINE s == sweep[a]
<1>0. /\ TypeOK /\ s \in Sweep /\ HooksOf(a) /\ sweep \in [Addrs -> Sweep] /\ PostedOK
      /\ acked \in [Addrs -> SUBSET Blocks]
  BY DEF IInv, TypeOK, HookInv
<1>1. UNCHANGED tick /\ \A c \in Addrs \ {a} : sweep'[c] = sweep[c]
  BY <1>0 DEF SweepStep, Take, Publish, Post, SkipPosted, PostsDone, WriteStatus, WriteCursor, Fails, Goes, history
<1>2. ASSUME UNCHANGED <<posted, acked>>, HooksOf(a)' PROVE HookInv'
  BY <1>0, <1>1, <1>2, HooksKept DEF HookInv, PostedOK, Remembered
<1>3. CASE Take(a)
  <2>1. UNCHANGED <<posted, acked>> /\ sweep'[a] \in {NoSweep, [s EXCEPT !.pc = "baseline"], [s EXCEPT !.pc = "logs"]}
    <3>1. Plan(s) \in {"none", "baseline", "scan"}
      BY DEF Plan
    <3> QED BY <1>0, <1>3, <3>1 DEF Take, Goes, history
  <2>2. sweep'[a].pc \in {"idle", "baseline", "logs"}
    BY <1>0, <2>1 DEF Sweep, NoSweep
  <2>3. HooksOf(a)'
    BY <2>2 DEF HooksOf
  <2> QED BY <1>2, <2>1, <2>3
<1>4. CASE Publish(a)
  <2> DEFINE x == [s EXCEPT !.pc = IF s.hook THEN "hooks" ELSE "cursor",
                            !.left = IF s.hook THEN Logs[a] \cap Scanned(s) ELSE {}]
  <2>1. sweep'[a] = x /\ UNCHANGED <<posted, acked>>
    BY <1>0, <1>4 DEF Publish, Goes
  <2>2. /\ x.hook = s.hook /\ x.seen = s.seen
        /\ x.pc = (IF s.hook THEN "hooks" ELSE "cursor")
        /\ x.left = IF s.hook THEN Logs[a] \cap Scanned(s) ELSE {}
    BY <1>0 DEF Sweep
  <2> HIDE DEF x
  <2>3. Scanned(x) = Scanned(s)
    BY <2>2 DEF Scanned
  <2>4. Scanned(sweep[a])' = Scanned(x)
    BY <1>1, <2>1 DEF Scanned
  <2>5. HooksOf(a)'
    BY <2>1, <2>2, <2>3, <2>4 DEF HooksOf
  <2> QED BY <1>2, <2>1, <2>5
<1>5. CASE Post(a)
  <2>1. PICK b \in Oldest(s.left) :
          /\ s.pc = "hooks"
          /\ \/ /\ Remember(<<a, b>>)
                /\ acked' = [acked EXCEPT ![a] = @ \cup {b}]
                /\ Goes(a, [s EXCEPT !.left = @ \ {b}, !.tried = @ \cup {b}])
             \/ /\ Goes(a, [s EXCEPT !.left = @ \ {b}, !.tried = @ \cup {b}, !.failed = TRUE])
                /\ UNCHANGED <<posted, acked>>
    BY <1>5 DEF Post
  <2>2. b \in Blocks
    BY <1>0, OldestTyped
  <2>3. /\ sweep'[a].pc = "hooks" /\ sweep'[a].hook = s.hook /\ sweep'[a].seen = s.seen
        /\ sweep'[a].left = s.left \ {b} /\ sweep'[a].tried = s.tried \cup {b}
    <3> DEFINE x == [s EXCEPT !.left = @ \ {b}, !.tried = @ \cup {b}]
               y == [s EXCEPT !.left = @ \ {b}, !.tried = @ \cup {b}, !.failed = TRUE]
    <3>1. sweep'[a] \in {x, y}
      BY <1>0, <2>1 DEF Goes
    <3>2. /\ x.pc = s.pc /\ x.hook = s.hook /\ x.seen = s.seen
          /\ x.left = s.left \ {b} /\ x.tried = s.tried \cup {b}
      BY <1>0 DEF Sweep
    <3>3. /\ y.pc = s.pc /\ y.hook = s.hook /\ y.seen = s.seen
          /\ y.left = s.left \ {b} /\ y.tried = s.tried \cup {b}
      BY <1>0 DEF Sweep
    <3> QED BY <2>1, <3>1, <3>2, <3>3
  <2>4. \A c \in Addrs : acked[c] \subseteq acked'[c]
    BY <1>0, <2>1
  <2>5. Scanned(sweep[a])' = Scanned(s)
    BY <1>1, <2>3 DEF Scanned
  <2>6. HooksOf(a)'
    BY <1>0, <2>1, <2>3, <2>4, <2>5 DEF HooksOf
  <2>7. PostedOK'
    <3>1. CASE UNCHANGED <<posted, acked>>
      BY <1>0, <3>1 DEF PostedOK, Remembered
    <3>2. CASE Remember(<<a, b>>) /\ acked' = [acked EXCEPT ![a] = @ \cup {b}]
      <4>1. ToSet(posted') \subseteq ToSet(posted) \cup {<<a, b>>}
        BY <1>0, <2>2, <3>2, RememberAdds
      <4>2. b \in acked'[a]
        BY <1>0, <3>2
      <4> QED BY <1>0, <2>4, <4>1, <4>2 DEF PostedOK, Remembered
    <3> QED BY <2>1, <3>1, <3>2
  <2> QED BY <1>1, <2>4, <2>6, <2>7, HooksKept DEF HookInv
<1>6. CASE SkipPosted(a)
  <2>1. PICK b \in Oldest(s.left) :
          s.pc = "hooks" /\ Remembered(a, b) /\ Goes(a, [s EXCEPT !.left = @ \ {b}]) /\ UNCHANGED <<posted, acked>>
    BY <1>6 DEF SkipPosted, history
  <2>2. b \in acked[a]
    BY <1>0, <2>1, OldestTyped DEF PostedOK
  <2>3. /\ sweep'[a].pc = "hooks" /\ sweep'[a].hook = s.hook /\ sweep'[a].seen = s.seen
        /\ sweep'[a].left = s.left \ {b} /\ sweep'[a].tried = s.tried
    BY <1>0, <2>1 DEF Goes, Sweep
  <2>4. Scanned(sweep[a])' = Scanned(s)
    BY <1>1, <2>3 DEF Scanned
  <2>5. HooksOf(a)'
    BY <1>0, <2>1, <2>2, <2>3, <2>4 DEF HooksOf
  <2> QED BY <1>2, <2>1, <2>5
<1>7. CASE PostsDone(a) \/ WriteStatus(a)
  <2>1. /\ (s.pc = "hooks" /\ s.left = {}) \/ s.pc = "status"
        /\ UNCHANGED <<posted, acked>>
        /\ \E c \in {"cursor", "status"} : Goes(a, [s EXCEPT !.pc = c])
    BY <1>7 DEF PostsDone, WriteStatus, history
  <2>2. /\ sweep'[a].pc \in {"status", "cursor"} /\ sweep'[a].hook = s.hook /\ sweep'[a].seen = s.seen
        /\ sweep'[a].left = s.left /\ sweep'[a].tried = s.tried
    BY <1>0, <2>1 DEF Goes, Sweep
  <2>3. Scanned(sweep[a])' = Scanned(s)
    BY <1>1, <2>2 DEF Scanned
  <2>4. HooksOf(a)'
    BY <1>0, <2>1, <2>2, <2>3 DEF HooksOf
  <2> QED BY <1>2, <2>1, <2>4
<1>8. CASE WriteCursor(a) \/ Fails(a)
  <2>1. sweep'[a] = NoSweep /\ UNCHANGED <<posted, acked>>
    BY <1>0, <1>8 DEF WriteCursor, Fails, Goes, history
  <2> QED BY <1>2, <2>1, HooksGone
<1> QED BY <1>3, <1>4, <1>5, <1>6, <1>7, <1>8 DEF SweepStep

LEMMA HookStep == IInv /\ HookInv /\ [Next]_vars => HookInv'
<1> SUFFICES ASSUME IInv, HookInv, [Next]_vars PROVE HookInv'
  OBVIOUS
<1>1. CASE UNCHANGED <<tick, sweep, posted, acked>>
  BY <1>1, HooksKept DEF HookInv, PostedOK, Remembered
<1>2. CASE TickStep
  <2>1. UNCHANGED <<posted, acked>>
    BY <1>2 DEF TickStep, Tick, ReadHead, HeadFails, EndTick, history
  <2>2. ASSUME NEW a \in Addrs PROVE HooksOf(a)'
    <3>1. CASE Tick \/ HeadFails
      BY <3>1, HooksGone DEF Tick, HeadFails, Due, NoSweep
    <3>2. CASE ReadHead
      <4>1. sweep[a].pc \in {"idle", "due"} /\ sweep' = sweep
        BY <3>2 DEF ReadHead, IInv, Quiet
      <4> QED BY <2>1, <4>1, HooksKept DEF HookInv
    <3>3. CASE EndTick
      BY <2>1, <3>3, HooksKept DEF EndTick, HookInv
    <3> QED BY <1>2, <3>1, <3>2, <3>3 DEF TickStep
  <2> QED BY <2>1, <2>2 DEF HookInv, PostedOK, Remembered
<1>3. CASE Restart
  <2>1. \A a \in Addrs : HooksOf(a)'
    BY <1>3, HooksGone DEF Restart
  <2>2. PostedOK'
    BY <1>3 DEF Restart, PostedOK, Remembered, ToSet
  <2> QED BY <2>1, <2>2 DEF HookInv
<1>4. CASE NewBlock \/ Shrink \/ UNCHANGED vars \/ \E h \in Handlers : RequestStep(h)
  BY <1>1, <1>4 DEF NewBlock, Shrink, vars, RequestStep, Insert, Delete, Drop, Put, Unsubscribe, history
<1> QED BY <1>2, <1>3, <1>4, SweepHooks DEF Next

\* A webhook misses no event in silence: a cursor moves over a log only if the endpoint has
\* acknowledged it or this very sweep has tried to post it.
THEOREM HookTriedHolds == Spec => HookTried
<1> DEFINE Tried ==
             \A a \in Addrs :
               sweep[a].pc = "cursor" /\ sweep[a].hook /\ subs'[a].cursor # subs[a].cursor /\ subs'[a].there =>
                 Logs[a] \cap Scanned(sweep[a]) \subseteq acked[a] \cup sweep[a].tried
<1>1. IInv /\ HookInv /\ [Next]_vars => [Tried]_vars
  BY DEF HookInv, HooksOf
<1>2. Init => HookInv
  BY DEF Init, HookInv, PostedOK, Remembered, ToSet, HooksOf, NoSweep
<1>3. Spec => [][Tried]_vars
  BY <1>1, <1>2, HookStep, Invariant, PTL DEF Spec
<1> QED BY <1>3 DEF HookTried
=============================================================================
