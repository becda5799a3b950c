-------------------------- MODULE LiveChain_proofs --------------------------
(***************************************************************************)
(* NoHoles, EventsInOrder and LiveIsServed are invariants of LiveChain for *)
(* every set of connections and requests, every chain length, catch-up,    *)
(* queue and number of errors, and no stream polls an endpoint that was    *)
(* replaced unless the load of it was overtaken.                           *)
(***************************************************************************)
EXTENDS LiveChain, SequenceTheorems, TLAPS

-----------------------------------------------------------------------------
(* The inductive invariant.                                                 *)

\* The tail has passed every block up to the last one, and, while it catches up, every block
\* below the one it is at; all of them are above the lowest head.
TailOK(s, w) ==
  /\ s.pc # "closed" => w.low <= tip
  /\ \A n \in w.done : n > w.low
  /\ s.last # None => (w.base + 1)..s.last \subseteq w.done \cup w.missed /\ w.low <= s.last
  /\ s.pc = "tail" => (w.base + 1)..(s.n - 1) \subseteq w.done \cup w.missed /\ w.low < s.n

\* The queue of a connection that listens ends with the last event published.
QueueOK(s, w, q) ==
  /\ Len(q) <= QueueCap
  /\ s.pc \in {"closed", "client"} => ~s.listening
  /\ ~s.listening => q = <<>>
  /\ s.listening =>
       /\ \A i \in 1..Len(q) : q[i] = pub - Len(q) + i
       /\ w.shown <= pub - Len(q)
       /\ w.shown < pub - Len(q) => Len(q) > 0

ServerTypes ==
  /\ tip \in Heights /\ forks \in 0..MaxForks
  /\ pub \in 0..MaxEvents
  /\ conn \in [Conns -> Conn]
  /\ queue \in [Conns -> Seq(1..MaxEvents)]
  /\ hist \in [Conns -> Hist]

ServerInv ==
  /\ ServerTypes
  /\ \A c \in Conns : TailOK(conn[c], hist[c]) /\ QueueOK(conn[c], hist[c], queue[c])

Served(c) == conn[c].pc # "closed" /\ ~conn[c].gone

\* The two ends of a connection: the server has only heard that the page is gone if it is, or
\* if the connection broke; and a page whose stream is open will hear of its end, unless it
\* broke.
PageInv ==
  /\ page \in Page /\ wire \in [Conns -> SUBSET News]
  /\ page.live => page.source # None
  /\ \A c \in Conns : page.source = c =>
       /\ "leave" \in wire[c] => "mute" \in wire[c]
       /\ wire[c] \cap {"ask", "end", "mute"} # {} \/ Served(c)

LiveInv == RpcTyped /\ ServerInv /\ PageInv

LEMMA ConstantTypes ==
  /\ MaxBlock \in Nat /\ MaxBlock >= 1 /\ MaxForks \in Nat /\ MaxEvents \in Nat
  /\ MaxCatchup \in Nat /\ MaxCatchup >= 1 /\ MaxErrors \in Nat /\ MaxErrors >= 1
  /\ QueueCap \in Nat /\ QueueCap >= 1
  /\ None = 0 /\ None \notin Conns /\ None \notin Savers /\ None \notin Endpoints
  /\ Heights = 1..MaxBlock /\ Default \in Endpoints
BY SizesAssumption, EndpointsAssumption DEF Heights, None, Endpoints

LEMMA RecordTypes ==
  /\ Closed \in Conn /\ Closed.pc = "closed" /\ Closed.last = None /\ ~Closed.listening
  /\ \A h \in Heights : [Blank EXCEPT !.low = h] \in Hist
  /\ Blank \in Hist /\ Blank.low = 1 /\ Blank.done = {} /\ Blank.shown = 0
  /\ NoPage \in Page
BY ConstantTypes DEF Closed, Conn, Blank, Hist, NoPage, Page, Heights

LEMMA LiveInvInit == Init => LiveInv
<1> SUFFICES ASSUME Init PROVE LiveInv
  OBVIOUS
<1>1. RpcTyped
  BY ConstantTypes DEF Init, RpcInit, RpcTyped, Idle, Kinds
<1>2. ServerTypes
  BY ConstantTypes, RecordTypes DEF Init, ServerInit, ServerTypes
<1>3. \A c \in Conns : conn[c] = Closed /\ hist[c] = Blank /\ queue[c] = <<>> /\ tip = 1
  BY DEF Init, ServerInit
<1>4. TailOK(Closed, Blank) /\ QueueOK(Closed, Blank, <<>>)
  <2>1. tip = 1
    BY DEF Init, ServerInit
  <2>2. Len(<<>>) <= QueueCap
    BY ConstantTypes
  <2> QED BY <2>1, <2>2, ConstantTypes, RecordTypes DEF TailOK, QueueOK
<1>5. PageInv
  BY RecordTypes, ConstantTypes DEF Init, PageInv, NoPage
<1> QED BY <1>1, <1>2, <1>3, <1>4, <1>5 DEF LiveInv, ServerInv

-----------------------------------------------------------------------------
(* The connections after a step.                                            *)

\* One connection is written, with its queue and its history.
LEMMA OneConnection ==
  ASSUME ServerInv, NEW c \in Conns, NEW s \in Conn, NEW w \in Hist, NEW q \in Seq(1..MaxEvents),
         conn' = [conn EXCEPT ![c] = s], hist' = [hist EXCEPT ![c] = w],
         queue' = [queue EXCEPT ![c] = q], UNCHANGED <<tip, forks, pub>>,
         TailOK(s, w), QueueOK(s, w, q)
  PROVE  ServerInv'
<1>1. ServerTypes'
  BY DEF ServerInv, ServerTypes
<1>2. \A d \in Conns : /\ conn'[d] = IF d = c THEN s ELSE conn[d]
                       /\ hist'[d] = IF d = c THEN w ELSE hist[d]
                       /\ queue'[d] = IF d = c THEN q ELSE queue[d]
  BY DEF ServerInv, ServerTypes
<1>3. \A d \in Conns : TailOK(conn'[d], hist'[d]) /\ QueueOK(conn'[d], hist'[d], queue'[d])
  BY <1>2 DEF ServerInv
<1>4. \A d \in Conns : TailOK(conn[d], hist[d])' /\ QueueOK(conn[d], hist[d], queue[d])'
  BY <1>3 DEF TailOK, QueueOK
<1> QED BY <1>1, <1>4 DEF ServerInv

\* The state of one connection is written.
LEMMA OneGoes ==
  ASSUME ServerInv, NEW c \in Conns, NEW s \in Conn, Goes(c, s),
         UNCHANGED <<tip, forks, pub, queue, hist>>,
         TailOK(s, hist[c]), QueueOK(s, hist[c], queue[c])
  PROVE  ServerInv'
<1>1. hist[c] \in Hist /\ queue[c] \in Seq(1..MaxEvents)
  BY DEF ServerInv, ServerTypes
<1>2. hist' = [hist EXCEPT ![c] = hist[c]] /\ queue' = [queue EXCEPT ![c] = queue[c]]
  BY DEF ServerInv, ServerTypes
<1> QED BY <1>1, <1>2, OneConnection DEF Goes

LEMMA OneType ==
  ASSUME ServerInv, NEW c \in Conns
  PROVE  /\ conn[c] \in Conn /\ hist[c] \in Hist /\ queue[c] \in Seq(1..MaxEvents)
         /\ TailOK(conn[c], hist[c]) /\ QueueOK(conn[c], hist[c], queue[c])
         /\ tip \in Heights /\ tip \in Int /\ pub \in Nat
BY ConstantTypes DEF ServerInv, ServerTypes

-----------------------------------------------------------------------------
(* The chain and the publisher.                                             *)

LEMMA NewBlockKeeps == ASSUME ServerInv, NewBlock PROVE ServerInv'
<1>1. ServerTypes'
  BY ConstantTypes DEF ServerInv, ServerTypes, NewBlock
<1>2. \A c \in Conns : hist[c].low <= tip => hist'[c].low <= tip'
  BY ConstantTypes DEF ServerInv, ServerTypes, NewBlock, Hist
<1>3. \A c \in Conns : TailOK(conn[c], hist[c])' /\ QueueOK(conn[c], hist[c], queue[c])'
  BY <1>2 DEF ServerInv, NewBlock, TailOK, QueueOK
<1> QED BY <1>1, <1>3 DEF ServerInv

LEMMA ReorgKeeps == ASSUME ServerInv, Reorg PROVE ServerInv'
<1>1. tip' = tip - 1 /\ tip' \in Heights /\ forks' \in 0..MaxForks /\ UNCHANGED <<pub, conn, queue>>
  BY ConstantTypes DEF ServerInv, ServerTypes, Reorg
<1>2. ASSUME NEW c \in Conns
      PROVE  /\ hist'[c] \in Hist /\ hist'[c].done = hist[c].done /\ hist'[c].missed = hist[c].missed
             /\ hist'[c].base = hist[c].base /\ hist'[c].shown = hist[c].shown
             /\ hist'[c].low \in Heights /\ hist'[c].low <= hist[c].low
             /\ conn[c].pc # "closed" => hist'[c].low <= tip'
  <2> DEFINE l == IF conn[c].pc # "closed" /\ tip - 1 < hist[c].low THEN tip - 1 ELSE hist[c].low
  <2>1. hist'[c] = [hist[c] EXCEPT !.low = l]
    BY DEF Reorg
  <2>2. hist[c] \in Hist /\ hist[c].low \in Heights
    BY DEF ServerInv, ServerTypes, Hist
  <2>3. l \in Heights /\ l <= hist[c].low /\ (conn[c].pc # "closed" => l <= tip - 1)
    BY <1>1, <2>2, ConstantTypes DEF ServerInv, ServerTypes
  <2> QED BY <1>1, <2>1, <2>2, <2>3 DEF Hist
<1>3. hist' \in [Conns -> Hist]
  BY <1>2 DEF Reorg
<1>4. ServerTypes'
  BY <1>1, <1>3 DEF ServerInv, ServerTypes
<1>5. ASSUME NEW c \in Conns
      PROVE  TailOK(conn[c], hist[c])' /\ QueueOK(conn[c], hist[c], queue[c])'
  <2>1. TailOK(conn[c], hist[c]) /\ QueueOK(conn[c], hist[c], queue[c])
    BY DEF ServerInv
  <2>2. hist[c] \in Hist /\ conn[c] \in Conn
    BY DEF ServerInv, ServerTypes
  <2>3. hist[c].low \in Int /\ hist'[c].low \in Int /\ hist[c].done \subseteq Int
        /\ (conn[c].last # None => conn[c].last \in Int) /\ conn[c].n \in Int
    BY <2>2, <1>2, ConstantTypes DEF Hist, Conn
  <2>4. TailOK(conn[c], hist[c])'
    BY <1>1, <1>2, <2>1, <2>3 DEF TailOK
  <2>5. QueueOK(conn[c], hist[c], queue[c])'
    BY <1>1, <1>2, <2>1 DEF QueueOK
  <2> QED BY <2>4, <2>5
<1> QED BY <1>4, <1>5 DEF ServerInv

\* One event more at the end, or one less at the front, keeps the events in line.
LEMMA AppendLined ==
  ASSUME NEW q \in Seq(1..MaxEvents), NEW p \in Nat, p + 1 \in 1..MaxEvents,
         \A i \in 1..Len(q) : q[i] = p - Len(q) + i
  PROVE  LET r == Append(q, p + 1) IN
         /\ r \in Seq(1..MaxEvents) /\ Len(r) = Len(q) + 1
         /\ \A i \in 1..Len(r) : r[i] = p + 1 - Len(r) + i
<1> DEFINE r == Append(q, p + 1)
<1>1. r \in Seq(1..MaxEvents) /\ Len(r) = Len(q) + 1 /\ Len(q) \in Nat
  BY AppendProperties, LenProperties
<1>2. \A i \in 1..Len(q) : r[i] = q[i]
  BY AppendProperties
<1>3. r[Len(q) + 1] = p + 1
  BY AppendProperties
<1> HIDE DEF r
<1>4. ASSUME NEW i \in 1..Len(r) PROVE r[i] = p + 1 - Len(r) + i
  <2>1. CASE i \in 1..Len(q)
    BY <2>1, <1>1, <1>2
  <2>2. CASE i = Len(q) + 1
    BY <2>2, <1>1, <1>3
  <2> QED BY <1>1, <2>1, <2>2
<1> QED BY <1>1, <1>4 DEF r

LEMMA TailLined ==
  ASSUME NEW q \in Seq(1..MaxEvents), q # <<>>, NEW p \in Nat,
         \A i \in 1..Len(q) : q[i] = p - Len(q) + i
  PROVE  LET t == Tail(q) IN
         /\ t \in Seq(1..MaxEvents) /\ Len(t) = Len(q) - 1 /\ Len(q) \in Nat \ {0}
         /\ \A i \in 1..Len(t) : t[i] = p - Len(t) + i
<1> DEFINE t == Tail(q)
<1>1. t \in Seq(1..MaxEvents) /\ Len(t) = Len(q) - 1 /\ Len(q) \in Nat
  BY HeadTailProperties, LenProperties
<1>2. \A i \in 1..Len(t) : t[i] = q[i + 1]
  BY HeadTailProperties
<1>3. Len(q) # 0
  BY EmptySeq
<1> HIDE DEF t
<1>4. ASSUME NEW i \in 1..Len(t) PROVE t[i] = p - Len(t) + i
  <2>1. i + 1 \in 1..Len(q)
    BY <1>1
  <2>2. q[i + 1] = p - Len(q) + (i + 1)
    BY <2>1
  <2> QED BY <1>1, <1>2, <2>2
<1> QED BY <1>1, <1>3, <1>4 DEF t

LEMMA PublishKeeps == ASSUME ServerInv, Publish PROVE ServerInv'
<1>1. pub' = pub + 1 /\ pub' \in 0..MaxEvents /\ UNCHANGED <<tip, forks, conn, hist>>
  BY ConstantTypes DEF ServerInv, ServerTypes, Publish
<1>2. ASSUME NEW c \in Conns
      PROVE  queue'[c] \in Seq(1..MaxEvents) /\ QueueOK(conn[c], hist[c], queue[c])'
  <2> DEFINE q == queue[c]
  <2>1. q \in Seq(1..MaxEvents) /\ QueueOK(conn[c], hist[c], q)
    BY DEF ServerInv, ServerTypes
  <2>2. CASE ~conn[c].listening
    <3>1. queue'[c] = q
      BY <2>2 DEF Publish
    <3> QED BY <1>1, <2>1, <2>2, <3>1 DEF QueueOK
  <2>3. CASE conn[c].listening
    <3>1. queue'[c] = DropOldest(q, pub + 1)
      BY <2>3 DEF Publish
    <3>2. pub \in Nat /\ pub + 1 \in 1..MaxEvents /\ pub' = pub + 1
      BY <1>1, ConstantTypes DEF ServerInv, ServerTypes
    <3>3. /\ Len(q) <= QueueCap /\ conn[c].pc \notin {"closed", "client"}
          /\ \A i \in 1..Len(q) : q[i] = pub - Len(q) + i
          /\ hist[c].shown <= pub - Len(q)
          /\ hist[c].shown < pub - Len(q) => Len(q) > 0
      BY <2>1, <2>3 DEF QueueOK
    <3>4. hist[c].shown \in Int
      BY ConstantTypes DEF ServerInv, ServerTypes, Hist
    <3>5. CASE Len(q) < QueueCap
      <4> DEFINE r == Append(q, pub + 1)
      <4>1. queue'[c] = r
        BY <3>1, <3>5 DEF DropOldest
      <4>2. r \in Seq(1..MaxEvents) /\ Len(r) = Len(q) + 1 /\ Len(q) \in Nat
        BY <2>1, <3>2, <3>3, AppendLined, LenProperties
      <4>3. \A i \in 1..Len(r) : r[i] = pub + 1 - Len(r) + i
        BY <2>1, <3>2, <3>3, AppendLined
      <4> HIDE DEF r
      <4>4. r \in Seq(1..MaxEvents) /\ Len(r) \in Nat /\ Len(r) <= QueueCap /\ Len(r) > 0
            /\ hist[c].shown <= pub + 1 - Len(r)
        BY <3>2, <3>3, <3>4, <3>5, <4>2, ConstantTypes
      <4> QED BY <1>1, <2>3, <3>2, <3>3, <4>1, <4>3, <4>4 DEF QueueOK
    <3>6. CASE ~(Len(q) < QueueCap)
      <4> DEFINE t == Tail(q)
                 r == Append(t, pub + 1)
      <4>1. queue'[c] = r
        BY <3>1, <3>6 DEF DropOldest
      <4>2. Len(q) = QueueCap /\ q # <<>> /\ Len(q) \in Nat
        BY <2>1, <3>3, <3>6, ConstantTypes, EmptySeq, LenProperties
      <4>3. /\ t \in Seq(1..MaxEvents) /\ Len(t) = Len(q) - 1
            /\ \A i \in 1..Len(t) : t[i] = pub - Len(t) + i
        BY <2>1, <3>2, <3>3, <4>2, TailLined
      <4> HIDE DEF t
      <4>4. /\ r \in Seq(1..MaxEvents) /\ Len(r) = Len(t) + 1
            /\ \A i \in 1..Len(r) : r[i] = pub + 1 - Len(r) + i
        BY <3>2, <4>3, AppendLined
      <4> HIDE DEF r
      <4>5. Len(r) = Len(q)
        BY <4>2, <4>3, <4>4
      <4> QED BY <1>1, <2>3, <3>2, <3>3, <3>4, <4>1, <4>2, <4>4, <4>5, ConstantTypes DEF QueueOK
    <3> QED BY <3>5, <3>6
  <2> QED BY <2>2, <2>3
<1>3. queue' \in [Conns -> Seq(1..MaxEvents)]
  BY <1>2 DEF Publish
<1>4. ServerTypes'
  BY <1>1, <1>3 DEF ServerInv, ServerTypes
<1>5. \A c \in Conns : TailOK(conn[c], hist[c])'
  BY <1>1 DEF ServerInv, TailOK
<1> QED BY <1>2, <1>4, <1>5 DEF ServerInv

-----------------------------------------------------------------------------
(* The handler of a connection.                                             *)

LEMMA AcceptKeeps == ASSUME RpcTyped, ServerInv, NEW c \in Conns, Accept(c) PROVE ServerInv'
<1> DEFINE s == [Closed EXCEPT !.pc = "client", !.on = ready]
           w == [Blank EXCEPT !.low = tip]
<1>1. s \in Conn /\ s.pc = "client" /\ s.last = None /\ ~s.listening
  <2>1. ready \in Savers \cup {None}
    BY DEF RpcTyped
  <2>2. Closed \in Conn /\ Closed.last = None /\ ~Closed.listening
    BY RecordTypes
  <2> HIDE DEF Closed
  <2> QED BY <2>1, <2>2 DEF Conn
<1>2. w \in Hist /\ w.low = tip /\ w.done = {}
  BY OneType, RecordTypes, ConstantTypes DEF Blank
<1>3. QueueOK(conn[c], hist[c], queue[c]) /\ queue[c] \in Seq(1..MaxEvents) /\ conn[c].pc = "closed"
  BY OneType DEF Accept
<1>4. Len(queue[c]) <= QueueCap /\ queue[c] = <<>>
  BY <1>3 DEF QueueOK
<1>5. tip \in Int
  BY OneType
<1> HIDE DEF s, w
<1>6. TailOK(s, w)
  BY <1>1, <1>2, <1>5 DEF TailOK
<1>7. QueueOK(s, w, queue[c])
  BY <1>1, <1>4 DEF QueueOK
<1>8. queue' = [queue EXCEPT ![c] = queue[c]]
  BY DEF Accept, ServerInv, ServerTypes
<1>9. conn' = [conn EXCEPT ![c] = s] /\ hist' = [hist EXCEPT ![c] = w] /\ UNCHANGED <<tip, forks, pub>>
  BY DEF Accept, Goes, s, w
<1> QED BY <1>1, <1>2, <1>3, <1>6, <1>7, <1>8, <1>9, OneConnection

LEMMA HangUpKeeps == ASSUME ServerInv, NEW c \in Conns, HangUp(c) PROVE ServerInv'
<1> DEFINE b == conn[c].gone \/ conn[c].pc # "closed"
           s == [conn[c] EXCEPT !.gone = b]
<1>1. b \in BOOLEAN
  OBVIOUS
<1>2. Goes(c, s) /\ UNCHANGED <<tip, forks, pub, queue, hist>>
  BY DEF HangUp
<1> HIDE DEF b
<1>3. s \in Conn /\ s.pc = conn[c].pc /\ s.last = conn[c].last /\ s.n = conn[c].n
      /\ s.listening = conn[c].listening
  BY <1>1, OneType DEF Conn
<1> HIDE DEF s
<1>4. TailOK(s, hist[c]) /\ QueueOK(s, hist[c], queue[c])
  BY <1>3, OneType DEF TailOK, QueueOK
<1> QED BY <1>2, <1>3, <1>4, OneGoes

LEMMA ReloadedKeeps == ASSUME RpcTyped, ServerInv, NEW h \in Savers, Reloaded(h) PROVE ServerInv'
<1>1. ASSUME NEW c \in Conns
      PROVE  /\ conn'[c] \in Conn /\ conn'[c].pc = conn[c].pc /\ conn'[c].last = conn[c].last
             /\ conn'[c].n = conn[c].n /\ conn'[c].listening = conn[c].listening
  <2> DEFINE o == IF conn[c].on = h THEN None ELSE conn[c].on
  <2>1. conn'[c] = [conn[c] EXCEPT !.on = o]
    BY DEF Reloaded
  <2>2. conn[c] \in Conn /\ o \in Savers \cup {None}
    BY OneType DEF Conn
  <2> HIDE DEF o
  <2> QED BY <2>1, <2>2 DEF Conn
<1>2. conn' \in [Conns -> Conn]
  BY <1>1 DEF Reloaded
<1>3. UNCHANGED <<tip, forks, pub, queue, hist>>
  BY DEF Reloaded
<1>4. ServerTypes'
  BY <1>2, <1>3 DEF ServerInv, ServerTypes
<1>5. \A c \in Conns : TailOK(conn[c], hist[c])'
  BY <1>1, <1>3 DEF ServerInv, TailOK
<1>6. \A c \in Conns : QueueOK(conn[c], hist[c], queue[c])'
  BY <1>1, <1>3 DEF ServerInv, QueueOK
<1> QED BY <1>4, <1>5, <1>6 DEF ServerInv

LEMMA GetClientKeeps == ASSUME ServerInv, NEW c \in Conns, GetClient(c) PROVE ServerInv'
<1> DEFINE s == [conn[c] EXCEPT !.pc = "top", !.listening = TRUE]
           w == [hist[c] EXCEPT !.shown = pub]
<1>1. /\ conn[c].pc = "client"
      /\ conn' = [conn EXCEPT ![c] = s] /\ hist' = [hist EXCEPT ![c] = w]
      /\ UNCHANGED <<tip, forks, pub, queue>>
  BY DEF GetClient, Goes, ServerInv, ServerTypes
<1>2. s \in Conn /\ s.pc = "top" /\ s.last = conn[c].last /\ s.n = conn[c].n /\ s.listening
  BY OneType DEF Conn
<1>3. w \in Hist /\ w.shown = pub /\ w.low = hist[c].low /\ w.base = hist[c].base
      /\ w.done = hist[c].done /\ w.missed = hist[c].missed
  BY OneType DEF Hist, ServerInv, ServerTypes
<1>4. queue[c] = <<>> /\ queue[c] \in Seq(1..MaxEvents)
  BY <1>1, OneType DEF QueueOK
<1> HIDE DEF s, w
<1>5. TailOK(s, w)
  BY <1>1, <1>2, <1>3, OneType DEF TailOK
<1>6. Len(<<>>) = 0 /\ 1..0 = {} /\ pub \in Nat
  BY OneType
<1>7. QueueOK(s, w, <<>>)
  BY <1>2, <1>3, <1>6, ConstantTypes DEF QueueOK
<1>8. queue' = [queue EXCEPT ![c] = <<>>]
  BY <1>1, <1>4 DEF ServerInv, ServerTypes
<1> QED BY <1>1, <1>2, <1>3, <1>4, <1>5, <1>7, <1>8, OneConnection

\* A connection that goes on listening, and to which no event was written, keeps its queue.
LEMMA QueueStays ==
  ASSUME ServerInv, NEW c \in Conns, NEW s, NEW w, conn[c].pc \notin {"closed", "client"},
         s.pc \notin {"closed", "client"}, s.listening = conn[c].listening,
         w.shown = hist[c].shown
  PROVE  QueueOK(s, w, queue[c])
BY OneType DEF QueueOK

LEMMA LoopKeeps == ASSUME ServerInv, NEW c \in Conns, Loop(c) PROVE ServerInv'
<1> DEFINE s == [conn[c] EXCEPT !.pc = "flush"]
<1>1. conn[c].pc = "top" /\ Goes(c, s) /\ UNCHANGED <<tip, forks, pub, queue, hist>>
  BY DEF Loop
<1>2. s \in Conn /\ s.pc = "flush" /\ s.last = conn[c].last /\ s.n = conn[c].n
      /\ s.listening = conn[c].listening
  BY OneType DEF Conn
<1> HIDE DEF s
<1>3. TailOK(s, hist[c]) /\ QueueOK(s, hist[c], queue[c])
  BY <1>1, <1>2, OneType, QueueStays DEF TailOK
<1> QED BY <1>1, <1>2, <1>3, OneGoes

LEMMA FlushedKeeps == ASSUME ServerInv, NEW c \in Conns, Flushed(c) PROVE ServerInv'
<1> DEFINE s == [conn[c] EXCEPT !.pc = "poll"]
<1>1. conn[c].pc = "flush" /\ Goes(c, s) /\ UNCHANGED <<tip, forks, pub, queue, hist>>
  BY DEF Flushed
<1>2. s \in Conn /\ s.pc = "poll" /\ s.last = conn[c].last /\ s.n = conn[c].n
      /\ s.listening = conn[c].listening
  BY OneType DEF Conn
<1> HIDE DEF s
<1>3. TailOK(s, hist[c]) /\ QueueOK(s, hist[c], queue[c])
  BY <1>1, <1>2, OneType, QueueStays DEF TailOK
<1> QED BY <1>1, <1>2, <1>3, OneGoes

LEMMA WriteEventKeeps == ASSUME ServerInv, NEW c \in Conns, WriteEvent(c) PROVE ServerInv'
<1> DEFINE q == queue[c]
           t == Tail(q)
           w == [hist[c] EXCEPT !.shown = q[1]]
<1>1. /\ conn[c].pc = "flush" /\ q # <<>>
      /\ conn' = [conn EXCEPT ![c] = conn[c]] /\ hist' = [hist EXCEPT ![c] = w]
      /\ queue' = [queue EXCEPT ![c] = t] /\ UNCHANGED <<tip, forks, pub>>
  BY DEF WriteEvent, ServerInv, ServerTypes
<1>2. q \in Seq(1..MaxEvents) /\ conn[c] \in Conn /\ QueueOK(conn[c], hist[c], q) /\ pub \in Nat
  BY OneType
<1>3. conn[c].listening
  BY <1>1, <1>2 DEF QueueOK
<1>4. Len(q) <= QueueCap /\ \A i \in 1..Len(q) : q[i] = pub - Len(q) + i
  BY <1>2, <1>3 DEF QueueOK
<1>5. t \in Seq(1..MaxEvents) /\ Len(t) = Len(q) - 1 /\ Len(q) \in Nat \ {0}
  BY <1>1, <1>2, <1>4, TailLined
<1>6. \A i \in 1..Len(t) : t[i] = pub - Len(t) + i
  BY <1>1, <1>2, <1>4, TailLined
<1>7. q[1] \in 1..MaxEvents /\ q[1] = pub - Len(t)
  <2>1. 1 \in 1..Len(q)
    BY <1>5
  <2>2. q[1] \in 1..MaxEvents
    BY <1>2, <2>1, ElementOfSeq
  <2>3. q[1] = pub - Len(q) + 1
    BY <1>4, <2>1
  <2> HIDE DEF q, t
  <2> QED BY <1>2, <1>5, <2>2, <2>3
<1>8. w \in Hist /\ w.shown = q[1] /\ w.low = hist[c].low /\ w.base = hist[c].base
      /\ w.done = hist[c].done /\ w.missed = hist[c].missed
  <2> DEFINE e == q[1]
  <2>1. e \in 0..MaxEvents /\ hist[c] \in Hist
    BY <1>7, OneType, ConstantTypes
  <2> HIDE DEF e
  <2>2. [hist[c] EXCEPT !.shown = e] \in Hist
    BY <2>1 DEF Hist
  <2>3. w = [hist[c] EXCEPT !.shown = e]
    BY DEF e
  <2> QED BY <2>1, <2>2, <2>3 DEF Hist, e
<1> HIDE DEF q, t, w
<1>9. TailOK(conn[c], w)
  BY <1>8, OneType DEF TailOK
<1>10. Len(t) <= QueueCap /\ w.shown <= pub - Len(t) /\ ~(w.shown < pub - Len(t))
  BY <1>2, <1>4, <1>5, <1>7, <1>8, ConstantTypes
<1>11. QueueOK(conn[c], w, t)
  BY <1>1, <1>3, <1>6, <1>10 DEF QueueOK
<1> QED BY <1>1, <1>2, <1>5, <1>8, <1>9, <1>11, OneConnection

LEMMA Zero == 0 \in 0..(MaxErrors - 1) /\ 1 \in 1..(MaxBlock + 1)
BY ConstantTypes

LEMMA BaselineKeeps == ASSUME ServerInv, NEW c \in Conns, Baseline(c) PROVE ServerInv'
<1> DEFINE s == [conn[c] EXCEPT !.pc = "top", !.errors = 0, !.last = tip]
           w == [hist[c] EXCEPT !.base = tip, !.done = {}, !.missed = {}]
<1>1. /\ conn[c].pc = "poll" /\ Goes(c, s) /\ hist' = [hist EXCEPT ![c] = w]
      /\ UNCHANGED <<tip, forks, pub, queue>>
  BY DEF Baseline, ServerInv, ServerTypes
<1>2. s \in Conn /\ s.pc = "top" /\ s.last = tip /\ s.listening = conn[c].listening
  BY OneType, Zero DEF Conn
<1>3. w \in Hist /\ w.low = hist[c].low /\ w.base = tip /\ w.done = {} /\ w.missed = {}
      /\ w.shown = hist[c].shown
  BY OneType DEF Hist
<1>4. queue' = [queue EXCEPT ![c] = queue[c]] /\ conn' = [conn EXCEPT ![c] = s]
  BY <1>1 DEF ServerInv, ServerTypes, Goes
<1> HIDE DEF s, w
<1>5. hist[c].low <= tip
  BY <1>1, OneType DEF TailOK
<1>6. (tip + 1)..tip = {} /\ tip \in Int
  BY OneType
<1>7. TailOK(s, w)
  BY <1>2, <1>3, <1>5, <1>6 DEF TailOK
<1>8. QueueOK(s, w, queue[c])
  BY <1>1, <1>2, <1>3, QueueStays
<1> QED BY <1>1, <1>2, <1>3, <1>4, <1>7, <1>8, OneType, OneConnection

\* What the catch-up leaves out reaches from the last block to the first it reads.
LEMMA FirstIs ==
  ASSUME NEW l \in Heights, tip \in Heights, l < tip
  PROVE  /\ First(l) \in Heights /\ First(l) > l
         /\ \A n \in Int : n > l /\ n < First(l) => n <= tip - MaxCatchup
BY ConstantTypes DEF First

LEMMA CatchUpKeeps == ASSUME ServerInv, NEW c \in Conns, CatchUp(c) PROVE ServerInv'
<1> DEFINE m == hist[c].missed \cup {n \in Heights : n <= tip - MaxCatchup}
           s == IF tip = conn[c].last
                THEN [conn[c] EXCEPT !.pc = "top", !.errors = 0]
                ELSE [conn[c] EXCEPT !.pc = "tail", !.errors = 0, !.n = First(conn[c].last), !.to = tip]
           w == [hist[c] EXCEPT !.missed = m]
<1>1. /\ conn[c].pc = "poll" /\ Goes(c, s) /\ hist' = [hist EXCEPT ![c] = w]
      /\ UNCHANGED <<tip, forks, pub, queue>>
      /\ conn[c].last # None /\ tip >= conn[c].last
  BY DEF CatchUp, ServerInv, ServerTypes
<1>2. /\ conn[c] \in Conn /\ hist[c] \in Hist /\ TailOK(conn[c], hist[c])
      /\ tip \in Heights /\ conn[c].last \in Heights
  BY <1>1, OneType DEF Conn
<1>3. w \in Hist /\ w.low = hist[c].low /\ w.base = hist[c].base /\ w.done = hist[c].done
      /\ w.missed = m /\ w.shown = hist[c].shown
  BY <1>2 DEF Hist
<1>4. queue' = [queue EXCEPT ![c] = queue[c]] /\ conn' = [conn EXCEPT ![c] = s]
  BY <1>1 DEF ServerInv, ServerTypes, Goes
<1>5. /\ (hist[c].base + 1)..conn[c].last \subseteq hist[c].done \cup hist[c].missed
      /\ hist[c].low <= conn[c].last /\ hist[c].low <= tip
      /\ \A n \in hist[c].done : n > hist[c].low
  BY <1>1, <1>2 DEF TailOK
<1>6. s \in Conn /\ s.last = conn[c].last /\ s.listening = conn[c].listening
      /\ s.pc \in {"top", "tail"} /\ TailOK(s, w)
  <2>1. CASE tip = conn[c].last
    <3>1. s = [conn[c] EXCEPT !.pc = "top", !.errors = 0]
      BY <2>1
    <3>2. s \in Conn /\ s.pc = "top" /\ s.last = conn[c].last /\ s.listening = conn[c].listening
      BY <1>2, <3>1, Zero DEF Conn
    <3> HIDE DEF s, w
    <3> QED BY <1>3, <1>5, <3>2 DEF TailOK
  <2>2. CASE tip # conn[c].last
    <3> DEFINE f == First(conn[c].last)
    <3>1. f \in Heights /\ f > conn[c].last /\ \A n \in Int : n > conn[c].last /\ n < f => n <= tip - MaxCatchup
      BY <1>1, <1>2, <2>2, FirstIs, ConstantTypes
    <3>2. s = [conn[c] EXCEPT !.pc = "tail", !.errors = 0, !.n = f, !.to = tip]
      BY <2>2
    <3> HIDE DEF f
    <3>3. f \in 1..(MaxBlock + 1) /\ 0 \in 0..(MaxErrors - 1)
      BY <3>1, ConstantTypes
    <3>4. s \in Conn /\ s.pc = "tail" /\ s.last = conn[c].last /\ s.listening = conn[c].listening
          /\ s.n = f
      BY <1>2, <3>2, <3>3 DEF Conn
    <3> HIDE DEF s, w
    <3>5. conn[c].last \in Int /\ hist[c].low \in Int /\ tip \in Int /\ Heights = 1..MaxBlock
      BY <1>2, ConstantTypes DEF Hist
    <3>6. hist[c].base \in Int /\ hist[c].base >= 0
      BY <1>2, ConstantTypes DEF Hist
    <3>7. ASSUME NEW n \in (hist[c].base + 1)..(f - 1) PROVE n \in hist[c].done \cup m
      <4>1. CASE n <= conn[c].last
        BY <1>5, <3>5, <3>6, <4>1
      <4>2. CASE n > conn[c].last
        <5>1. n \in Int /\ n < f /\ n >= 1 /\ f <= MaxBlock
          BY <3>1, <3>5, <3>6, ConstantTypes
        <5>2. n <= tip - MaxCatchup /\ n \in Heights
          BY <3>1, <3>5, <4>2, <5>1, ConstantTypes
        <5> QED BY <5>2
      <4> QED BY <3>5, <3>6, <4>1, <4>2
    <3>8. hist[c].low < f
      BY <1>5, <3>1, <3>5
    <3> HIDE DEF m
    <3>9. (hist[c].base + 1)..conn[c].last \subseteq hist[c].done \cup m
      BY <1>5 DEF m
    <3> QED BY <1>3, <1>5, <3>4, <3>7, <3>8, <3>9 DEF TailOK
  <2> QED BY <2>1, <2>2
<1>7. QueueOK(s, w, queue[c])
  BY <1>1, <1>3, <1>6, QueueStays
<1> HIDE DEF s, w
<1> QED BY <1>1, <1>3, <1>4, <1>6, <1>7, OneType, OneConnection

LEMMA PollFailsKeeps == ASSUME ServerInv, NEW c \in Conns, PollFails(c) PROVE ServerInv'
<1> DEFINE s == [conn[c] EXCEPT !.pc = "top", !.errors = conn[c].errors + 1]
<1>1. /\ conn[c].pc = "poll" /\ Goes(c, s) /\ UNCHANGED <<tip, forks, pub, queue, hist>>
      /\ conn[c].errors + 1 < MaxErrors
  BY DEF PollFails
<1>2. s \in Conn /\ s.pc = "top" /\ s.last = conn[c].last /\ s.n = conn[c].n
      /\ s.listening = conn[c].listening
  <2> DEFINE e == conn[c].errors + 1
  <2>0. conn[c] \in Conn /\ conn[c].errors \in 0..(MaxErrors - 1)
    BY OneType DEF Conn
  <2>1. e \in 0..(MaxErrors - 1) /\ conn[c] \in Conn
    BY <1>1, <2>0, ConstantTypes
  <2>2. s = [conn[c] EXCEPT !.pc = "top", !.errors = e]
    OBVIOUS
  <2> HIDE DEF e, s
  <2> QED BY <2>1, <2>2 DEF Conn
<1> HIDE DEF s
<1>3. TailOK(s, hist[c]) /\ QueueOK(s, hist[c], queue[c])
  BY <1>1, <1>2, OneType, QueueStays DEF TailOK
<1> QED BY <1>1, <1>2, <1>3, OneGoes

LEMMA RestingIs ==
  ASSUME ServerInv, NEW c \in Conns, conn[c].pc = "tail", Goes(c, Resting(conn[c])),
         UNCHANGED <<tip, forks, pub, queue, hist>>
  PROVE  ServerInv'
<1> DEFINE s == Resting(conn[c])
<1>1. s \in Conn /\ s.pc = "top" /\ s.last = conn[c].last /\ s.listening = conn[c].listening
  BY OneType, Zero DEF Conn, Resting
<1> HIDE DEF s
<1>2. TailOK(s, hist[c]) /\ QueueOK(s, hist[c], queue[c])
  BY <1>1, OneType, QueueStays DEF TailOK
<1>3. Goes(c, s)
  BY DEF s
<1> QED BY <1>1, <1>2, <1>3, OneGoes

LEMMA ReadKeeps == ASSUME ServerInv, NEW c \in Conns, Read(c) PROVE ServerInv'
<1> DEFINE k == conn[c].n
           s == [conn[c] EXCEPT !.last = k, !.n = k + 1]
           w == [hist[c] EXCEPT !.done = hist[c].done \cup {k}]
<1>1. /\ conn[c].pc = "tail" /\ k <= tip /\ Goes(c, s) /\ hist' = [hist EXCEPT ![c] = w]
      /\ UNCHANGED <<tip, forks, pub, queue>>
  BY DEF Read, ServerInv, ServerTypes
<1>2. conn[c] \in Conn /\ hist[c] \in Hist /\ TailOK(conn[c], hist[c]) /\ tip \in Heights
  BY OneType
<1>3. k \in Heights /\ k + 1 \in 1..(MaxBlock + 1) /\ k \in Int
  BY <1>1, <1>2, ConstantTypes DEF Conn
<1>4. queue' = [queue EXCEPT ![c] = queue[c]] /\ conn' = [conn EXCEPT ![c] = s]
  BY <1>1 DEF ServerInv, ServerTypes, Goes
<1>5. /\ (hist[c].base + 1)..(k - 1) \subseteq hist[c].done \cup hist[c].missed
      /\ hist[c].low < k /\ hist[c].low <= tip
      /\ \A n \in hist[c].done : n > hist[c].low
  BY <1>1, <1>2 DEF TailOK
<1>6. k = conn[c].n
  OBVIOUS
<1> HIDE DEF k
<1>7. s \in Conn /\ s.pc = "tail" /\ s.last = k /\ s.n = k + 1 /\ s.listening = conn[c].listening
  BY <1>1, <1>2, <1>3 DEF Conn
<1>8. w \in Hist /\ w.low = hist[c].low /\ w.base = hist[c].base /\ w.missed = hist[c].missed
      /\ w.done = hist[c].done \cup {k} /\ w.shown = hist[c].shown
  BY <1>2, <1>3 DEF Hist
<1>9. hist[c].base \in Int /\ hist[c].low \in Int
  BY <1>2, ConstantTypes DEF Hist
<1> HIDE DEF s, w
<1>10. (hist[c].base + 1)..k \subseteq (hist[c].done \cup {k}) \cup hist[c].missed
  BY <1>3, <1>5, <1>9
<1>11. (k + 1) - 1 = k /\ hist[c].low < k + 1 /\ hist[c].low <= k
  BY <1>3, <1>5, <1>9
<1>12. TailOK(s, w)
  BY <1>5, <1>7, <1>8, <1>10, <1>11 DEF TailOK
<1>13. QueueOK(s, w, queue[c])
  BY <1>1, <1>7, <1>8, QueueStays
<1> QED BY <1>1, <1>4, <1>7, <1>8, <1>12, <1>13, OneType, OneConnection

LEMMA EndsKeeps == ASSUME ServerInv, NEW c \in Conns, Ends(c) PROVE ServerInv'
<1>1. TailOK(Closed, Blank)
  BY RecordTypes DEF TailOK
<1>2. Len(<<>>) <= QueueCap /\ <<>> \in Seq(1..MaxEvents)
  BY ConstantTypes, EmptySeq
<1>3. QueueOK(Closed, Blank, <<>>)
  BY <1>2, RecordTypes DEF QueueOK
<1> QED BY <1>1, <1>2, <1>3, RecordTypes, OneConnection DEF Ends, Goes

-----------------------------------------------------------------------------
(* The endpoint, the page, and a step of all.                               *)

LEMMA RpcKeeps ==
  /\ \A h \in Savers, u \in Endpoints : RpcTyped /\ Save(h, u) => RpcTyped'
  /\ \A h \in Savers : RpcTyped /\ (Loads(h) \/ Swap(h)) => RpcTyped'
  /\ RpcTyped /\ Touch => RpcTyped'
<1>1. ASSUME RpcTyped, NEW h \in Savers, NEW u \in Endpoints, Save(h, u) PROVE RpcTyped'
  BY <1>1, ConstantTypes DEF RpcTyped, Save, Late, Idle, Kinds
<1>2. ASSUME RpcTyped, NEW h \in Savers, Load(h) PROVE RpcTyped'
  BY <1>2 DEF RpcTyped, Load, Kinds
<1>3. ASSUME RpcTyped, NEW h \in Savers, LoadFails(h) PROVE RpcTyped'
  BY <1>3, ConstantTypes DEF RpcTyped, LoadFails, Kinds
<1>4. ASSUME RpcTyped, NEW h \in Savers, Swap(h) PROVE RpcTyped'
  BY <1>4, ConstantTypes DEF RpcTyped, Swap, Idle, Kinds
<1>5. ASSUME RpcTyped, Touch PROVE RpcTyped'
  BY <1>5, ConstantTypes DEF RpcTyped, Touch, Client
<1> QED BY <1>1, <1>2, <1>3, <1>4, <1>5 DEF Loads

LEMMA ServesKeeps ==
  ASSUME ServerInv, NEW c \in Conns, Serves(c) \/ Read(c) \/ ServerEnds(c)
  PROVE  ServerInv'
<1>1. ReadFails(c) \/ CaughtUp(c) => ServerInv'
  BY RestingIs DEF ReadFails, CaughtUp
<1> QED BY <1>1, LoopKeeps, WriteEventKeeps, FlushedKeeps, BaselineKeeps, CatchUpKeeps,
           PollFailsKeeps, ReadKeeps, EndsKeeps DEF Serves, ServerEnds, NoClient, Stops, GivesUp

\* Only its end and the news that its client is gone end the service of a connection.
LEMMA StaysServed ==
  ASSUME ServerInv, NEW c \in Conns, NEW d \in Conns, Served(d),
         \/ World
         \/ \E h \in Savers : Reloaded(h)
         \/ GetClient(c) \/ Serves(c) \/ Read(c)
         \/ UNCHANGED serverVars
         \/ (Accept(c) \/ HangUp(c) \/ ServerEnds(c)) /\ d # c
  PROVE  Served(d)'
<1>1. conn[c] \in Conn /\ conn[d] \in Conn /\ conn \in [Conns -> Conn]
      /\ conn[d].pc # "closed" /\ ~conn[d].gone
  BY DEF ServerInv, ServerTypes, Served
<1>2. World => conn' = conn
  BY DEF World, NewBlock, Reorg, Publish
<1>3. (\E h \in Savers : Reloaded(h)) => conn'[d].pc = conn[d].pc /\ conn'[d].gone = conn[d].gone
  BY <1>1 DEF Reloaded, Conn
<1>4. (Accept(c) \/ HangUp(c) \/ ServerEnds(c)) /\ d # c => conn'[d] = conn[d]
  BY <1>1 DEF Accept, HangUp, ServerEnds, NoClient, Stops, GivesUp, Ends, Goes
<1>5. GetClient(c) => conn'[d].pc # "closed" /\ ~conn'[d].gone
  BY <1>1 DEF GetClient, Goes, Conn
<1>6. Serves(c) => conn'[d].pc # "closed" /\ ~conn'[d].gone
  <2>1. Loop(c) \/ WriteEvent(c) \/ Flushed(c) => conn'[d].pc # "closed" /\ ~conn'[d].gone
    BY <1>1 DEF Loop, WriteEvent, Flushed, Goes, Conn
  <2>2. Baseline(c) => conn'[d].pc # "closed" /\ ~conn'[d].gone
    BY <1>1 DEF Baseline, Goes, Conn
  <2>3. CatchUp(c) => conn'[d].pc # "closed" /\ ~conn'[d].gone
    <3>1. CASE conn[c].last = tip
      BY <1>1, <3>1 DEF CatchUp, Goes, Conn
    <3>2. CASE conn[c].last # tip
      BY <1>1, <3>2 DEF CatchUp, Goes, Conn
    <3> QED BY <3>1, <3>2
  <2>4. PollFails(c) => conn'[d].pc # "closed" /\ ~conn'[d].gone
    BY <1>1 DEF PollFails, Goes, Conn
  <2>5. ReadFails(c) \/ CaughtUp(c) => conn'[d].pc # "closed" /\ ~conn'[d].gone
    <3>1. Resting(conn[c]).pc = "top" /\ Resting(conn[c]).gone = conn[c].gone
      BY <1>1 DEF Resting, Conn
    <3> QED BY <1>1, <3>1 DEF ReadFails, CaughtUp, Goes
  <2> QED BY <2>1, <2>2, <2>3, <2>4, <2>5 DEF Serves
<1>7. Read(c) => conn'[d].pc # "closed" /\ ~conn'[d].gone
  BY <1>1 DEF Read, Goes, Conn
<1> QED BY <1>1, <1>2, <1>3, <1>4, <1>5, <1>6, <1>7 DEF serverVars, Served

\* Connections that are served stay so while nothing at the page or on the way changes.
LEMMA PageRests ==
  ASSUME PageInv, UNCHANGED <<page, wire>>, \A c \in Conns : Served(c) => Served(c)'
  PROVE  PageInv'
BY DEF PageInv

\* A page that becomes p opens a stream, or stays as it is.
LEMMA OpensKeeps ==
  ASSUME PageInv, UNCHANGED serverVars, NEW p \in Page, p.live => p.source # None, Opens(p),
         p.source # None => p.source = page.source
  PROVE  PageInv'
<1>1. wire \in [Conns -> SUBSET News] /\ \A c \in Conns : Served(c)' = Served(c)
  BY DEF PageInv, serverVars, Served
<1>2. CASE p.there /\ p.base /\ p.source = None /\ ~p.gaveUp
  <2>1. PICK c \in Conns : page' = [p EXCEPT !.source = c] /\ wire' = [wire EXCEPT ![c] = {"ask"}]
    BY <1>2 DEF Opens
  <2>2. page' \in Page /\ page'.source = c /\ c # None /\ ~page'.live
    BY <1>2, <2>1, ConstantTypes DEF Page
  <2>3. wire' \in [Conns -> SUBSET News] /\ wire'[c] = {"ask"}
    BY <1>1, <2>1 DEF News
  <2> QED BY <2>2, <2>3 DEF PageInv
<1>3. CASE ~(p.there /\ p.base /\ p.source = None /\ ~p.gaveUp)
  <2>1. page' = p /\ wire' = wire
    BY <1>3 DEF Opens
  <2>2. \A c \in Conns : p.source = c => page.source = c
    BY ConstantTypes
  <2> QED BY <1>1, <2>1, <2>2 DEF PageInv
<1> QED BY <1>2, <1>3

\* A page that becomes p closes its stream.
LEMMA ClosesKeeps ==
  ASSUME PageInv, NEW p \in Page, ~p.live, Closes(p) PROVE PageInv'
<1>1. page' \in Page /\ ~page'.live /\ page'.source = None
  BY DEF Closes, Page
<1>2. wire' \in [Conns -> SUBSET News]
  <2>1. CASE page.source = None
    BY <2>1 DEF Closes, PageInv
  <2>2. CASE page.source # None
    <3> DEFINE c == page.source
               w == (wire[c] \cap {"ask"}) \cup {"leave"}
    <3>1. wire' = [wire EXCEPT ![c] = w] /\ wire \in [Conns -> SUBSET News]
      BY <2>2 DEF Closes, PageInv
    <3>2. w \in SUBSET News
      BY DEF News
    <3> HIDE DEF c, w
    <3> QED BY <3>1, <3>2
  <2> QED BY <2>1, <2>2
<1>3. \A c \in Conns : page'.source # c
  BY <1>1, ConstantTypes
<1> QED BY <1>1, <1>2, <1>3 DEF PageInv

\* What is on its way of one connection changes, and its service with it.
LEMMA OneWire ==
  ASSUME PageInv, NEW c \in Conns, NEW w \in SUBSET News, wire' = [wire EXCEPT ![c] = w],
         page' \in Page, page'.source = page.source, page'.live => page.source # None,
         \A d \in Conns \ {c} : Served(d) => Served(d)',
         page.source = c => /\ "leave" \in w => "mute" \in w
                            /\ w \cap {"ask", "end", "mute"} # {} \/ Served(c)'
  PROVE  PageInv'
<1>1. wire' \in [Conns -> SUBSET News] /\ \A d \in Conns : wire'[d] = IF d = c THEN w ELSE wire[d]
  BY DEF PageInv
<1>2. ASSUME NEW d \in Conns, page'.source = d
      PROVE  /\ "leave" \in wire'[d] => "mute" \in wire'[d]
             /\ wire'[d] \cap {"ask", "end", "mute"} # {} \/ Served(d)'
  <2>1. CASE d = c
    BY <1>1, <1>2, <2>1
  <2>2. CASE d # c
    BY <1>1, <1>2, <2>2 DEF PageInv
  <2> QED BY <2>1, <2>2
<1> QED BY <1>1, <1>2 DEF PageInv

LEMMA PageStepKeeps == ASSUME PageInv, PageStep, UNCHANGED serverVars PROVE PageInv'
<1>1. page \in Page /\ (page.live => page.source # None)
      /\ \A c \in Conns : wire[c] \in SUBSET News /\ Served(c)' = Served(c)
  BY DEF PageInv, serverVars, Served
<1>2. CASE Acquire
  <2> DEFINE p == [page EXCEPT !.there = TRUE]
  <2>1. p \in Page /\ p.live = page.live /\ p.source = page.source /\ Opens(p)
    BY <1>1, <1>2 DEF Acquire, Page
  <2> HIDE DEF p
  <2> QED BY <1>1, <2>1, OpensKeeps
<1>3. CASE Release
  <2> DEFINE p == [NoPage EXCEPT !.base = page.base]
  <2>1. p \in Page /\ ~p.live /\ Closes(p)
    BY <1>1, <1>3, RecordTypes DEF Release, Page, NoPage
  <2> HIDE DEF p
  <2> QED BY <2>1, ClosesKeeps
<1>4. CASE BaseLost
  <2> DEFINE p == [page EXCEPT !.base = FALSE, !.gaveUp = FALSE, !.live = FALSE]
  <2>1. p \in Page /\ ~p.live /\ Closes(p)
    BY <1>1, <1>4 DEF BaseLost, Page
  <2> HIDE DEF p
  <2> QED BY <2>1, ClosesKeeps
<1>5. CASE BaseFound
  <2> DEFINE p == [page EXCEPT !.base = TRUE, !.gaveUp = FALSE]
  <2>1. p \in Page /\ p.live = page.live /\ p.source = page.source /\ Opens(p)
    BY <1>1, <1>5 DEF BaseFound, Page
  <2> HIDE DEF p
  <2> QED BY <1>1, <2>1, OpensKeeps
<1>6. ASSUME NEW c \in Conns, Deliver(c) PROVE PageInv'
  <2> DEFINE w == wire[c] \ {"block"}
  <2>1. w \in SUBSET News /\ wire' = [wire EXCEPT ![c] = w] /\ page.source = c /\ c # None
    BY <1>1, <1>6, ConstantTypes DEF Deliver
  <2>2. page' \in Page /\ page'.source = page.source
    BY <1>1, <1>6 DEF Deliver, Page
  <2>3. ("leave" \in w => "mute" \in w) /\ (w \cap {"ask", "end", "mute"} # {} \/ Served(c)')
    BY <1>1, <2>1 DEF PageInv
  <2> HIDE DEF w
  <2> QED BY <1>1, <2>1, <2>2, <2>3, OneWire
<1>7. ASSUME NEW c \in Conns, Refused(c), UNCHANGED page PROVE PageInv'
  <2> DEFINE w == IF page.source = c THEN {"end"} ELSE {}
  <2>1. w \in SUBSET News /\ wire' = [wire EXCEPT ![c] = w]
    BY <1>7 DEF Refused, News
  <2>2. page.source = c => w = {"end"}
    OBVIOUS
  <2> HIDE DEF w
  <2> QED BY <1>1, <1>7, <2>1, <2>2, OneWire
<1>8. ASSUME NEW c \in Conns, Break(c), UNCHANGED page PROVE PageInv'
  <2>1. PICK told \in SUBSET {"end"} : wire' = [wire EXCEPT ![c] = {"leave", "mute"} \cup told]
    BY <1>8 DEF Break
  <2> DEFINE w == {"leave", "mute"} \cup told
  <2>2. w \in SUBSET News /\ "mute" \in w /\ wire' = [wire EXCEPT ![c] = w]
    BY <2>1 DEF News
  <2> HIDE DEF w
  <2>3. w \cap {"ask", "end", "mute"} # {}
    BY <2>2
  <2> QED BY <1>1, <1>8, <2>2, <2>3, OneWire
<1> QED BY <1>2, <1>3, <1>4, <1>5, <1>6, <1>7, <1>8 DEF PageStep

\* What reaches the server, and what the page hears.
LEMMA ArrivesKeeps ==
  ASSUME ServerInv, PageInv, NEW c \in Conns, Arrives(c) PROVE PageInv'
<1>1. page' = page /\ page \in Page /\ (page.live => page.source # None) /\ wire[c] \in SUBSET News
  BY DEF Arrives, PageInv
<1>2. \A d \in Conns \ {c} : Served(d) => Served(d)'
  BY StaysServed DEF Arrives, Accepted, Leaves
<1>3. CASE Accepted(c)
  <2> DEFINE w == wire[c] \ {"ask"}
  <2>1. w \in SUBSET News /\ wire' = [wire EXCEPT ![c] = w]
    BY <1>1, <1>3 DEF Accepted
  <2>2. Served(c)'
    BY <1>3 DEF Accepted, Accept, Goes, Served, Closed, ServerInv, ServerTypes
  <2>3. page.source = c => ("leave" \in w => "mute" \in w)
    BY DEF PageInv
  <2> HIDE DEF w
  <2> QED BY <1>1, <1>2, <2>1, <2>2, <2>3, OneWire
<1>4. CASE Leaves(c)
  <2> DEFINE w == wire[c] \ {"leave"}
  <2>1. w \in SUBSET News /\ wire' = [wire EXCEPT ![c] = w] /\ "leave" \notin w
    BY <1>1, <1>4 DEF Leaves
  <2>2. page.source = c => "mute" \in w
    BY <1>4 DEF PageInv, Leaves
  <2> HIDE DEF w
  <2>3. page.source = c => w \cap {"ask", "end", "mute"} # {}
    BY <2>2
  <2> QED BY <1>1, <1>2, <2>1, <2>3, OneWire
<1> QED BY <1>3, <1>4 DEF Arrives

LEMMA HearKeeps == ASSUME PageInv, NEW c \in Conns, Hear(c) PROVE PageInv'
<1>1. GaveUp \in Page /\ ~GaveUp.live /\ Closes(GaveUp)
  BY DEF Hear, GaveUp, Page, PageInv
<1> HIDE DEF GaveUp
<1> QED BY <1>1, ClosesKeeps

LEMMA ServerStepKeeps ==
  ASSUME ServerInv, PageInv, NEW c \in Conns, ServerStep(c) PROVE PageInv'
<1>1. page' = page /\ page \in Page /\ (page.live => page.source # None) /\ wire[c] \in SUBSET News
  BY DEF ServerStep, PageInv
<1>2. ASSUME GetClient(c) \/ Serves(c) \/ Read(c) PROVE \A d \in Conns : Served(d) => Served(d)'
  BY <1>2, StaysServed
<1>3. CASE (GetClient(c) \/ Serves(c) \/ Read(c)) /\ UNCHANGED wire
  BY <1>1, <1>2, <1>3, PageRests
<1>4. ASSUME NEW e \in {"block", "end"}, Sends(c, e), wire' # wire
      PROVE  wire' = [wire EXCEPT ![c] = wire[c] \cup {e}] /\ wire[c] \cup {e} \in SUBSET News
  BY <1>1, <1>4 DEF Sends, News
<1>5. CASE Read(c) /\ Sends(c, "block") /\ wire' # wire
  <2> DEFINE w == wire[c] \cup {"block"}
  <2>1. w \in SUBSET News /\ wire' = [wire EXCEPT ![c] = w]
    BY <1>4, <1>5
  <2>2. page.source = c =>
          ("leave" \in w => "mute" \in w) /\ (w \cap {"ask", "end", "mute"} # {} \/ Served(c)')
    BY <1>2, <1>5 DEF PageInv
  <2> HIDE DEF w
  <2> QED BY <1>1, <1>2, <1>5, <2>1, <2>2, OneWire
<1>6. CASE End(c)
  <2>1. ServerEnds(c) /\ Sends(c, "end") /\ \A d \in Conns \ {c} : Served(d) => Served(d)'
    BY <1>6, StaysServed DEF End
  <2>2. CASE page.source = c /\ "mute" \notin wire[c]
    <3> DEFINE w == wire[c] \cup {"end"}
    <3>1. w \in SUBSET News /\ wire' = [wire EXCEPT ![c] = w] /\ "end" \in w
      BY <1>1, <2>1, <2>2 DEF Sends, News
    <3>2. "leave" \in w => "mute" \in w
      BY <2>2 DEF PageInv
    <3> HIDE DEF w
    <3>3. w \cap {"ask", "end", "mute"} # {}
      BY <3>1
    <3> QED BY <1>1, <2>1, <3>1, <3>2, <3>3, OneWire
  <2>3. CASE ~(page.source = c /\ "mute" \notin wire[c])
    <3>1. wire' = [wire EXCEPT ![c] = wire[c]]
      BY <2>1, <2>3 DEF Sends, PageInv
    <3>2. page.source = c => /\ "leave" \in wire[c] => "mute" \in wire[c]
                             /\ wire[c] \cap {"ask", "end", "mute"} # {}
      BY <2>3 DEF PageInv
    <3> QED BY <1>1, <2>1, <3>1, <3>2, OneWire
  <2> QED BY <2>2, <2>3
<1> QED BY <1>3, <1>5, <1>6 DEF ServerStep, Emit

LEMMA LiveInvNext == LiveInv /\ [Next]_vars => LiveInv'
<1>1. ASSUME LiveInv, Next PROVE LiveInv'
  <2> USE <1>1 DEF LiveInv
  <2>0. UNCHANGED serverVars => ServerInv' /\ \A c \in Conns : Served(c) => Served(c)'
    BY DEF serverVars, ServerInv, ServerTypes, TailOK, QueueOK, Served
  <2>1. UNCHANGED rpcVars => RpcTyped'
    BY DEF rpcVars, RpcTyped
  <2>2. CASE World /\ UNCHANGED <<rpcVars, page, wire>>
    <3>1. \A c \in Conns : Served(c) => Served(c)'
      BY <2>2, StaysServed
    <3> QED BY <2>1, <2>2, <3>1, PageRests, NewBlockKeeps, ReorgKeeps, PublishKeeps DEF World
  <2>3. CASE PageStep /\ UNCHANGED <<rpcVars, serverVars>>
    BY <2>0, <2>1, <2>3, PageStepKeeps
  <2>4. ASSUME NEW h \in Savers, Saves(h) \/ Reloads(h) PROVE LiveInv'
    <3>1. UNCHANGED <<page, wire>> /\ (Reloaded(h) \/ UNCHANGED serverVars)
      BY <2>4 DEF Saves, Reloads
    <3>2. \A c \in Conns : Served(c) => Served(c)'
      BY <3>1, StaysServed
    <3>3. RpcTyped'
      BY <2>4, RpcKeeps DEF Saves, Reloads, Reloaded
    <3> QED BY <2>0, <3>1, <3>2, <3>3, PageRests, ReloadedKeeps
  <2>5. ASSUME NEW c \in Conns, ServerStep(c) PROVE LiveInv'
    <3>1. GetClient(c) => RpcTyped'
      BY RpcKeeps DEF GetClient
    <3> QED BY <2>1, <2>5, <3>1, ServerStepKeeps, ServesKeeps, GetClientKeeps DEF ServerStep, Emit, End
  <2>6. ASSUME NEW c \in Conns, Arrives(c) PROVE LiveInv'
    <3>1. ServerInv'
      BY <2>6, AcceptKeeps, HangUpKeeps DEF Arrives, Accepted, Leaves
    <3> QED BY <2>1, <2>6, <3>1, ArrivesKeeps DEF Arrives
  <2>7. ASSUME NEW c \in Conns, Returns(c) PROVE LiveInv'
    BY <2>0, <2>1, <2>7, HearKeeps DEF Returns
  <2> QED BY <2>2, <2>3, <2>4, <2>5, <2>6, <2>7 DEF Next
<1>2. LiveInv /\ UNCHANGED vars => LiveInv'
  BY DEF vars, rpcVars, serverVars, LiveInv, RpcTyped, ServerInv, ServerTypes, TailOK, QueueOK, PageInv, Served
<1> QED BY <1>1, <1>2

LEMMA LiveInvAlways == Spec => []LiveInv
BY LiveInvInit, LiveInvNext, PTL DEF Spec

\* The types hold; from the head the tail started from to the last block it passed, every
\* block was emitted or is older than the newest MaxCatchup, and no emitted block is as old
\* as the lowest head since the connection opened.
THEOREM NoHolesHolds == Spec => []NoHoles
<1>1. LiveInv => NoHoles
  <2> SUFFICES ASSUME LiveInv PROVE NoHoles
    OBVIOUS
  <2>1. \A c \in Conns : queue[c] \in Seq(1..MaxEvents) /\ Len(queue[c]) <= QueueCap
    BY DEF LiveInv, ServerInv, ServerTypes, QueueOK
  <2>2. StreamTyped
    BY <2>1 DEF StreamTyped, LiveInv, ServerInv, ServerTypes
  <2>3. TypeOK
    BY <2>2 DEF TypeOK, LiveInv, PageInv
  <2> QED BY <2>3 DEF NoHoles, LiveInv, ServerInv, TailOK
<1> QED BY <1>1, LiveInvAlways, PTL

\* The queue of a connection that listens holds the newest events in their order, the last one
\* written is older than all of them, and a queue that dropped events is never empty.
THEOREM EventsInOrderHolds == Spec => []EventsInOrder
<1>1. ASSUME LiveInv, NEW c \in Conns, conn[c].listening
      PROVE  queue[c] = [i \in 1..Len(queue[c]) |-> pub - Len(queue[c]) + i]
  <2>1. queue[c] \in Seq(1..MaxEvents) /\ \A i \in 1..Len(queue[c]) : queue[c][i] = pub - Len(queue[c]) + i
    BY <1>1 DEF LiveInv, ServerInv, ServerTypes, QueueOK
  <2>2. queue[c] = [i \in 1..Len(queue[c]) |-> queue[c][i]]
    BY <2>1, LenProperties
  <2> QED BY <2>1, <2>2
<1>2. LiveInv => EventsInOrder
  BY <1>1 DEF EventsInOrder, LiveInv, ServerInv, QueueOK
<1> QED BY <1>2, LiveInvAlways, PTL

\* A live page has a stream open; and an open stream has asked for a handler, or has one that
\* does not take the page for gone, or its end is on the way to the page, or lost.
THEOREM LiveIsServedHolds == Spec => []LiveIsServed
<1>1. LiveInv => LiveIsServed
  <2> SUFFICES ASSUME PageInv, NEW c, c = page.source
               PROVE  /\ page.live => c # None
                      /\ c # None => \/ wire[c] \cap {"ask", "end", "mute"} # {}
                                     \/ conn[c].pc # "closed" /\ ~conn[c].gone
    BY DEF LiveInv, LiveIsServed
  <2>1. c # None => c \in Conns
    BY DEF PageInv, Page
  <2> QED BY <2>1 DEF PageInv, Served
<1> QED BY <1>1, LiveInvAlways, PTL

-----------------------------------------------------------------------------
(* The endpoint.                                                            *)

\* The endpoint e is what a load of the kind k leaves while the table stays as it is.
Stands(e, k) == (k = "read" => e = table) /\ (k = "failed" => e = Default)

\* A load under way that was not overtaken has read what the table holds, or has failed; while
\* none is, the configuration is what the last load left; and a client was created from it.
Current ==
  /\ \A h \in Savers : save[h].pc = "swap" => Stands(save[h].read, save[h].kind)
  /\ (\A h \in Savers : save[h].pc = "idle") => Stands(config, loaded)
  /\ client \in {None, config}

LEMMA CurrentInit == Init => Current
BY DEF Init, RpcInit, Current, Idle, Stands

LEMMA CurrentNext == LiveInv /\ Current /\ [Next]_vars => Current'
<1> SUFFICES ASSUME LiveInv, Current, [Next]_vars PROVE Current'
  OBVIOUS
<1>1. save \in [Savers -> [pc : {"idle", "load", "swap"}, read : Endpoints, kind : Kinds]]
  BY DEF LiveInv, RpcTyped
<1>2. ASSUME NEW h \in Savers, NEW u \in Endpoints, Save(h, u) PROVE Current'
  <2>1. save'[h].pc = "load"
    BY <1>1, <1>2 DEF Save, Idle
  <2>2. ASSUME NEW g \in Savers, save'[g].pc = "swap" PROVE Stands(save[g].read, save[g].kind)'
    <3>1. g # h /\ save'[g] = Late(save[g])
      BY <1>2, <2>1, <2>2 DEF Save
    <3>2. CASE save[g].pc = "swap" /\ save[g].kind = "read"
      <4>1. save'[g].kind = "late"
        BY <1>1, <3>1, <3>2 DEF Late
      <4> QED BY <4>1 DEF Stands
    <3>3. CASE ~(save[g].pc = "swap" /\ save[g].kind = "read")
      <4>1. save'[g] = save[g] /\ save[g].kind # "read"
        BY <2>2, <3>1, <3>3 DEF Late
      <4> QED BY <2>2, <4>1 DEF Current, Stands
    <3> QED BY <3>2, <3>3
  <2> QED BY <1>2, <2>1, <2>2 DEF Current, Save
<1>3. ASSUME NEW h \in Savers, Loads(h) PROVE Current'
  <2>1. /\ save'[h].pc = "swap" /\ Stands(save'[h].read, save'[h].kind)
        /\ \A g \in Savers \ {h} : save'[g] = save[g]
        /\ UNCHANGED <<table, config, client, loaded>>
    BY <1>1, <1>3 DEF Loads, Load, LoadFails, Stands
  <2> QED BY <2>1 DEF Current, Stands
<1>4. ASSUME NEW h \in Savers, Swap(h) PROVE Current'
  <2>1. /\ save[h].pc = "swap" /\ Stands(save[h].read, save[h].kind)
        /\ save'[h].pc = "idle" /\ \A g \in Savers \ {h} : save'[g] = save[g]
        /\ config' = save[h].read /\ loaded' = save[h].kind /\ client' = None /\ table' = table
    BY <1>1, <1>4 DEF Swap, Idle, Current
  <2> QED BY <2>1 DEF Current, Stands
<1>5. Touch => Current'
  BY DEF Touch, Client, Current, Stands
<1>6. UNCHANGED rpcVars => Current'
  BY DEF rpcVars, Current, Stands
<1>7. CASE Next
  BY <1>2, <1>3, <1>4, <1>5, <1>6, <1>7
     DEF Next, Saves, Reloads, Reloaded, ServerStep, GetClient, Arrives, Returns, rpcVars
<1>8. CASE UNCHANGED vars
  BY <1>6, <1>8 DEF vars
<1> QED BY <1>7, <1>8

\* Only a connection that gets its client leaves its wait for the loop.
LEMMA OpensByClient ==
  ASSUME ServerInv, Next, NEW c \in Conns, conn[c].pc = "client", conn'[c].pc = "top"
  PROVE  GetClient(c)
<1>1. conn[c] \in Conn /\ conn \in [Conns -> Conn] /\ Closed.pc = "closed"
  BY RecordTypes DEF ServerInv, ServerTypes
<1>2. World \/ UNCHANGED serverVars => conn'[c].pc = conn[c].pc
  BY DEF World, NewBlock, Reorg, Publish, serverVars
<1>3. (\E h \in Savers : Reloaded(h)) => conn'[c].pc = conn[c].pc
  BY <1>1 DEF Reloaded, Conn
<1>4. ASSUME NEW d \in Conns, Accept(d) PROVE conn'[c].pc \in {conn[c].pc, "client"}
  BY <1>1, <1>4 DEF Accept, Goes
<1>5. ASSUME NEW d \in Conns, HangUp(d) PROVE conn'[c].pc = conn[c].pc
  BY <1>1, <1>5 DEF HangUp, Goes, Conn
<1>6. ASSUME NEW d \in Conns, Serves(d) \/ Read(d) PROVE conn'[c].pc = conn[c].pc
  BY <1>1, <1>6 DEF Serves, Loop, WriteEvent, Flushed, Baseline, CatchUp, PollFails, ReadFails,
                    CaughtUp, Read, Goes
<1>7. ASSUME NEW d \in Conns, ServerEnds(d) PROVE conn'[c].pc \in {conn[c].pc, "closed"}
  BY <1>1, <1>7 DEF ServerEnds, NoClient, Stops, GivesUp, Ends, Goes
<1>8. ASSUME NEW d \in Conns, GetClient(d), d # c PROVE conn'[c].pc = conn[c].pc
  BY <1>1, <1>8 DEF GetClient, Goes
<1> QED BY <1>2, <1>3, <1>4, <1>5, <1>6, <1>7, <1>8
        DEF Next, Saves, Reloads, ServerStep, Emit, End, Arrives, Accepted, Leaves, Returns

\* Whatever requests save and reload at once, a stream that opens while none of them is under
\* way polls the saved endpoint, or the default after a load that failed, unless the last load
\* to go live was overtaken.
THEOREM NoReplacedEndpointHolds == Spec => NoReplacedEndpoint
<1> DEFINE Polls ==
             \A c \in Conns :
               conn[c].pc = "client" /\ conn'[c].pc = "top" /\ (\A h \in Savers : save[h].pc = "idle") =>
                 /\ loaded = "read" => client' = table
                 /\ loaded = "failed" => client' = Default
<1>1. LiveInv /\ Current /\ [Next]_vars => [Polls]_vars
  <2> SUFFICES ASSUME LiveInv, Current, Next, NEW c \in Conns,
                      conn[c].pc = "client", conn'[c].pc = "top", \A h \in Savers : save[h].pc = "idle"
               PROVE  /\ loaded = "read" => client' = table
                      /\ loaded = "failed" => client' = Default
    OBVIOUS
  <2>1. Stands(config, loaded) /\ client \in {None, config}
    BY DEF Current
  <2>2. GetClient(c)
    BY OpensByClient DEF LiveInv
  <2>3. client' = config
    BY <2>1, <2>2 DEF GetClient, Touch, Client
  <2> QED BY <2>1, <2>3 DEF Stands
<1>2. Spec => []Current
  BY CurrentInit, CurrentNext, LiveInvAlways, PTL DEF Spec
<1>3. Spec => [][Polls]_vars
  BY <1>1, <1>2, LiveInvAlways, PTL DEF Spec
<1> QED BY <1>3 DEF NoReplacedEndpoint
=============================================================================
