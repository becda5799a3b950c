----------------------------- MODULE BlockStream -----------------------------
(***************************************************************************)
(* The live tail of a chain (src/src/routes/stream.ts): every server-sent- *)
(* event connection takes the client of RpcManager, polls the head,        *)
(* catches up with it block by block, and carries along the watch events   *)
(* that were published meanwhile.                                          *)
(***************************************************************************)
EXTENDS RpcManager, Sequences, FiniteSets

CONSTANTS
  Conns,       \* connections
  MaxBlock,    \* bound: heights are 1..MaxBlock
  MaxForks,    \* bound: reorganisations
  MaxEvents,   \* bound: watch events
  MaxCatchup,  \* BLOCK_STREAM_MAX_CATCHUP
  MaxErrors,   \* BLOCK_STREAM_MAX_CONSECUTIVE_ERRORS
  QueueCap     \* BLOCK_STREAM_WATCH_QUEUE_CAP

Heights == 1..MaxBlock

ASSUME SizesAssumption ==
  /\ MaxBlock \in Nat \ {0} /\ MaxForks \in Nat /\ MaxEvents \in Nat
  /\ MaxCatchup \in Nat \ {0} /\ MaxErrors \in Nat \ {0} /\ QueueCap \in Nat \ {0}
  /\ None \notin Conns

VARIABLES
  tip,     \* the head of the chain
  forks,   \* reorganisations so far
  pub,     \* watch events published so far
  conn,    \* conn[c]: the handler of a connection
  queue,   \* queue[c]: pendingWatch
  hist     \* hist[c]: history of the connection, see Hist

serverVars == <<tip, forks, pub, conn, queue, hist>>

Conn == [pc : {"closed", "client", "top", "flush", "poll", "tail"},
         last : Heights \cup {None}, errors : 0..(MaxErrors - 1),
         n : 1..(MaxBlock + 1), to : Heights \cup {None},
         listening : BOOLEAN, gone : BOOLEAN,
         on : Savers \cup {None}]

\* on is the reload the connection waits for.
Closed == [pc |-> "closed", last |-> None, errors |-> 0, n |-> 1, to |-> None,
           listening |-> FALSE, gone |-> FALSE, on |-> None]

\* Since the connection was opened: the lowest head, the head the tail last started from, the
\* blocks passed since then, those a wide gap leaves out, and the last watch event written.
Hist == [low : Heights, base : Heights \cup {None}, done : SUBSET Heights,
         missed : SUBSET Heights, shown : 0..MaxEvents]

Blank == [low |-> 1, base |-> None, done |-> {}, missed |-> {}, shown |-> 0]

StreamTyped ==
  /\ tip \in Heights /\ forks \in 0..MaxForks
  /\ pub \in 0..MaxEvents
  /\ conn \in [Conns -> Conn]
  /\ \A c \in Conns : queue[c] \in Seq(1..MaxEvents) /\ Len(queue[c]) <= QueueCap
  /\ hist \in [Conns -> Hist]

-----------------------------------------------------------------------------
(* The chain, and the watch sweeps that publish.                            *)

NewBlock ==
  /\ tip < MaxBlock
  /\ tip' = tip + 1
  /\ UNCHANGED <<forks, pub, conn, queue, hist>>

\* The head block is orphaned.
Reorg ==
  /\ tip > 1
  /\ forks < MaxForks
  /\ forks' = forks + 1
  /\ tip' = tip - 1
  /\ hist' = [c \in Conns |-> [hist[c] EXCEPT !.low = IF conn[c].pc # "closed" /\ tip - 1 < @ THEN tip - 1 ELSE @]]
  /\ UNCHANGED <<pub, conn, queue>>

\* Faulty: an event that finds the queue full is dropped.
DropNewest(q, e) == IF Len(q) < QueueCap THEN Append(q, e) ELSE q

\* Past the cap the oldest events are dropped.
DropOldest(q, e) == IF Len(q) < QueueCap THEN Append(q, e) ELSE Append(Tail(q), e)

\* publish reaches every listener at once, wherever its loop stands.
Publish ==
  /\ pub < MaxEvents
  /\ pub' = pub + 1
  /\ queue' = [c \in Conns |-> IF conn[c].listening THEN DropOldest(queue[c], pub + 1) ELSE queue[c]]
  /\ UNCHANGED <<tip, forks, conn, hist>>

-----------------------------------------------------------------------------
(* The handler of a connection.                                             *)

\* Out of the catch-up and back to the loop.
Resting(s) == [s EXCEPT !.pc = "top", !.n = 1, !.to = None]

Goes(c, r) == conn' = [conn EXCEPT ![c] = r]

Accept(c) ==
  /\ conn[c].pc = "closed"
  /\ Goes(c, [Closed EXCEPT !.pc = "client", !.on = ready])
  /\ hist' = [hist EXCEPT ![c] = [Blank EXCEPT !.low = tip]]
  /\ UNCHANGED <<tip, forks, pub, queue>>

\* The client goes away; the handler sees it at its next check.
HangUp(c) ==
  /\ Goes(c, [conn[c] EXCEPT !.gone = (@ \/ conn[c].pc # "closed")])
  /\ UNCHANGED <<tip, forks, pub, queue, hist>>

\* A reload ends, and those that wait for it go on.
Reloaded(h) ==
  /\ Swap(h)
  /\ conn' = [c \in Conns |-> [conn[c] EXCEPT !.on = IF @ = h THEN None ELSE @]]
  /\ UNCHANGED <<tip, forks, pub, queue, hist>>

\* The connection gets the client, and listens to the watch events from here.
GetClient(c) ==
  /\ conn[c].pc = "client" /\ conn[c].on = None
  /\ Touch
  /\ Goes(c, [conn[c] EXCEPT !.pc = "top", !.listening = TRUE])
  /\ hist' = [hist EXCEPT ![c].shown = pub]
  /\ UNCHANGED <<tip, forks, pub, queue>>

Loop(c) ==
  /\ conn[c].pc = "top"
  /\ ~conn[c].gone
  /\ Goes(c, [conn[c] EXCEPT !.pc = "flush"])
  /\ UNCHANGED <<tip, forks, pub, queue, hist>>

\* Watch events never wait for a poll.
WriteEvent(c) ==
  /\ conn[c].pc = "flush"
  /\ queue[c] # <<>>
  /\ queue' = [queue EXCEPT ![c] = Tail(@)]
  /\ hist' = [hist EXCEPT ![c].shown = queue[c][1]]
  /\ UNCHANGED <<tip, forks, pub, conn>>

Flushed(c) ==
  /\ conn[c].pc = "flush"
  /\ queue[c] = <<>>
  /\ Goes(c, [conn[c] EXCEPT !.pc = "poll"])
  /\ UNCHANGED <<tip, forks, pub, queue, hist>>

\* The first head is a baseline, and so is one the chain has shrunk to.
Baseline(c) ==
  LET s == conn[c] IN
  /\ s.pc = "poll"
  /\ s.last = None \/ tip < s.last
  /\ Goes(c, [s EXCEPT !.pc = "top", !.errors = 0, !.last = tip])
  /\ hist' = [hist EXCEPT ![c].base = tip, ![c].done = {}, ![c].missed = {}]
  /\ UNCHANGED <<tip, forks, pub, queue>>

\* Blocks older than the newest MaxCatchup are left to the polled feed.
First(last) == IF tip - last > MaxCatchup THEN tip - MaxCatchup + 1 ELSE last + 1

CatchUp(c) ==
  LET s == conn[c] IN
  /\ s.pc = "poll"
  /\ s.last # None /\ tip >= s.last
  /\ Goes(c, IF tip = s.last
             THEN [s EXCEPT !.pc = "top", !.errors = 0]
             ELSE [s EXCEPT !.pc = "tail", !.errors = 0, !.n = First(s.last), !.to = tip])
  /\ hist' = [hist EXCEPT ![c].missed = @ \cup {n \in Heights : n <= tip - MaxCatchup}]
  /\ UNCHANGED <<tip, forks, pub, queue>>

PollFails(c) ==
  /\ conn[c].pc = "poll"
  /\ "rpc" \in Faults
  /\ conn[c].errors + 1 < MaxErrors
  /\ Goes(c, [conn[c] EXCEPT !.pc = "top", !.errors = @ + 1])
  /\ UNCHANGED <<tip, forks, pub, queue, hist>>

\* A block is read; n moves on only after one that was.
Read(c) ==
  LET s == conn[c] IN
  /\ s.pc = "tail"
  /\ s.n <= s.to /\ ~s.gone
  /\ s.n <= tip
  /\ Goes(c, [s EXCEPT !.last = s.n, !.n = @ + 1])
  /\ hist' = [hist EXCEPT ![c].done = @ \cup {s.n}]
  /\ UNCHANGED <<tip, forks, pub, queue>>

\* Faulty: an unreadable block is passed over.
ReadFailsPast(c) ==
  LET s == conn[c] IN
  /\ s.pc = "tail"
  /\ s.n <= s.to /\ ~s.gone
  /\ "rpc" \in Faults \/ s.n > tip
  /\ Goes(c, [s EXCEPT !.n = @ + 1])
  /\ UNCHANGED <<tip, forks, pub, queue, hist>>

\* An unreadable block holds the cursor: the next cycle tries it again.
ReadFails(c) ==
  LET s == conn[c] IN
  /\ s.pc = "tail"
  /\ s.n <= s.to /\ ~s.gone
  /\ "rpc" \in Faults \/ s.n > tip
  /\ Goes(c, Resting(s))
  /\ UNCHANGED <<tip, forks, pub, queue, hist>>

CaughtUp(c) ==
  /\ conn[c].pc = "tail"
  /\ conn[c].n > conn[c].to
  /\ Goes(c, Resting(conn[c]))
  /\ UNCHANGED <<tip, forks, pub, queue, hist>>

\* Faulty: a connection that ends goes on listening.
EndsListening(c) ==
  /\ Goes(c, [Closed EXCEPT !.listening = conn[c].listening, !.gone = conn[c].gone])
  /\ queue' = [queue EXCEPT ![c] = <<>>]
  /\ hist' = [hist EXCEPT ![c] = Blank]
  /\ UNCHANGED <<tip, forks, pub>>

\* Every way out stops the listening.
Ends(c) ==
  /\ Goes(c, Closed)
  /\ queue' = [queue EXCEPT ![c] = <<>>]
  /\ hist' = [hist EXCEPT ![c] = Blank]
  /\ UNCHANGED <<tip, forks, pub>>

NoClient(c) == conn[c].pc = "client" /\ "rpc" \in Faults /\ Ends(c)

\* The checks of the loop and of the catch-up.
Stops(c) ==
  /\ conn[c].gone
  /\ conn[c].pc = "top" \/ (conn[c].pc = "tail" /\ conn[c].n <= conn[c].to)
  /\ Ends(c)

GivesUp(c) ==
  /\ conn[c].pc = "poll" /\ "rpc" \in Faults
  /\ conn[c].errors + 1 >= MaxErrors
  /\ Ends(c)

ServerInit ==
  /\ tip = 1 /\ forks = 0 /\ pub = 0
  /\ conn = [c \in Conns |-> Closed]
  /\ queue = [c \in Conns |-> <<>>]
  /\ hist = [c \in Conns |-> Blank]

Serves(c) ==
  \/ Loop(c) \/ WriteEvent(c) \/ Flushed(c) \/ Baseline(c) \/ CatchUp(c)
  \/ PollFails(c) \/ ReadFails(c) \/ CaughtUp(c)

ServerEnds(c) == NoClient(c) \/ Stops(c) \/ GivesUp(c)
=============================================================================
