------------------------------ MODULE LiveChain ------------------------------
(***************************************************************************)
(* The live tail as a page sees it: src/src/services/liveChain.ts, which   *)
(* keeps one EventSource per chain and gives up on any error until the     *)
(* backend changes, composed with the connections of BlockStream and the   *)
(* reloads of RpcManager.                                                  *)
(***************************************************************************)
EXTENDS BlockStream

VARIABLES
  page,   \* the entry of the chain, and whether a backend is known
  wire    \* wire[c]: what is on its way between the two ends of a connection

vars == <<rpcVars, serverVars, page, wire>>

\* source is the connection of the EventSource.
Page == [there : BOOLEAN, base : BOOLEAN, source : Conns \cup {None}, gaveUp : BOOLEAN,
         live : BOOLEAN]

NoPage == [there |-> FALSE, base |-> FALSE, source |-> None, gaveUp |-> FALSE, live |-> FALSE]

\* To the server: the request, and the page's leaving.  To the page: blocks, and the end of
\* the stream.  Once a connection is mute, nothing the server sends arrives any more.
News == {"ask", "leave", "block", "end", "mute"}

TypeOK ==
  /\ RpcTyped /\ StreamTyped
  /\ page \in Page
  /\ wire \in [Conns -> SUBSET News]

-----------------------------------------------------------------------------
(* The page opens and closes its stream.                                    *)

\* Neither end knows the connection any more.
Free(c) == page.source # c /\ conn[c].pc = "closed" /\ wire[c] = {}

\* openStream, on a page that has become p.
Opens(p) ==
  IF p.there /\ p.base /\ p.source = None /\ ~p.gaveUp
  THEN \E c \in Conns :
         /\ Free(c)
         /\ page' = [p EXCEPT !.source = c]
         /\ wire' = [wire EXCEPT ![c] = {"ask"}]
  ELSE page' = p /\ UNCHANGED wire

\* closeSource, on a page that becomes p: it hears no more, and the server will hear of it.
Closes(p) ==
  LET c == page.source IN
  /\ page' = [p EXCEPT !.source = None]
  /\ wire' = IF c = None THEN wire ELSE [wire EXCEPT ![c] = (@ \cap {"ask"}) \cup {"leave"}]

\* The first subscriber.
Acquire ==
  /\ ~page.there
  /\ Opens([page EXCEPT !.there = TRUE])

\* The last subscriber leaves, and the entry with it.
Release ==
  /\ page.there
  /\ Closes([NoPage EXCEPT !.base = page.base])

BaseLost ==
  /\ page.base
  /\ Closes([page EXCEPT !.base = FALSE, !.gaveUp = FALSE, !.live = FALSE])

\* A backend appears, or another takes its place: a stream that is open stays.
BaseFound == Opens([page EXCEPT !.base = TRUE, !.gaveUp = FALSE])

\* A block arrives; one with a number delivered before, or out of shape, is ignored.
Deliver(c) ==
  /\ page.source = c /\ "block" \in wire[c]
  /\ page' = [page EXCEPT !.live = TRUE] \/ UNCHANGED page
  /\ wire' = [wire EXCEPT ![c] = @ \ {"block"}]

\* Faulty: the mode stays.
GaveUpLive == [page EXCEPT !.gaveUp = TRUE]

\* giveUp
GaveUp == [page EXCEPT !.gaveUp = TRUE, !.live = FALSE]

\* onerror: a refusal, a break or the end of the stream reaches the page.
Hear(c) ==
  /\ page.source = c /\ "end" \in wire[c]
  /\ Closes(GaveUp)

-----------------------------------------------------------------------------
(* The network.                                                             *)

\* No answer to the request, or one that opens no stream.
Refused(c) ==
  /\ "net" \in Faults
  /\ "ask" \in wire[c]
  /\ wire' = [wire EXCEPT ![c] = IF page.source = c THEN {"end"} ELSE {}]

\* The connection breaks.  The server hears of it, by its next write at the latest; the page,
\* which only reads, may never do.
Break(c) ==
  /\ "net" \in Faults
  /\ page.source = c /\ wire[c] \cap {"ask", "mute"} = {}
  /\ \E told \in SUBSET {"end"} : wire' = [wire EXCEPT ![c] = {"leave", "mute"} \cup told]

-----------------------------------------------------------------------------
(* The server's end.                                                        *)

Accepted(c) ==
  /\ "ask" \in wire[c]
  /\ Accept(c)
  /\ wire' = [wire EXCEPT ![c] = @ \ {"ask"}]

\* The abort signal of the request, which means nothing to a handler that has ended.
Leaves(c) ==
  /\ "leave" \in wire[c] /\ "ask" \notin wire[c]
  /\ HangUp(c)
  /\ wire' = [wire EXCEPT ![c] = @ \ {"leave"}]

\* What the server sends to a page that reads it.
Sends(c, e) ==
  wire' = IF page.source = c /\ "mute" \notin wire[c] THEN [wire EXCEPT ![c] = @ \cup {e}] ELSE wire

\* A block with number and hash is written, any other is passed over.
Emit(c) ==
  /\ Read(c)
  /\ Sends(c, "block") \/ UNCHANGED wire

\* The stream ends with its handler.
End(c) ==
  /\ ServerEnds(c)
  /\ Sends(c, "end")

Init ==
  /\ RpcInit /\ ServerInit
  /\ page = NoPage
  /\ wire = [c \in Conns |-> {}]

ServerStep(c) ==
  /\ UNCHANGED page
  /\ \/ GetClient(c) /\ UNCHANGED wire
     \/ ((Serves(c) /\ UNCHANGED wire) \/ Emit(c) \/ End(c)) /\ UNCHANGED rpcVars

Saves(h) == (\E u \in Endpoints : Save(h, u)) /\ UNCHANGED <<serverVars, page, wire>>

Reloads(h) ==
  /\ Reloaded(h) \/ (Loads(h) /\ UNCHANGED serverVars)
  /\ UNCHANGED <<page, wire>>

World == NewBlock \/ Reorg \/ Publish

\* What reaches the server, and what reaches the page.
Arrives(c) == (Accepted(c) \/ Leaves(c)) /\ UNCHANGED <<rpcVars, page>>
Returns(c) == Hear(c) /\ UNCHANGED <<rpcVars, serverVars>>

PageStep ==
  \/ Acquire \/ Release \/ BaseLost \/ BaseFound
  \/ \E c \in Conns : Deliver(c) \/ ((Refused(c) \/ Break(c)) /\ UNCHANGED page)

Next ==
  \/ World /\ UNCHANGED <<rpcVars, page, wire>>
  \/ PageStep /\ UNCHANGED <<rpcVars, serverVars>>
  \/ \E h \in Savers : Saves(h) \/ Reloads(h)
  \/ \E c \in Conns : ServerStep(c) \/ Arrives(c) \/ Returns(c)

Spec == Init /\ [][Next]_vars

\* Every call of the handler is answered or rejected in the end, and what is on its way, but
\* for what a broken connection swallows, arrives.
FairSpec ==
  /\ Spec
  /\ \A c \in Conns : WF_vars(ServerStep(c)) /\ WF_vars(Arrives(c)) /\ WF_vars(Returns(c))
  /\ \A h \in Savers : WF_vars(Reloads(h))

-----------------------------------------------------------------------------
(* Properties.                                                              *)

\* The types hold.  Between the head the tail started from and the last block it passed no
\* block is missing but those that a gap wider than the catch-up leaves to the polled feed,
\* and only blocks mined since the connection opened are emitted, whatever is reorganised.
NoHoles ==
  /\ TypeOK
  /\ \A c \in Conns :
       /\ conn[c].last # None =>
            (hist[c].base + 1)..conn[c].last \subseteq hist[c].done \cup hist[c].missed
       /\ \A n \in hist[c].done : n > hist[c].low

\* The queue holds the newest events in their order, none of them written yet, and an event
\* that is neither written nor queued was dropped for a full queue.
EventsInOrder ==
  \A c \in Conns : LET q == queue[c] IN
    conn[c].listening =>
      /\ q = [i \in 1..Len(q) |-> pub - Len(q) + i]
      /\ hist[c].shown <= pub - Len(q)
      /\ hist[c].shown < pub - Len(q) => Len(q) > 0

Faulty ==
  \/ Release \/ BaseLost
  \/ \E c \in Conns : Refused(c) \/ Break(c) \/ PollFails(c) \/ ReadFails(c) \/ GivesUp(c) \/ NoClient(c)

\* A stream that opens while no save is under way polls the saved endpoint, whatever it was
\* before, or the default of the chain if the last load that went live had failed.  Only a load
\* that was overtaken breaks this: it had read the row before a later save wrote it, and
\* ended after the load of that save.
NoReplacedEndpoint ==
  [][\A c \in Conns :
       conn[c].pc = "client" /\ conn'[c].pc = "top" /\ (\A h \in Savers : save[h].pc = "idle") =>
         /\ loaded = "read" => client' = table
         /\ loaded = "failed" => client' = Default]_vars

\* Once nothing fails any more and the head stays, a connection whose client is gone has
\* ended, and its listener with it, and the tail of any other has reached the head; and a
\* page whose stream is open, and not broken without its knowledge, has such a tail.
Reaches ==
  <>[][tip' = tip /\ ~Faulty]_vars =>
    /\ \A c \in Conns : <>[](conn[c] = Closed \/ (conn[c].last = tip /\ ~conn[c].gone))
    /\ <>[](page.source # None /\ "mute" \notin wire[page.source] => conn[page.source].last = tip)

\* A live page has a stream open; and an open stream has asked for a handler, or has one that
\* does not take the page for gone, or its end is on the way to the page, or lost.
LiveIsServed ==
  LET c == page.source IN
  /\ page.live => c # None
  /\ c # None => \/ wire[c] \cap {"ask", "end", "mute"} # {}
                 \/ conn[c].pc # "closed" /\ ~conn[c].gone
=============================================================================
