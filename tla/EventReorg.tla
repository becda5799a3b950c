------------------------------ MODULE EventReorg ------------------------------
(***************************************************************************)
(* Reorg reconciliation of src/src/services/EventIndexingService.ts: the   *)
(* stored rows of one contract, the walks that store them while the chain  *)
(* reorganises, and the passes that check unfinalized rows against their   *)
(* receipts, delete those that vanished and finalize the others.  Both go  *)
(* by a finalized head that may be an estimate.                            *)
(***************************************************************************)
EXTENDS Integers, FiniteSets, FiniteSetsExt

CONSTANTS
  Txs,        \* transactions, each with one log of the contract
  Places,     \* log indexes a log may have within its block
  Passes,     \* passes under way at once
  MaxBlock,   \* bound: heights are 1..MaxBlock
  MaxForks,   \* bound: reorganisations
  BatchSize,  \* BATCH_SIZE
  RowCap,     \* REORG_RECONCILE_ROW_CAP
  Lag,        \* how far below the latest block finality is estimated, the code's 64
  Faults      \* what may go wrong: "rpc", "db", "crash"

Heights == 1..MaxBlock
Keys == Txs \X Places

ASSUME SizesAssumption ==
  /\ MaxBlock \in Nat \ {0} /\ MaxForks \in Nat
  /\ BatchSize \in Nat \ {0} /\ RowCap \in Nat \ {0} /\ Lag \in Nat
  /\ Faults \subseteq {"rpc", "db", "crash"}

\* A pass selects at most RowCap rows: there are so many to select from.
ASSUME FiniteAssumption == IsFiniteSet(Txs) /\ IsFiniteSet(Places)

VARIABLES
  head,    \* the chain head
  final,   \* the finalized head, which no reorganisation passes
  at,      \* at[t]: where the chain has t
  forks,   \* reorganisations so far
  top,     \* history: the highest head there was
  deep,    \* history: a reorganisation went further below top than the estimate allows for
  rows,    \* rows[<<t, i>>]: the row of contract_events with this key
  walk,    \* the walk
  pass,    \* pass[p]: a pass of reconcileReorgedEvents
  boot     \* the process has started and not yet swept

chainVars == <<head, final, at, forks, top, deep>>
vars == <<chainVars, rows, walk, pass, boot>>

Nowhere == [n |-> 0, i |-> 0]
Spot == [n : Heights, i : Places] \cup {Nowhere}

\* Where a finalized head comes from: the node says it, or it is estimated.
Source == {"node", "guess"}

\* fin tells who has finalized a row: a walk, by which of the two, or a pass.
NoRow == [n |-> 0, fin |-> "none"]
Row == [n : Heights, fin : {"no", "node", "guess", "pass"}] \cup {NoRow}

\* Blocks up to the cursor are covered.  got are the logs of the batch, each a key with its block.
Walk == [pc : {"idle", "fetch", "insert", "mark", "ended"}, snap : 0..MaxBlock, by : Source,
         cursor : 0..MaxBlock, to : 0..MaxBlock, got : SUBSET (Keys \X Heights)]

NoWalk == [pc |-> "idle", snap |-> 0, by |-> "node", cursor |-> 0, to |-> 0, got |-> {}]

Pass == [pc : {"idle", "rows", "receipts", "promote"}, upto : 0..MaxBlock, by : Source,
         pending : SUBSET Keys, gone : SUBSET Keys, kept : SUBSET Keys]

NoPass == [pc |-> "idle", upto |-> 0, by |-> "node", pending |-> {}, gone |-> {}, kept |-> {}]

TypeOK ==
  /\ head \in Heights /\ final \in 0..head /\ at \in [Txs -> Spot] /\ forks \in 0..MaxForks
  /\ top \in head..MaxBlock /\ deep \in BOOLEAN
  /\ rows \in [Keys -> Row]
  /\ walk \in Walk
  /\ pass \in [Passes -> Pass]
  /\ boot \in BOOLEAN
  /\ \A p \in Passes : Cardinality(pass[p].pending \cup pass[p].gone \cup pass[p].kept) <= RowCap

OnChain(k) == at[k[1]].n # 0 /\ at[k[1]].i = k[2]
Stored(k) == rows[k] # NoRow

-----------------------------------------------------------------------------
(* The chain.                                                               *)

Less(n) == IF n > Lag THEN n - Lag ELSE 0

\* A block is mined, with some of the transactions that wait, each with a log index of its own.
Mine ==
  /\ head < MaxBlock
  /\ head' = head + 1
  /\ top' = IF head = top THEN head + 1 ELSE top
  /\ \E T \in SUBSET {t \in Txs : at[t] = Nowhere} : \E place \in [T -> Places] :
       /\ \A t, u \in T : place[t] = place[u] => t = u
       /\ at' = [t \in Txs |-> IF t \in T THEN [n |-> head + 1, i |-> place[t]] ELSE at[t]]
  /\ UNCHANGED <<final, forks, deep, rows, walk, pass, boot>>

Finalize ==
  /\ final < head
  /\ final' = final + 1
  /\ UNCHANGED <<head, at, forks, top, deep, rows, walk, pass, boot>>

\* Blocks above the finalized head are orphaned, and their transactions wait again.
Reorg ==
  /\ forks < MaxForks
  /\ forks' = forks + 1
  /\ \E n \in Heights :
       /\ n < head /\ n >= final
       /\ head' = n
       /\ deep' = (deep \/ n < Less(top))
       /\ at' = [t \in Txs |-> IF at[t].n > n THEN Nowhere ELSE at[t]]
  /\ UNCHANGED <<final, top, rows, walk, pass, boot>>

\* fetchFinalizedBlockNumber: what the node says, or, when it answers with any error, the
\* latest block less Lag, which may lie above the finalized head.
FinalHeads == {<<final, "node">>, <<Less(head), "guess">>}

-----------------------------------------------------------------------------
(* A walk: from the checkpoint or the start of its range to the head, in    *)
(* batches.                                                                 *)

\* Any range may be added or resumed.  The finalized head is read once, before the first batch.
Begin ==
  /\ walk.pc = "idle"
  /\ \E f \in FinalHeads, c \in 0..(head - 1) :
       walk' = [NoWalk EXCEPT !.pc = "fetch", !.snap = f[1], !.by = f[2], !.cursor = c, !.to = head]
  /\ UNCHANGED <<chainVars, rows, pass, boot>>

BatchTo == IF walk.cursor + BatchSize < walk.to THEN walk.cursor + BatchSize ELSE walk.to

\* The logs of the batch, as the chain has them.
Fetch ==
  /\ walk.pc = "fetch"
  /\ walk' = [walk EXCEPT !.pc = "insert",
        !.got = {<<<<t, at[t].i>>, at[t].n>> : t \in {u \in Txs : at[u].n \in (walk.cursor + 1)..BatchTo}}]
  /\ UNCHANGED <<chainVars, rows, pass, boot>>

\* Faulty: the finalized head is read after the logs.
IsFinalizedNow == BatchTo <= final

IsFinalized == BatchTo <= walk.snap

\* insertEvents: a row that is there stays as it is.
Insert ==
  /\ walk.pc = "insert"
  /\ walk' = [walk EXCEPT !.pc = "mark", !.got = {}]
  /\ rows' = [k \in Keys |->
       IF Stored(k) \/ ~\E n \in Heights : <<k, n>> \in walk.got THEN rows[k]
       ELSE [n |-> CHOOSE n \in Heights : <<k, n>> \in walk.got,
             fin |-> IF IsFinalized THEN walk.by ELSE "no"]]
  /\ UNCHANGED <<chainVars, pass, boot>>

Ended == [NoWalk EXCEPT !.pc = "ended"]

\* The checkpoint.  The loop ends at the end of the range.
Mark ==
  /\ walk.pc = "mark"
  /\ walk' = IF BatchTo = walk.to THEN Ended ELSE [walk EXCEPT !.pc = "fetch", !.cursor = BatchTo]
  /\ UNCHANGED <<chainVars, rows, pass, boot>>

\* The loop also ends when the range is paused.
Pause ==
  /\ walk.pc = "fetch"
  /\ walk' = Ended
  /\ UNCHANGED <<chainVars, rows, pass, boot>>

\* A call rejects: the walk ends without a pass.
WalkFails ==
  /\ Faults \cap {"rpc", "db"} # {}
  /\ walk.pc # "idle"
  /\ walk' = NoWalk
  /\ UNCHANGED <<chainVars, rows, pass, boot>>

\* The process dies and starts again.
Restart ==
  /\ "crash" \in Faults
  /\ walk' = NoWalk
  /\ pass' = [p \in Passes |-> NoPass]
  /\ boot' = TRUE
  /\ UNCHANGED <<chainVars, rows>>

-----------------------------------------------------------------------------
(* A pass of reconcileReorgedEvents.                                        *)

Goes(p, s) == pass' = [pass EXCEPT ![p] = s]

ReadFinal(p) ==
  /\ pass[p].pc = "idle"
  /\ \E f \in FinalHeads : Goes(p, [NoPass EXCEPT !.pc = "rows", !.upto = f[1], !.by = f[2]])

\* A walk whose loop has ended runs a pass.
EndPass(p) ==
  /\ walk.pc = "ended"
  /\ ReadFinal(p)
  /\ walk' = NoWalk
  /\ UNCHANGED <<chainVars, rows, boot>>

\* reconcileAllReorgedEvents, once after a start, if the contract has an unfinalized row.
BootPass(p) ==
  /\ boot
  /\ \E k \in Keys : rows[k].fin = "no"
  /\ ReadFinal(p)
  /\ boot' = FALSE
  /\ UNCHANGED <<chainVars, rows, walk>>

Unfinalized(upto) == {k \in Keys : rows[k].fin = "no" /\ rows[k].n <= upto}

\* The oldest rows of S, as many as the cap allows.
Oldest(S) ==
  {T \in SUBSET S :
     /\ Cardinality(T) = IF Cardinality(S) < RowCap THEN Cardinality(S) ELSE RowCap
     /\ \A k \in T, l \in S \ T : rows[k].n <= rows[l].n}

Select(p) ==
  LET S == Unfinalized(pass[p].upto) IN
  /\ pass[p].pc = "rows"
  /\ \E T \in Oldest(S) :
       Goes(p, IF S = {} THEN NoPass ELSE [pass[p] EXCEPT !.pc = "receipts", !.pending = T])
  /\ UNCHANGED <<chainVars, rows, walk, boot>>

OfTx(p, t) == {k \in pass[p].pending : k[1] = t}

\* A receipt is there, with the log or without it, or the transaction is not.
Receipt(p, t) ==
  /\ pass[p].pc = "receipts"
  /\ OfTx(p, t) # {}
  /\ Goes(p, [pass[p] EXCEPT !.pending = @ \ OfTx(p, t),
                             !.kept = @ \cup {k \in OfTx(p, t) : OnChain(k)},
                             !.gone = @ \cup {k \in OfTx(p, t) : ~OnChain(k)}])
  /\ UNCHANGED <<chainVars, rows, walk, boot>>

\* Faulty: no answer counts as no receipt.
ReceiptGone(p, t) ==
  /\ pass[p].pc = "receipts"
  /\ "rpc" \in Faults
  /\ OfTx(p, t) # {}
  /\ Goes(p, [pass[p] EXCEPT !.pending = @ \ OfTx(p, t), !.gone = @ \cup OfTx(p, t)])
  /\ UNCHANGED <<chainVars, rows, walk, boot>>

\* No answer leaves the rows for a later pass.
NoReceipt(p, t) ==
  /\ pass[p].pc = "receipts"
  /\ "rpc" \in Faults
  /\ OfTx(p, t) # {}
  /\ Goes(p, [pass[p] EXCEPT !.pending = @ \ OfTx(p, t)])
  /\ UNCHANGED <<chainVars, rows, walk, boot>>

\* Rows are deleted by key, whatever the chain has of them by now.
Delete(p) ==
  /\ pass[p].pc = "receipts"
  /\ pass[p].pending = {}
  /\ rows' = [k \in Keys |-> IF k \in pass[p].gone THEN NoRow ELSE rows[k]]
  /\ Goes(p, [pass[p] EXCEPT !.pc = "promote", !.gone = {}])
  /\ UNCHANGED <<chainVars, walk, boot>>

\* Faulty: what survives stays unfinalized.
PromoteNone(p) ==
  /\ pass[p].pc = "promote"
  /\ Goes(p, NoPass)
  /\ UNCHANGED <<chainVars, rows, walk, boot>>

Promote(p) ==
  /\ pass[p].pc = "promote"
  /\ rows' = [k \in Keys |->
       IF k \in pass[p].kept /\ rows[k].fin = "no" THEN [rows[k] EXCEPT !.fin = "pass"] ELSE rows[k]]
  /\ Goes(p, NoPass)
  /\ UNCHANGED <<chainVars, walk, boot>>

PassFails(p) ==
  /\ Faults \cap {"rpc", "db"} # {}
  /\ pass[p].pc # "idle"
  /\ Goes(p, NoPass)
  /\ UNCHANGED <<chainVars, rows, walk, boot>>

Init ==
  /\ head = 1 /\ final = 0 /\ at = [t \in Txs |-> Nowhere] /\ forks = 0
  /\ top = 1 /\ deep = FALSE
  /\ rows = [k \in Keys |-> NoRow]
  /\ walk = NoWalk
  /\ pass = [p \in Passes |-> NoPass]
  /\ boot = FALSE

WalkStep == Begin \/ Fetch \/ Insert \/ Mark \/ Pause \/ WalkFails

\* A step of a pass under way.
PassStep(p) ==
  \/ Select(p) \/ Delete(p) \/ Promote(p) \/ PassFails(p)
  \/ \E t \in Txs : Receipt(p, t) \/ NoReceipt(p, t)

Next ==
  \/ Mine \/ Finalize \/ Reorg
  \/ WalkStep \/ Restart
  \/ \E p \in Passes : EndPass(p) \/ BootPass(p) \/ PassStep(p)

Spec == Init /\ [][Next]_vars

\* A pass that has begun goes on.
FairSpec == Spec /\ \A p \in Passes : WF_vars(PassStep(p))

-----------------------------------------------------------------------------
(* Properties.                                                              *)

\* The log of a row is on the chain where the row says.
InPlace(k) == at[k[1]] = [n |-> rows[k].n, i |-> k[2]]

\* The types hold, and as the finalized head is read before the logs, a row the walk stores as
\* finalized by the node's word is on the chain, where the row says, whatever is reorganised
\* between the two reads and later.  One it stores as finalized by the estimate is there unless
\* a reorganisation went deeper than the estimate allows for: nothing looks at it again.
WalkedFinal ==
  /\ TypeOK
  /\ \A k \in Keys : rows[k].fin = "node" \/ (rows[k].fin = "guess" /\ ~deep) => InPlace(k)

\* No pass deletes a row whose log is in a finalized block, where the row says: not for a
\* receipt that got no answer, and not for one that was asked for before a reorganisation.
\* Excepted is a pass that goes by the estimate after a reorganisation deeper than that.
GoodRowsStay ==
  [][\A k \in Keys :
       Stored(k) /\ InPlace(k) /\ rows[k].n <= final =>
         Stored(k)' \/ (deep /\ \E p \in Passes : pass[p].by = "guess" /\ k \in pass[p].gone)]_vars

\* A step that only a fault takes.
Faulty ==
  \/ Restart
  \/ \E p \in Passes : (PassFails(p) \/ \E t \in Txs : NoReceipt(p, t)) /\ ~Select(p) /\ ~Promote(p)

\* Passes begin again and again, as ranges are walked.
PassesCome == []<>(\E p \in Passes : pass[p].pc = "rows")

\* Passes drain the backlog, as little as each may take: once the chain rests and nothing
\* fails any more, every row at or below both the finalized head and its estimate is finalized
\* or gone, as long as passes are begun.
Drains ==
  PassesCome /\ <>[][UNCHANGED chainVars /\ ~Faulty]_vars =>
    <>[](\A k \in Keys : rows[k].fin = "no" => rows[k].n > final \/ rows[k].n > Less(head))
=============================================================================
