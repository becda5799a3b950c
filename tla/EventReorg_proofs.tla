-------------------------- MODULE EventReorg_proofs --------------------------
(***************************************************************************)
(* WalkedFinal is an invariant of EventReorg for every set of transactions *)
(* and passes, every chain length, batch size and cap; with one pass at a  *)
(* time, no step deletes the row of a finalized log.                       *)
(***************************************************************************)
EXTENDS EventReorg, FiniteSetTheorems, TLAPS

-----------------------------------------------------------------------------
(* The inductive invariant.                                                 *)

\* What finality was when block n was taken for final, by the node's word or the estimate.
Heard(by, n) == IF by = "node" THEN n <= final ELSE n <= Less(top)

\* An estimate counts until a reorganisation goes deeper than it allows for.
Counts(by) == by = "node" \/ ~deep

\* The chain has no transaction above its head, and while an estimate counts the head is not
\* below any.
BelowHead ==
  /\ \A t \in Txs : at[t].n <= head
  /\ ~deep => Less(top) <= head

\* The logs of a batch at or below the finalized head the walk goes by are where the chain had
\* them: no reorganisation moves them any more.
BatchHolds ==
  /\ Heard(walk.by, walk.snap)
  /\ walk.pc = "insert" =>
       \A k \in Keys, n \in Heights : <<k, n>> \in walk.got =>
         /\ n <= BatchTo
         /\ BatchTo <= walk.snap /\ Counts(walk.by) => at[k[1]] = [n |-> n, i |-> k[2]]

\* A row the walk finalized is in a block that was taken for final.
WalkedBelowFinal ==
  \A k \in Keys : rows[k].fin \in Source =>
    Heard(rows[k].fin, rows[k].n) /\ (Counts(rows[k].fin) => InPlace(k))

Types ==
  /\ head \in Heights /\ final \in 0..head /\ at \in [Txs -> Spot] /\ forks \in 0..MaxForks
  /\ top \in head..MaxBlock /\ deep \in BOOLEAN
  /\ rows \in [Keys -> Row]
  /\ walk \in Walk
  /\ pass \in [Passes -> Pass]
  /\ boot \in BOOLEAN

WalkInv == Types /\ BelowHead /\ BatchHolds /\ WalkedBelowFinal

LEMMA ConstantTypes ==
  /\ MaxBlock \in Nat /\ MaxBlock > 0 /\ MaxForks \in Nat /\ Lag \in Nat
  /\ BatchSize \in Nat /\ BatchSize > 0 /\ RowCap \in Nat /\ RowCap > 0
  /\ NoWalk \in Walk /\ Ended \in Walk /\ NoPass \in Pass /\ NoRow \in Row /\ Nowhere \in Spot
BY SizesAssumption DEF NoWalk, Ended, Walk, NoPass, Pass, NoRow, Row, Nowhere, Spot, Source

LEMMA LessIs ==
  ASSUME NEW n \in Nat
  PROVE  Less(n) \in 0..n /\ \A m \in 0..n : Less(m) <= Less(n)
BY ConstantTypes DEF Less

\* The heights of the chain as numbers.
LEMMA ChainTypes ==
  ASSUME Types
  PROVE  /\ head \in Nat /\ head >= 1 /\ head <= top /\ top \in Nat /\ top <= MaxBlock
         /\ final \in Nat /\ final <= head
         /\ Less(top) \in Nat /\ Less(head) \in Nat /\ Less(head) <= Less(top) /\ Less(head) <= head
         /\ Less(head) \in 0..MaxBlock /\ final \in 0..MaxBlock
<1>1. head \in Nat /\ head >= 1 /\ head <= top /\ top \in Nat /\ top <= MaxBlock
      /\ final \in Nat /\ final <= head
  BY ConstantTypes DEF Types, Heights
<1>2. Less(top) \in 0..top /\ Less(head) \in 0..head /\ Less(head) <= Less(top)
  BY <1>1, LessIs
<1> QED BY <1>1, <1>2, ConstantTypes

LEMMA WalkInvInit == Init => WalkInv
<1> SUFFICES ASSUME Init PROVE WalkInv
  OBVIOUS
<1>1. Types
  <2>1. head \in Heights /\ final \in 0..head /\ forks \in 0..MaxForks /\ top \in head..MaxBlock
    BY ConstantTypes DEF Init, Heights
  <2>2. at \in [Txs -> Spot] /\ rows \in [Keys -> Row] /\ walk \in Walk /\ pass \in [Passes -> Pass]
    BY ConstantTypes DEF Init
  <2>3. deep \in BOOLEAN /\ boot \in BOOLEAN
    BY Zenon DEF Init
  <2> QED BY <2>1, <2>2, <2>3 DEF Types
<1>2. Less(top) \in 0..top /\ Less(0) = 0 /\ Less(top) >= 0
  BY LessIs, ConstantTypes DEF Init, Less
<1> QED BY <1>1, <1>2 DEF Init, WalkInv, BelowHead, BatchHolds, Heard, WalkedBelowFinal, NoWalk,
           NoRow, Nowhere, Source

LEMMA BatchToType ==
  ASSUME Types
  PROVE  BatchTo \in 0..MaxBlock
BY ConstantTypes DEF Types, Walk, BatchTo

-----------------------------------------------------------------------------
(* The chain.                                                               *)

\* What is at or below the finalized head, or below every estimate that still counts, is where
\* it was, whatever the chain does.
SettledPlaces ==
  \A t \in Txs : at[t].n # 0 /\ (at[t].n <= final \/ (~deep' /\ at[t].n <= Less(top))) => at'[t] = at[t]

\* Finality and its estimate never go back.
Onward == final' >= final /\ top' >= top /\ (deep => deep')

LEMMA MineKeeps ==
  ASSUME Types, BelowHead, Mine
  PROVE  Types' /\ BelowHead' /\ SettledPlaces /\ Onward
<1>1. PICK T \in SUBSET {t \in Txs : at[t] = Nowhere} : \E place \in [T -> Places] :
        at' = [t \in Txs |-> IF t \in T THEN [n |-> head + 1, i |-> place[t]] ELSE at[t]]
  BY DEF Mine
<1>2. PICK place \in [T -> Places] :
        at' = [t \in Txs |-> IF t \in T THEN [n |-> head + 1, i |-> place[t]] ELSE at[t]]
  BY <1>1
<1>3. head' \in Heights /\ head + 1 \in Heights /\ head' = head + 1 /\ final' = final /\ deep' = deep
  BY ChainTypes, ConstantTypes DEF Mine, Heights
<1>4. top' \in head'..MaxBlock /\ (top' = top \/ top' = head + 1) /\ top' >= top
  BY ChainTypes, ConstantTypes DEF Mine
<1>5. at' \in [Txs -> Spot]
  BY <1>2, <1>3 DEF Types, Spot
<1>6. final' \in 0..head'
  BY <1>3, ChainTypes
<1>7. \A t \in Txs : at'[t].n <= head'
  BY <1>2, <1>3, ChainTypes DEF BelowHead, Types, Spot, Nowhere, Heights
<1>8. ~deep' => Less(top') <= head'
  <2>1. CASE top' = top
    BY <2>1, <1>3, ChainTypes DEF BelowHead
  <2>2. CASE top' = head + 1
    BY <2>2, <1>3, ChainTypes, LessIs
  <2> QED BY <1>4, <2>1, <2>2
<1>9. SettledPlaces
  BY <1>2 DEF SettledPlaces, Types, Nowhere
<1>10. Types'
  BY <1>3, <1>4, <1>5, <1>6 DEF Mine, Types
<1> QED BY <1>3, <1>4, <1>7, <1>8, <1>9, <1>10, ChainTypes DEF BelowHead, Onward

LEMMA FinalizeKeeps ==
  ASSUME Types, BelowHead, Finalize
  PROVE  Types' /\ BelowHead' /\ SettledPlaces /\ Onward
<1>1. final' \in 0..head' /\ final' >= final /\ UNCHANGED <<head, at, top, deep>>
  BY ChainTypes DEF Finalize
<1>2. Types'
  BY <1>1 DEF Finalize, Types
<1> QED BY <1>1, <1>2, ChainTypes DEF BelowHead, SettledPlaces, Onward

LEMMA ReorgKeeps ==
  ASSUME Types, BelowHead, Reorg
  PROVE  Types' /\ BelowHead' /\ SettledPlaces /\ Onward
<1>1. PICK n \in Heights :
        /\ n < head /\ n >= final /\ head' = n
        /\ deep' = (deep \/ n < Less(top))
        /\ at' = [t \in Txs |-> IF at[t].n > n THEN Nowhere ELSE at[t]]
  BY DEF Reorg
<1>2. head' \in Heights /\ final' \in 0..head' /\ forks' \in 0..MaxForks /\ top' = top /\ final' = final
      /\ top' \in head'..MaxBlock /\ deep' \in BOOLEAN
  BY <1>1, ChainTypes, ConstantTypes DEF Reorg, Types, Heights
<1>3. \A t \in Txs : at[t].n \in Int /\ at[t] \in Spot
  BY ConstantTypes DEF Types, Spot, Heights, Nowhere
<1>4. at' \in [Txs -> Spot] /\ \A t \in Txs : at'[t].n <= n
  BY <1>1, <1>3, ConstantTypes DEF Nowhere, Heights
<1>5. n \in Nat /\ (deep => deep') /\ (~deep' => Less(top) <= n)
  <2>1. (deep => deep') /\ (~deep' => ~(n < Less(top)))
    BY <1>1, Zenon
  <2>2. n \in Nat /\ (~(n < Less(top)) => Less(top) <= n)
    BY ChainTypes, ConstantTypes DEF Heights
  <2> QED BY <2>1, <2>2
<1>6. SettledPlaces
  <2> SUFFICES ASSUME NEW t \in Txs, at[t].n <= final \/ (~deep' /\ at[t].n <= Less(top))
               PROVE  at'[t] = at[t]
    BY DEF SettledPlaces
  <2>1. at[t].n <= n
    BY <1>1, <1>3, <1>5, ChainTypes
  <2> QED BY <1>1, <1>3, <1>5, <2>1
<1>7. Types'
  BY <1>2, <1>4 DEF Reorg, Types
<1> QED BY <1>1, <1>2, <1>4, <1>5, <1>6, <1>7, ChainTypes DEF BelowHead, Onward

LEMMA HeardOnward ==
  ASSUME Types, Types', Onward, NEW by, NEW n \in Int, Heard(by, n)
  PROVE  Heard(by, n)'
<1>1. Less(top) <= Less(top') /\ Less(top) \in Nat /\ Less(top') \in Nat
  <2>1. top \in Nat /\ top' \in Nat /\ top <= top'
    BY ConstantTypes DEF Types, Onward, Heights
  <2> QED BY <2>1, LessIs
<1>2. final \in Nat /\ final' \in Nat
  BY ConstantTypes DEF Types, Heights
<1> QED BY <1>1, <1>2 DEF Heard, Onward

LEMMA ChainStep ==
  ASSUME WalkInv, Types', BelowHead', SettledPlaces, Onward, UNCHANGED <<rows, walk, pass, boot>>
  PROVE  WalkInv'
<1>1. final \in Int /\ walk.snap \in Int /\ BatchTo \in Int /\ BatchTo' = BatchTo
      /\ Less(top) \in Int
  BY BatchToType, ChainTypes, ConstantTypes DEF WalkInv, Types, Walk, BatchTo
<1>2. Heard(walk.by, walk.snap)'
  BY <1>1, HeardOnward DEF WalkInv, BatchHolds, Heard
<1>3. ASSUME NEW by, Counts(by)' PROVE Counts(by)
  BY <1>3 DEF Counts, Onward
<1>4. ASSUME NEW t \in Txs, NEW by, Counts(by)', at[t].n \in Heights, Heard(by, at[t].n)
      PROVE  at'[t] = at[t]
  BY <1>4, ConstantTypes DEF SettledPlaces, Counts, Heard, Heights
<1>5. BatchHolds'
  <2> SUFFICES ASSUME walk.pc = "insert", NEW k \in Keys, NEW n \in Heights, <<k, n>> \in walk.got,
                      BatchTo <= walk.snap, Counts(walk.by)'
               PROVE  at'[k[1]] = [n |-> n, i |-> k[2]]
    BY <1>1, <1>2 DEF WalkInv, BatchHolds, Counts
  <2>1. at[k[1]] = [n |-> n, i |-> k[2]] /\ n <= BatchTo /\ Heard(walk.by, walk.snap)
    BY <1>3 DEF WalkInv, BatchHolds
  <2>2. k[1] \in Txs /\ n \in Int
    BY DEF Keys, Heights
  <2>3. Heard(walk.by, n)
    BY <2>1, <2>2, <1>1 DEF Heard
  <2> QED BY <2>1, <2>2, <2>3, <1>4
<1>6. WalkedBelowFinal'
  <2> SUFFICES ASSUME NEW k \in Keys, rows[k].fin \in Source
               PROVE  Heard(rows[k].fin, rows[k].n)' /\ (Counts(rows[k].fin)' => InPlace(k)')
    BY DEF WalkedBelowFinal, Counts, Heard
  <2>1. k[1] \in Txs /\ rows[k].n \in Heights /\ rows[k].n \in Int
    BY DEF Keys, WalkInv, Types, Row, NoRow, Source, Heights
  <2>2. Heard(rows[k].fin, rows[k].n) /\ (Counts(rows[k].fin) => InPlace(k))
    BY DEF WalkInv, WalkedBelowFinal
  <2>3. Heard(rows[k].fin, rows[k].n)'
    BY <2>1, <2>2, HeardOnward DEF WalkInv, Heard
  <2>4. ASSUME Counts(rows[k].fin)' PROVE InPlace(k)'
    <3>1. InPlace(k)
      BY <2>2, <2>4, <1>3 DEF Counts
    <3>2. at[k[1]].n = rows[k].n
      BY <3>1 DEF InPlace
    <3>3. at'[k[1]] = at[k[1]]
      BY <2>1, <2>2, <2>4, <3>2, <1>4 DEF Counts
    <3> QED BY <3>1, <3>3 DEF InPlace
  <2> QED BY <2>3, <2>4
<1> QED BY <1>5, <1>6 DEF WalkInv

-----------------------------------------------------------------------------
(* The walk.                                                                *)

\* Whatever is read as the finalized head was taken for final.
LEMMA FinalHeadsAre ==
  ASSUME Types, NEW f \in FinalHeads
  PROVE  f[1] \in 0..MaxBlock /\ f[2] \in Source /\ Heard(f[2], f[1])
<1>1. CASE f = <<final, "node">>
  BY <1>1, ChainTypes DEF Source, Heard
<1>2. CASE f = <<Less(head), "guess">>
  BY <1>2, ChainTypes DEF Source, Heard
<1> QED BY <1>1, <1>2 DEF FinalHeads

\* A step that leaves the chain and the rows alone.
LEMMA WalkMoves ==
  ASSUME WalkInv, UNCHANGED <<chainVars, rows>>, walk' \in Walk, BatchHolds',
         pass' \in [Passes -> Pass], boot' \in BOOLEAN
  PROVE  WalkInv'
BY DEF chainVars, WalkInv, Types, BelowHead, WalkedBelowFinal, Heard, Counts, InPlace

\* There is nothing to keep of a walk that has ended.
LEMMA NoBatch ==
  ASSUME Types, UNCHANGED chainVars, walk' \in {NoWalk, Ended}
  PROVE  walk' \in Walk /\ BatchHolds'
<1>1. walk' \in Walk /\ walk'.pc # "insert" /\ walk'.by = "node" /\ walk'.snap = 0
  BY ConstantTypes DEF NoWalk, Ended
<1> QED BY <1>1, ChainTypes DEF BatchHolds, Heard, chainVars

LEMMA BeginStep == ASSUME WalkInv, Begin PROVE WalkInv'
<1>1. PICK f \in FinalHeads, c \in 0..(head - 1) :
        walk' = [NoWalk EXCEPT !.pc = "fetch", !.snap = f[1], !.by = f[2], !.cursor = c, !.to = head]
  BY DEF Begin
<1>2. f[1] \in 0..MaxBlock /\ f[2] \in Source /\ Heard(f[2], f[1])
  BY FinalHeadsAre DEF WalkInv
<1>3. head \in 0..MaxBlock /\ c \in 0..MaxBlock
  BY ChainTypes, ConstantTypes DEF WalkInv
<1>4. walk' \in Walk /\ walk'.snap = f[1] /\ walk'.by = f[2] /\ walk'.pc = "fetch"
  BY <1>1, <1>2, <1>3 DEF Walk, NoWalk
<1>5. BatchHolds'
  BY <1>2, <1>4 DEF Begin, chainVars, BatchHolds, Heard
<1> QED BY <1>4, <1>5, WalkMoves DEF Begin, WalkInv, Types

LEMMA FetchStep == ASSUME WalkInv, Fetch PROVE WalkInv'
<1> DEFINE U == {u \in Txs : at[u].n \in (walk.cursor + 1)..BatchTo}
<1>1. walk' = [walk EXCEPT !.pc = "insert", !.got = {<<<<t, at[t].i>>, at[t].n>> : t \in U}]
  BY DEF Fetch
<1>2. BatchTo \in 0..MaxBlock /\ walk \in Walk /\ walk.cursor \in Nat
  BY BatchToType DEF WalkInv, Types, Walk
<1>3. ASSUME NEW t \in U
      PROVE  t \in Txs /\ at[t] \in [n : Heights, i : Places] /\ at[t].n <= BatchTo
  BY <1>2, ConstantTypes DEF WalkInv, Types, Spot, Nowhere, Heights
<1>4. walk'.got \subseteq Keys \X Heights
  BY <1>1, <1>2, <1>3 DEF Walk, Keys
<1>5. /\ walk' \in Walk /\ walk'.snap = walk.snap /\ walk'.by = walk.by /\ walk'.to = walk.to
      /\ walk'.cursor = walk.cursor /\ walk'.pc = "insert"
  BY <1>1, <1>2, <1>4 DEF Walk
<1>6. BatchTo' = BatchTo
  BY <1>5 DEF BatchTo
<1>7. ASSUME NEW k \in Keys, NEW n \in Heights, <<k, n>> \in walk'.got
      PROVE  n <= BatchTo /\ at[k[1]] = [n |-> n, i |-> k[2]]
  <2>1. PICK t \in U : <<k, n>> = <<<<t, at[t].i>>, at[t].n>>
    BY <1>7, <1>1, <1>2 DEF Walk
  <2> QED BY <2>1, <1>3
<1>8. BatchHolds'
  BY <1>5, <1>6, <1>7 DEF BatchHolds, Heard, WalkInv, Fetch, chainVars
<1> QED BY <1>5, <1>8, WalkMoves DEF Fetch, WalkInv, Types

LEMMA InsertStep == ASSUME WalkInv, Insert PROVE WalkInv'
<1>1. BatchTo \in 0..MaxBlock /\ walk \in Walk /\ Heard(walk.by, walk.snap)
  BY BatchToType DEF WalkInv, Types, BatchHolds
<1>2. walk' \in Walk /\ walk'.snap = walk.snap /\ walk'.by = walk.by /\ walk'.pc = "mark"
  BY <1>1 DEF Insert, Walk
<1>3. ASSUME NEW k \in Keys
      PROVE  \/ rows'[k] = rows[k]
             \/ /\ rows'[k] \in [n : Heights, fin : {"no", "node", "guess"}]
                /\ <<k, rows'[k].n>> \in walk.got
                /\ rows'[k].fin \in Source => BatchTo <= walk.snap /\ rows'[k].fin = walk.by
  <2> DEFINE Found == \E n \in Heights : <<k, n>> \in walk.got
             m == CHOOSE n \in Heights : <<k, n>> \in walk.got
  <2>1. rows'[k] = IF Stored(k) \/ ~Found THEN rows[k]
                   ELSE [n |-> m, fin |-> IF IsFinalized THEN walk.by ELSE "no"]
    BY DEF Insert
  <2>2. Found => m \in Heights /\ <<k, m>> \in walk.got
    OBVIOUS
  <2>3. walk.by \in Source
    BY <1>1 DEF Walk
  <2> HIDE DEF m, Found
  <2> QED BY <2>1, <2>2, <2>3 DEF IsFinalized, Source
<1>4. rows' \in [Keys -> Row]
  <2>1. DOMAIN rows' = Keys /\ rows' = [k \in Keys |-> rows'[k]]
    BY DEF Insert
  <2>2. \A k \in Keys : rows'[k] \in Row
    BY <1>3 DEF WalkInv, Types, Row
  <2> QED BY <2>1, <2>2
<1>5. UNCHANGED <<head, final, at, forks, top, deep, pass, boot>>
  BY DEF Insert, chainVars
<1>6. WalkedBelowFinal'
  <2> SUFFICES ASSUME NEW k \in Keys, rows'[k].fin \in Source
               PROVE  /\ Heard(rows'[k].fin, rows'[k].n)
                      /\ Counts(rows'[k].fin) => at[k[1]] = [n |-> rows'[k].n, i |-> k[2]]
    BY <1>5 DEF WalkedBelowFinal, Heard, Counts, InPlace
  <2>1. CASE rows'[k] = rows[k]
    BY <2>1 DEF WalkInv, WalkedBelowFinal, InPlace
  <2>2. CASE rows'[k] # rows[k]
    <3>1. /\ rows'[k].n \in Heights /\ <<k, rows'[k].n>> \in walk.got /\ BatchTo <= walk.snap
          /\ rows'[k].fin = walk.by
      BY <1>3, <2>2
    <3>2. rows'[k].n <= BatchTo /\ (Counts(walk.by) => at[k[1]] = [n |-> rows'[k].n, i |-> k[2]])
      BY <3>1 DEF Insert, WalkInv, BatchHolds
    <3>3. rows'[k].n \in Int /\ walk.snap \in Int /\ final \in Int /\ Less(top) \in Int
      BY <3>1, <1>1, ChainTypes DEF Heights, Walk, WalkInv
    <3>4. Heard(walk.by, rows'[k].n)
      BY <1>1, <3>1, <3>2, <3>3 DEF Heard
    <3> QED BY <3>1, <3>2, <3>4
  <2> QED BY <2>1, <2>2
<1>7. BatchHolds'
  BY <1>1, <1>2, <1>5 DEF BatchHolds, Heard
<1>8. BelowHead' /\ Types'
  BY <1>2, <1>4, <1>5 DEF WalkInv, BelowHead, Types
<1> QED BY <1>6, <1>7, <1>8 DEF WalkInv

LEMMA MarkStep == ASSUME WalkInv, Mark PROVE WalkInv'
<1>1. CASE walk' = Ended
  BY <1>1, NoBatch, WalkMoves DEF Mark, WalkInv, Types
<1>2. CASE walk' = [walk EXCEPT !.pc = "fetch", !.cursor = BatchTo]
  <2>1. walk' \in Walk /\ walk'.pc = "fetch" /\ walk'.by = walk.by /\ walk'.snap = walk.snap
    BY <1>2, BatchToType DEF WalkInv, Types, Walk
  <2>2. BatchHolds'
    BY <2>1 DEF Mark, chainVars, WalkInv, BatchHolds, Heard
  <2> QED BY <2>1, <2>2, WalkMoves DEF Mark, WalkInv, Types
<1> QED BY <1>1, <1>2 DEF Mark

LEMMA PauseStep == ASSUME WalkInv, Pause PROVE WalkInv'
BY NoBatch, WalkMoves DEF Pause, WalkInv, Types

LEMMA WalkFailsStep == ASSUME WalkInv, WalkFails PROVE WalkInv'
BY NoBatch, WalkMoves DEF WalkFails, WalkInv, Types

LEMMA RestartStep == ASSUME WalkInv, Restart PROVE WalkInv'
<1>1. pass' \in [Passes -> Pass] /\ boot' \in BOOLEAN
  BY ConstantTypes DEF Restart
<1> QED BY <1>1, NoBatch, WalkMoves DEF Restart, WalkInv

-----------------------------------------------------------------------------
(* A pass.                                                                  *)

\* A step of a pass leaves the rows the walk finalized alone, but for those it deletes.
LEMMA PassKeeps ==
  ASSUME WalkInv, UNCHANGED <<chainVars, walk, boot>>, pass' \in [Passes -> Pass],
         rows' \in [Keys -> Row],
         \A k \in Keys : rows'[k].fin \in Source => rows'[k] = rows[k]
  PROVE  WalkInv'
<1>1. UNCHANGED <<head, final, at, forks, top, deep>>
  BY DEF chainVars
<1>2. Types' /\ BelowHead'
  BY <1>1 DEF WalkInv, Types, BelowHead
<1>3. BatchHolds'
  BY <1>1 DEF WalkInv, BatchHolds, BatchTo, Heard, Counts
<1>4. WalkedBelowFinal'
  BY <1>1 DEF WalkInv, WalkedBelowFinal, Heard, Counts, InPlace
<1> QED BY <1>2, <1>3, <1>4 DEF WalkInv

\* Goes(p, s) with a state of a pass writes the table of passes.
LEMMA GoesType ==
  ASSUME Types, NEW p \in Passes, NEW s \in Pass, Goes(p, s)
  PROVE  /\ pass' \in [Passes -> Pass] /\ pass'[p] = s
         /\ \A q \in Passes : q # p => pass'[q] = pass[q]
BY DEF Types, Goes

LEMMA ReadFinalIs ==
  ASSUME Types, NEW p \in Passes, ReadFinal(p)
  PROVE  \E s \in Pass : /\ Goes(p, s) /\ s.pc = "rows" /\ Heard(s.by, s.upto)
                         /\ s.pending = {} /\ s.gone = {} /\ s.kept = {}
<1>1. PICK f \in FinalHeads : Goes(p, [NoPass EXCEPT !.pc = "rows", !.upto = f[1], !.by = f[2]])
  BY DEF ReadFinal
<1> DEFINE s == [NoPass EXCEPT !.pc = "rows", !.upto = f[1], !.by = f[2]]
<1>2. /\ s \in Pass /\ s.pc = "rows" /\ s.by = f[2] /\ s.upto = f[1]
      /\ s.pending = {} /\ s.gone = {} /\ s.kept = {}
  BY FinalHeadsAre DEF NoPass, Pass
<1>3. Heard(f[2], f[1]) /\ Goes(p, s)
  BY <1>1, FinalHeadsAre
<1> HIDE DEF s
<1> QED BY <1>2, <1>3

LEMMA BeginPassStep == ASSUME WalkInv, NEW p \in Passes, EndPass(p) \/ BootPass(p) PROVE WalkInv'
<1>1. pass' \in [Passes -> Pass]
  BY ReadFinalIs, GoesType DEF EndPass, BootPass, WalkInv
<1>2. CASE EndPass(p)
  BY <1>1, <1>2, NoBatch, WalkMoves DEF EndPass, WalkInv, Types
<1>3. CASE BootPass(p)
  <2>1. walk' \in Walk /\ BatchHolds' /\ boot' \in BOOLEAN /\ UNCHANGED <<chainVars, rows>>
    BY <1>3 DEF BootPass, WalkInv, Types, BatchHolds, BatchTo, Heard, Counts, chainVars
  <2> QED BY <1>1, <2>1, WalkMoves
<1> QED BY <1>2, <1>3

LEMMA SelectStep == ASSUME WalkInv, NEW p \in Passes, Select(p) PROVE WalkInv'
<1> DEFINE S == Unfinalized(pass[p].upto)
<1>1. PICK T \in Oldest(S) :
        Goes(p, IF S = {} THEN NoPass ELSE [pass[p] EXCEPT !.pc = "receipts", !.pending = T])
  BY DEF Select
<1>2. T \subseteq Keys /\ pass[p] \in Pass
  BY DEF Oldest, Unfinalized, WalkInv, Types
<1>3. (IF S = {} THEN NoPass ELSE [pass[p] EXCEPT !.pc = "receipts", !.pending = T]) \in Pass
  BY <1>2, ConstantTypes DEF Pass
<1> QED BY <1>1, <1>3, GoesType, PassKeeps DEF Select, WalkInv, Types

LEMMA ReceiptStep == ASSUME WalkInv, NEW p \in Passes, NEW t \in Txs, Receipt(p, t) PROVE WalkInv'
<1>1. [pass[p] EXCEPT !.pending = @ \ OfTx(p, t),
                      !.kept = @ \cup {k \in OfTx(p, t) : OnChain(k)},
                      !.gone = @ \cup {k \in OfTx(p, t) : ~OnChain(k)}] \in Pass
  BY DEF WalkInv, Types, Pass, OfTx
<1> QED BY <1>1, GoesType, PassKeeps DEF Receipt, WalkInv, Types

LEMMA NoReceiptStep ==
  ASSUME WalkInv, NEW p \in Passes, NEW t \in Txs, NoReceipt(p, t) PROVE WalkInv'
<1>1. [pass[p] EXCEPT !.pending = @ \ OfTx(p, t)] \in Pass
  BY DEF WalkInv, Types, Pass
<1> QED BY <1>1, GoesType, PassKeeps DEF NoReceipt, WalkInv, Types

LEMMA DeleteStep == ASSUME WalkInv, NEW p \in Passes, Delete(p) PROVE WalkInv'
<1>1. [pass[p] EXCEPT !.pc = "promote", !.gone = {}] \in Pass
  BY DEF WalkInv, Types, Pass
<1>2. rows' \in [Keys -> Row] /\ \A k \in Keys : rows'[k].fin \in Source => rows'[k] = rows[k]
  BY ConstantTypes DEF Delete, WalkInv, Types, NoRow, Source
<1> QED BY <1>1, <1>2, GoesType, PassKeeps DEF Delete, WalkInv

LEMMA PromoteStep == ASSUME WalkInv, NEW p \in Passes, Promote(p) PROVE WalkInv'
<1>1. ASSUME NEW k \in Keys
      PROVE  rows'[k] \in Row /\ (rows'[k].fin \in Source => rows'[k] = rows[k])
  <2>1. rows'[k] = IF k \in pass[p].kept /\ rows[k].fin = "no"
                   THEN [rows[k] EXCEPT !.fin = "pass"] ELSE rows[k]
    BY DEF Promote
  <2>2. rows[k] \in Row
    BY DEF WalkInv, Types
  <2> QED BY <2>1, <2>2 DEF Row, NoRow, Source
<1>2. rows' \in [Keys -> Row]
  BY <1>1 DEF Promote
<1> QED BY <1>1, <1>2, ConstantTypes, GoesType, PassKeeps DEF Promote, WalkInv

LEMMA PassFailsStep == ASSUME WalkInv, NEW p \in Passes, PassFails(p) PROVE WalkInv'
<1>1. pass' \in [Passes -> Pass]
  BY ConstantTypes, GoesType DEF PassFails, WalkInv
<1>2. \A k \in Keys : rows'[k] = rows[k]
  BY DEF PassFails
<1> QED BY <1>1, <1>2, PassKeeps DEF PassFails, WalkInv, Types

-----------------------------------------------------------------------------
(* The cap on what a pass selects.                                          *)

\* The rows a pass is at are none before it selects them, and no more than the cap.
Selected(s) == s.pending \cup s.gone \cup s.kept

PassCapped ==
  \A p \in Passes :
    /\ Cardinality(Selected(pass[p])) <= RowCap
    /\ pass[p].pc \in {"idle", "rows"} => Selected(pass[p]) = {}

LEMMA KeysFinite == IsFiniteSet(Keys)
BY FiniteAssumption, FS_Product DEF Keys

LEMMA FewerCapped ==
  ASSUME NEW S \in SUBSET Keys, NEW T \in SUBSET S, Cardinality(S) <= RowCap
  PROVE  Cardinality(T) <= RowCap
<1>1. IsFiniteSet(S)
  BY KeysFinite, FS_Subset
<1>2. IsFiniteSet(T) /\ Cardinality(T) <= Cardinality(S)
  BY <1>1, FS_Subset
<1>3. Cardinality(S) \in Int /\ Cardinality(T) \in Int
  BY <1>1, <1>2, FS_CardinalityType
<1> QED BY <1>2, <1>3, ConstantTypes

LEMMA OldestCapped ==
  ASSUME NEW S \in SUBSET Keys, NEW T \in Oldest(S)
  PROVE  T \subseteq S /\ Cardinality(T) <= RowCap
<1>1. Cardinality(S) \in Int
  BY KeysFinite, FS_Subset, FS_CardinalityType
<1>2. T \subseteq S /\ Cardinality(T) = IF Cardinality(S) < RowCap THEN Cardinality(S) ELSE RowCap
  BY DEF Oldest
<1> QED BY <1>1, <1>2, ConstantTypes

LEMMA EmptyCapped == Cardinality({}) <= RowCap
BY FS_EmptySet, ConstantTypes

LEMMA PassCappedInit == Init => PassCapped
<1>1. Selected(NoPass) = {}
  BY DEF Selected, NoPass
<1> QED BY <1>1, EmptyCapped DEF Init, PassCapped

\* A step that takes pass p to s keeps the cap when s is within it.
LEMMA GoesCapped ==
  ASSUME Types, PassCapped, NEW p \in Passes, NEW s \in Pass, Goes(p, s),
         Cardinality(Selected(s)) <= RowCap, s.pc \in {"idle", "rows"} => Selected(s) = {}
  PROVE  PassCapped'
<1> SUFFICES ASSUME NEW q \in Passes
             PROVE  /\ Cardinality(Selected(pass'[q])) <= RowCap
                    /\ pass'[q].pc \in {"idle", "rows"} => Selected(pass'[q]) = {}
  BY DEF PassCapped, Selected
<1>1. pass'[q] = IF q = p THEN s ELSE pass[q]
  BY GoesType
<1> QED BY <1>1 DEF PassCapped

LEMMA PassCappedStep ==
  ASSUME Types, PassCapped, NEW p \in Passes, EndPass(p) \/ BootPass(p) \/ PassStep(p)
  PROVE  PassCapped'
<1>1. pass[p] \in Pass /\ Selected(pass[p]) \in SUBSET Keys
  BY DEF Types, Pass, Selected
<1>2. CASE Goes(p, NoPass)
  BY <1>2, EmptyCapped, ConstantTypes, GoesCapped DEF NoPass, Selected
<1>3. CASE EndPass(p) \/ BootPass(p)
  <2>1. PICK s \in Pass : Goes(p, s) /\ s.pending = {} /\ s.gone = {} /\ s.kept = {}
    BY <1>3, ReadFinalIs DEF EndPass, BootPass
  <2>2. Selected(s) = {}
    BY <2>1 DEF Selected
  <2> QED BY <2>1, <2>2, EmptyCapped, GoesCapped
<1>4. CASE Select(p)
  <2> DEFINE S == Unfinalized(pass[p].upto)
  <2>1. PICK T \in Oldest(S) :
          Goes(p, IF S = {} THEN NoPass ELSE [pass[p] EXCEPT !.pc = "receipts", !.pending = T])
    BY <1>4 DEF Select
  <2>2. T \subseteq Keys /\ Cardinality(T) <= RowCap
    BY OldestCapped DEF Unfinalized
  <2> DEFINE s == [pass[p] EXCEPT !.pc = "receipts", !.pending = T]
  <2>3. s \in Pass /\ s.pc = "receipts" /\ Selected(s) = T
    BY <1>4, <1>1, <2>2 DEF Select, Pass, PassCapped, Selected
  <2>4. CASE S # {}
    <3>1. Goes(p, s)
      BY <2>1, <2>4
    <3> HIDE DEF s
    <3> QED BY <2>2, <2>3, <3>1, GoesCapped
  <2> QED BY <2>1, <2>4, <1>2
<1>5. ASSUME NEW t \in Txs, Receipt(p, t) PROVE PassCapped'
  <2> DEFINE s == [pass[p] EXCEPT !.pending = @ \ OfTx(p, t),
                                  !.kept = @ \cup {k \in OfTx(p, t) : OnChain(k)},
                                  !.gone = @ \cup {k \in OfTx(p, t) : ~OnChain(k)}]
  <2>1. s \in Pass /\ s.pc = "receipts" /\ Selected(s) \subseteq Selected(pass[p])
    BY <1>1, <1>5 DEF Receipt, Pass, Selected, OfTx
  <2>2. Goes(p, s)
    BY <1>5 DEF Receipt
  <2> HIDE DEF s
  <2> QED BY <1>1, <2>1, <2>2, FewerCapped, GoesCapped DEF PassCapped
<1>6. ASSUME NEW t \in Txs, NoReceipt(p, t) PROVE PassCapped'
  <2> DEFINE s == [pass[p] EXCEPT !.pending = @ \ OfTx(p, t)]
  <2>1. s \in Pass /\ s.pc = "receipts" /\ Selected(s) \subseteq Selected(pass[p])
    BY <1>1, <1>6 DEF NoReceipt, Pass, Selected
  <2>2. Goes(p, s)
    BY <1>6 DEF NoReceipt
  <2> HIDE DEF s
  <2> QED BY <1>1, <2>1, <2>2, FewerCapped, GoesCapped DEF PassCapped
<1>7. CASE Delete(p)
  <2> DEFINE s == [pass[p] EXCEPT !.pc = "promote", !.gone = {}]
  <2>1. s \in Pass /\ s.pc = "promote" /\ Selected(s) \subseteq Selected(pass[p])
    BY <1>1 DEF Pass, Selected
  <2>2. Goes(p, s)
    BY <1>7 DEF Delete
  <2> HIDE DEF s
  <2> QED BY <1>1, <2>1, <2>2, FewerCapped, GoesCapped DEF PassCapped
<1>8. CASE Promote(p) \/ PassFails(p)
  BY <1>8, <1>2 DEF Promote, PassFails
<1> QED BY <1>3, <1>4, <1>5, <1>6, <1>7, <1>8 DEF PassStep

-----------------------------------------------------------------------------
(* The invariant.                                                           *)

ReorgInv == WalkInv /\ PassCapped

LEMMA ReorgInvInit == Init => ReorgInv
BY WalkInvInit, PassCappedInit DEF ReorgInv

LEMMA ReorgInvStep ==
  ASSUME ReorgInv, [Next]_vars
  PROVE  ReorgInv'
<1>0. WalkInv /\ Types /\ BelowHead /\ PassCapped
  BY DEF ReorgInv, WalkInv
<1>1. CASE Mine \/ Finalize \/ Reorg
  <2>1. UNCHANGED <<rows, walk, pass, boot>>
    BY <1>1 DEF Mine, Finalize, Reorg
  <2>2. Types' /\ BelowHead' /\ SettledPlaces /\ Onward
    BY <1>0, <1>1, MineKeeps, FinalizeKeeps, ReorgKeeps
  <2>3. PassCapped'
    BY <1>0, <2>1 DEF PassCapped
  <2> QED BY <1>0, <2>1, <2>2, <2>3, ChainStep DEF ReorgInv
<1>2. CASE WalkStep
  <2>1. WalkInv'
    BY <1>0, <1>2, BeginStep, FetchStep, InsertStep, MarkStep, PauseStep, WalkFailsStep DEF WalkStep
  <2>2. PassCapped'
    BY <1>0, <1>2 DEF WalkStep, Begin, Fetch, Insert, Mark, Pause, WalkFails, PassCapped
  <2> QED BY <2>1, <2>2 DEF ReorgInv
<1>3. CASE Restart
  <2>1. Selected(NoPass) = {}
    BY DEF Selected, NoPass
  <2>2. PassCapped'
    BY <1>3, <2>1, EmptyCapped DEF Restart, PassCapped
  <2> QED BY <1>0, <1>3, <2>2, RestartStep DEF ReorgInv
<1>4. ASSUME NEW p \in Passes, EndPass(p) \/ BootPass(p) \/ PassStep(p) PROVE ReorgInv'
  <2>1. WalkInv'
    BY <1>0, <1>4, BeginPassStep, SelectStep, ReceiptStep, NoReceiptStep, DeleteStep, PromoteStep,
       PassFailsStep DEF PassStep
  <2> QED BY <1>0, <1>4, <2>1, PassCappedStep DEF ReorgInv
<1>5. CASE UNCHANGED vars
  <2>1. Types' /\ BelowHead' /\ PassCapped'
    BY <1>0, <1>5 DEF vars, chainVars, WalkInv, Types, BelowHead, PassCapped
  <2>2. BatchHolds' /\ WalkedBelowFinal'
    BY <1>0, <1>5 DEF vars, chainVars, WalkInv, BatchHolds, BatchTo, WalkedBelowFinal, Heard,
       Counts, InPlace
  <2> QED BY <2>1, <2>2 DEF ReorgInv, WalkInv
<1> QED BY <1>1, <1>2, <1>3, <1>4, <1>5 DEF Next

LEMMA ReorgInvAlways == Spec => []ReorgInv
BY ReorgInvInit, ReorgInvStep, PTL DEF Spec

\* A row the walk stored as finalized is on the chain, at the block and the index it says, for
\* every schedule of reorganisations, walks and passes: the finalized head of
\* startIndexingRange is read before the logs it is compared with.  Where that head was the
\* estimate this holds until a reorganisation goes deeper than Lag below the highest head.
THEOREM WalkedFinalHolds == Spec => []WalkedFinal
<1>1. ASSUME ReorgInv PROVE WalkedFinal
  <2>1. TypeOK
    BY <1>1 DEF ReorgInv, WalkInv, Types, PassCapped, Selected, TypeOK
  <2>2. ASSUME NEW k \in Keys, rows[k].fin = "node" \/ (rows[k].fin = "guess" /\ ~deep)
        PROVE  InPlace(k)
    BY <1>1, <2>2 DEF ReorgInv, WalkInv, WalkedBelowFinal, Source, Counts
  <2> QED BY <2>1, <2>2 DEF WalkedFinal
<1> QED BY <1>1, ReorgInvAlways, PTL

-----------------------------------------------------------------------------
(* What a pass deletes, with one pass at a time.                            *)

OnePass == \A p, q \in Passes : p = q

\* A row a pass has yet to ask about, or is to delete, is there, at or below the finalized head
\* the pass went by; and one it is to delete is not on the chain there, as long as that head
\* counts.
PassDoomed(s) ==
  /\ s \in Pass
  /\ Heard(s.by, s.upto)
  /\ s.pc # "receipts" => s.pending = {} /\ s.gone = {}
  /\ \A k \in s.pending \cup s.gone : Stored(k) /\ rows[k].n <= s.upto
  /\ \A k \in s.gone : Counts(s.by) /\ OnChain(k) => at[k[1]].n > s.upto

Doomed == \A p \in Passes : PassDoomed(pass[p])

LEMMA NoPassDoomed ==
  ASSUME Types
  PROVE  PassDoomed(NoPass)
<1>1. NoPass.by = "node" /\ NoPass.upto = 0 /\ NoPass.pending = {} /\ NoPass.gone = {}
  BY DEF NoPass
<1> QED BY <1>1, ConstantTypes, ChainTypes DEF PassDoomed, Heard

LEMMA DoomedInit == Init => Doomed
<1>1. Init => Types
  BY WalkInvInit DEF WalkInv
<1> QED BY <1>1, NoPassDoomed DEF Init, Doomed

\* The chain takes no log to the part that counts as final.
LEMMA DoomedByChain ==
  ASSUME Types, BelowHead, Doomed, Mine \/ Finalize \/ Reorg
  PROVE  Doomed'
<1> SUFFICES ASSUME NEW p \in Passes PROVE PassDoomed(pass[p])'
  BY DEF Doomed
<1>1. /\ rows' = rows /\ pass' = pass
      /\ PassDoomed(pass[p]) /\ pass[p].upto \in Int /\ pass[p].gone \subseteq Keys
  BY DEF Mine, Finalize, Reorg, Doomed, PassDoomed, Pass
<1>2. Types' /\ Onward
  BY MineKeeps, FinalizeKeeps, ReorgKeeps
<1>3. Heard(pass[p].by, pass[p].upto)'
  <2>1. Heard(pass[p].by, pass[p].upto)
    BY <1>1 DEF PassDoomed
  <2> QED BY <1>1, <1>2, <2>1, HeardOnward DEF Heard
<1>4. ASSUME NEW t \in Txs
      PROVE  at'[t] = at[t] \/ at'[t].n = 0 \/ (Mine /\ at'[t].n = head + 1)
  <2>1. CASE Mine
    <3>1. PICK T \in SUBSET {u \in Txs : at[u] = Nowhere} : \E place \in [T -> Places] :
            at' = [u \in Txs |-> IF u \in T THEN [n |-> head + 1, i |-> place[u]] ELSE at[u]]
      BY <2>1 DEF Mine
    <3>2. PICK place \in [T -> Places] :
            at' = [u \in Txs |-> IF u \in T THEN [n |-> head + 1, i |-> place[u]] ELSE at[u]]
      BY <3>1
    <3> QED BY <3>2, <2>1
  <2>2. CASE Finalize
    BY <2>2 DEF Finalize
  <2>3. CASE Reorg
    BY <2>3 DEF Reorg, Nowhere
  <2> QED BY <2>1, <2>2, <2>3
<1>5. ASSUME NEW k \in pass[p].gone, Counts(pass[p].by)', OnChain(k)'
      PROVE  at'[k[1]].n > pass[p].upto
  <2>1. k[1] \in Txs /\ at'[k[1]].n # 0
    BY <1>1, <1>5 DEF Keys, OnChain
  <2>2. Counts(pass[p].by)
    BY <1>1, <1>2, <1>5 DEF Counts, Onward
  <2>3. CASE at'[k[1]] = at[k[1]]
    BY <1>1, <1>5, <2>2, <2>3 DEF PassDoomed, OnChain
  <2>4. CASE Mine /\ at'[k[1]].n = head + 1
    <3>1. pass[p].upto <= head
      BY <1>1, <2>2, ChainTypes DEF PassDoomed, Heard, Counts, BelowHead
    <3> QED BY <1>1, <2>4, <3>1, ChainTypes
  <2> QED BY <1>4, <2>1, <2>3, <2>4
<1> QED BY <1>1, <1>3, <1>5 DEF PassDoomed, Stored, Counts

\* The walk leaves the rows that are there as they are.
LEMMA DoomedByWalk ==
  ASSUME Types, Doomed, WalkStep
  PROVE  Doomed'
<1>1. \A k \in Keys : Stored(k) => rows'[k] = rows[k]
  BY DEF WalkStep, Begin, Fetch, Insert, Mark, Pause, WalkFails
<1>2. UNCHANGED <<final, top, deep, at, pass>>
  BY DEF WalkStep, Begin, Fetch, Insert, Mark, Pause, WalkFails, chainVars
<1> SUFFICES ASSUME NEW p \in Passes PROVE PassDoomed(pass[p])'
  BY DEF Doomed
<1>3. pass[p].pending \subseteq Keys /\ pass[p].gone \subseteq Keys /\ PassDoomed(pass[p])
  BY DEF Doomed, PassDoomed, Pass
<1> QED BY <1>1, <1>2, <1>3 DEF PassDoomed, Stored, OnChain, Heard, Counts

\* A step that takes the one pass to s, and the rows it is at nowhere.
LEMMA GoesDoomed ==
  ASSUME OnePass, Types, UNCHANGED <<final, top, deep, at>>, NEW p \in Passes, NEW s \in Pass,
         Goes(p, s), PassDoomed(s), rows' = rows \/ s.pending \cup s.gone = {}
  PROVE  Doomed'
<1>1. \A q \in Passes : pass'[q] = s
  BY GoesType DEF OnePass
<1> QED BY <1>1 DEF Doomed, PassDoomed, Stored, OnChain, Heard, Counts

LEMMA DoomedByPass ==
  ASSUME OnePass, Types, Doomed, NEW p \in Passes, EndPass(p) \/ BootPass(p) \/ PassStep(p)
  PROVE  Doomed'
<1>1. pass[p] \in Pass /\ PassDoomed(pass[p]) /\ pass[p].upto \in Int
  BY DEF Types, Doomed, Pass
<1>2. UNCHANGED <<final, top, deep, at>>
  BY DEF EndPass, BootPass, PassStep, Select, Delete, Promote, PassFails, Receipt, NoReceipt, chainVars
<1>3. CASE Goes(p, NoPass)
  <2>1. NoPass.pending \cup NoPass.gone = {}
    BY DEF NoPass
  <2> QED BY <1>2, <1>3, <2>1, NoPassDoomed, ConstantTypes, GoesDoomed
<1>4. CASE EndPass(p) \/ BootPass(p)
  <2>1. PICK s \in Pass : /\ Goes(p, s) /\ s.pc = "rows" /\ Heard(s.by, s.upto)
                         /\ s.pending = {} /\ s.gone = {}
    BY <1>4, ReadFinalIs DEF EndPass, BootPass
  <2>2. PassDoomed(s)
    BY <2>1 DEF PassDoomed
  <2>3. s.pending \cup s.gone = {}
    BY <2>1
  <2> QED BY <1>2, <2>1, <2>2, <2>3, GoesDoomed
<1>5. CASE Select(p)
  <2> DEFINE S == Unfinalized(pass[p].upto)
  <2>1. PICK T \in Oldest(S) :
          Goes(p, IF S = {} THEN NoPass ELSE [pass[p] EXCEPT !.pc = "receipts", !.pending = T])
    BY <1>5 DEF Select
  <2>2. T \subseteq Keys /\ \A k \in T : Stored(k) /\ rows[k].n <= pass[p].upto
    BY DEF Oldest, Unfinalized, Stored, NoRow
  <2> DEFINE s == [pass[p] EXCEPT !.pc = "receipts", !.pending = T]
  <2>3. s \in Pass /\ PassDoomed(s)
    BY <1>5, <1>1, <2>2 DEF Select, Pass, PassDoomed
  <2>4. CASE S # {}
    <3>1. Goes(p, s) /\ rows' = rows
      BY <1>5, <2>1, <2>4 DEF Select
    <3> HIDE DEF s
    <3> QED BY <1>2, <2>3, <3>1, GoesDoomed
  <2> QED BY <2>1, <2>4, <1>3
<1>6. ASSUME NEW t \in Txs, Receipt(p, t) PROVE Doomed'
  <2> DEFINE s == [pass[p] EXCEPT !.pending = @ \ OfTx(p, t),
                                  !.kept = @ \cup {k \in OfTx(p, t) : OnChain(k)},
                                  !.gone = @ \cup {k \in OfTx(p, t) : ~OnChain(k)}]
  <2>1. /\ s \in Pass /\ s.pc = "receipts" /\ s.upto = pass[p].upto /\ s.by = pass[p].by
        /\ s.pending \cup s.gone \subseteq pass[p].pending \cup pass[p].gone
        /\ \A k \in s.gone : k \in pass[p].gone \/ ~OnChain(k)
    BY <1>1, <1>6 DEF Receipt, Pass, OfTx
  <2>2. Goes(p, s) /\ rows' = rows
    BY <1>6 DEF Receipt
  <2> HIDE DEF s
  <2>3. PassDoomed(s)
    BY <1>1, <2>1 DEF PassDoomed
  <2> QED BY <1>2, <2>1, <2>2, <2>3, GoesDoomed
<1>7. ASSUME NEW t \in Txs, NoReceipt(p, t) PROVE Doomed'
  <2> DEFINE s == [pass[p] EXCEPT !.pending = @ \ OfTx(p, t)]
  <2>1. s \in Pass /\ PassDoomed(s)
    BY <1>1, <1>7 DEF NoReceipt, Pass, PassDoomed
  <2>2. Goes(p, s) /\ rows' = rows
    BY <1>7 DEF NoReceipt
  <2> HIDE DEF s
  <2> QED BY <1>2, <2>1, <2>2, GoesDoomed
<1>8. CASE Delete(p)
  <2> DEFINE s == [pass[p] EXCEPT !.pc = "promote", !.gone = {}]
  <2>1. s \in Pass /\ s.pending = {} /\ s.gone = {} /\ s.upto = pass[p].upto /\ s.by = pass[p].by
    BY <1>1, <1>8 DEF Delete, Pass
  <2>2. Goes(p, s)
    BY <1>8 DEF Delete
  <2> HIDE DEF s
  <2>3. PassDoomed(s)
    BY <1>1, <2>1 DEF PassDoomed
  <2> QED BY <1>2, <2>1, <2>2, <2>3, GoesDoomed
<1>9. CASE Promote(p) \/ PassFails(p)
  BY <1>9, <1>3 DEF Promote, PassFails
<1> QED BY <1>4, <1>5, <1>6, <1>7, <1>8, <1>9 DEF PassStep

LEMMA DoomedStep ==
  ASSUME OnePass, ReorgInv, Doomed, [Next]_vars
  PROVE  Doomed'
<1>1. Types /\ BelowHead
  BY DEF ReorgInv, WalkInv
<1>2. CASE UNCHANGED vars
  BY <1>2 DEF vars, chainVars, Doomed, PassDoomed, Stored, OnChain, Heard, Counts
<1>3. CASE Restart
  <2>1. \A p \in Passes : pass'[p] = NoPass
    BY <1>3 DEF Restart
  <2>2. UNCHANGED <<final, top, deep, at, rows>> /\ PassDoomed(NoPass)
    BY <1>1, <1>3, NoPassDoomed DEF Restart, chainVars
  <2> QED BY <2>1, <2>2 DEF Doomed, PassDoomed, Stored, OnChain, Heard, Counts
<1> QED BY <1>1, <1>2, <1>3, DoomedByChain, DoomedByWalk, DoomedByPass DEF Next

\* No step deletes the row of a log that is where the row says, but for a pass whose estimate
\* counts no more.
GoodRowKept ==
  \A k \in Keys :
    Stored(k) /\ InPlace(k) /\ rows[k].n <= final =>
      Stored(k)' \/ (deep /\ \E p \in Passes : pass[p].by = "guess" /\ k \in pass[p].gone)

LEMMA GoodRowsStep ==
  ASSUME ReorgInv, Doomed, [Next]_vars
  PROVE  GoodRowKept
<1> SUFFICES ASSUME NEW k \in Keys, Stored(k), InPlace(k)
             PROVE  Stored(k)' \/ (deep /\ \E p \in Passes : pass[p].by = "guess" /\ k \in pass[p].gone)
  BY DEF GoodRowKept
<1>1. CASE UNCHANGED rows
  BY <1>1 DEF Stored
<1>2. CASE Insert
  BY <1>2 DEF Insert, Stored
<1>3. ASSUME NEW p \in Passes, Delete(p)
      PROVE  Stored(k)' \/ (deep /\ pass[p].by = "guess" /\ k \in pass[p].gone)
  <2>1. rows[k].n \in Heights /\ pass[p].upto \in Int /\ pass[p].by \in Source
    BY DEF ReorgInv, WalkInv, Types, Row, Stored, Pass
  <2>2. OnChain(k) /\ at[k[1]].n = rows[k].n
    BY <2>1 DEF OnChain, Heights, InPlace
  <2>3. ASSUME k \in pass[p].gone, Counts(pass[p].by) PROVE FALSE
    BY <2>1, <2>2, <2>3 DEF Doomed, PassDoomed, Heights
  <2> QED BY <1>3, <2>1, <2>3 DEF Delete, Stored, Counts, Source
<1>4. ASSUME NEW p \in Passes, Promote(p) PROVE Stored(k)'
  <2>1. rows'[k] = rows[k] \/ rows'[k] = [rows[k] EXCEPT !.fin = "pass"]
    BY <1>4 DEF Promote
  <2>2. rows[k] \in [n : Heights, fin : {"no", "node", "guess", "pass"}]
    BY DEF ReorgInv, WalkInv, Types, Row, Stored
  <2> QED BY <2>1, <2>2 DEF Stored, NoRow
<1>5. CASE Next
  <2>1. \/ UNCHANGED rows \/ Insert
        \/ \E p \in Passes : Delete(p) \/ Promote(p)
    BY <1>5 DEF Next, Mine, Finalize, Reorg, WalkStep, Begin, Fetch, Mark, Pause, WalkFails, Restart,
       EndPass, BootPass, PassStep, Select, PassFails, Receipt, NoReceipt
  <2> QED BY <2>1, <1>1, <1>2, <1>3, <1>4
<1> QED BY <1>1, <1>5 DEF vars

\* One pass at a time deletes no row of a log that is in a finalized block where the row says,
\* however old the receipt it goes by: reconcileReorgedEvents asks about rows at or below a
\* finalized head only, and no reorganisation brings a log there.  A pass that goes by the
\* estimate is excepted once a reorganisation went deeper than Lag below the highest head.
THEOREM GoodRowsStayHolds ==
  ASSUME OnePass
  PROVE  Spec => GoodRowsStay
<1>1. Spec => []Doomed
  BY DoomedInit, DoomedStep, ReorgInvAlways, PTL DEF Spec
<1>2. ReorgInv /\ Doomed /\ [Next]_vars => [GoodRowKept]_vars
  BY GoodRowsStep
<1>3. Spec => [][GoodRowKept]_vars
  BY <1>1, <1>2, ReorgInvAlways, PTL DEF Spec
<1> QED BY <1>3 DEF GoodRowsStay, GoodRowKept
=============================================================================
