--------------------------- MODULE LogFetch_proofs ---------------------------
(***************************************************************************)
(* Theorems about LogFetch: its types, the shape of what a fetch has       *)
(* pushed, and that it implements WindowFetch.                             *)
(***************************************************************************)
EXTENDS LogFetch, TLAPS

USE SpansAssumption DEF Blocks, Spans, Unknown

-----------------------------------------------------------------------------
(* Lemmas about the spans.                                                  *)

\* Above the floor, halving gives a smaller span that is not below the floor.
LEMMA HalvedBounds ==
  ASSUME NEW s \in Spans, s > MinSpan
  PROVE  Halved(s) \in Spans /\ Halved(s) < s /\ MinSpan <= Halved(s)
BY DEF Halved

\* A sub-span starts at the cursor and ends within the window.
LEMMA SpanToBounds ==
  ASSUME NEW f \in Fetch, f.cursor <= f.to
  PROVE  SpanTo(f) \in Blocks /\ f.cursor <= SpanTo(f) /\ SpanTo(f) <= f.to
BY DEF SpanTo, Fetch

LEMMA FirstSpanBounds ==
  ASSUME NEW f \in Fetch, f.from <= f.to, f.to - f.from < MaxWindow,
         ceiling \in Spans \cup {Unknown}
  PROVE  FirstSpan(f) \in Spans
BY DEF FirstSpan, Length, Fetch

LEMMA Zeros == 0 \in 0..(MaxRetry - 1) /\ 1 \in Spans /\ Blocks \subseteq 0..(MaxBlock + 1)
OBVIOUS

\* The fetch a Begin leaves, and the one a halving leaves.
LEMMA Begun ==
  ASSUME NEW lo \in Blocks, NEW hi \in Blocks
  PROVE  LET g == [NoFetch EXCEPT !.pc = "ceiling", !.from = lo, !.to = hi, !.cursor = lo] IN
         /\ g \in Fetch
         /\ g.pc = "ceiling" /\ g.from = lo /\ g.to = hi /\ g.cursor = lo /\ g.got = {}
<1>1. [NoFetch EXCEPT !.pc = "ceiling", !.from = lo, !.to = hi, !.cursor = lo] \in Fetch
  <2> HIDE SpansAssumption DEF Blocks, Spans
  <2> QED
    BY Zeros DEF NoFetch, Fetch
<1> QED
  BY <1>1 DEF NoFetch

LEMMA Narrowed ==
  ASSUME NEW f \in Fetch, NEW span \in Spans
  PROVE  LET g == [f EXCEPT !.span = span, !.attempt = 0] IN
         /\ g \in Fetch
         /\ g.pc = f.pc /\ g.from = f.from /\ g.to = f.to /\ g.cursor = f.cursor
         /\ g.got = f.got
<1> HIDE SpansAssumption DEF Blocks, Spans
<1>1. [f EXCEPT !.span = span, !.attempt = 0] \in Fetch
  BY Zeros DEF Fetch
<1> QED
  BY <1>1 DEF Fetch

LEMMA NoFetchIsFetch == NoFetch \in Fetch
BY DEF NoFetch, Fetch

-----------------------------------------------------------------------------
(* The invariant.                                                           *)

LEMMA InitInv == Init => IInv
<1> SUFFICES ASSUME Init PROVE IInv
  OBVIOUS
<1>1. TypeOK
  BY NoFetchIsFetch DEF Init, TypeOK
<1>2. Narrow /\ Prefix
  BY DEF Init, Narrow, Prefix, NoFetch
<1> QED
  BY <1>1, <1>2 DEF IInv

\* What the invariant says of one fetch.
FetchInv(f) ==
  /\ f \in Fetch
  /\ f.from <= f.to
  /\ f.to - f.from < MaxWindow
  /\ f.pc # "idle" =>
       /\ f.from <= f.cursor /\ f.cursor <= f.to + 1
       /\ f.got = {b \in Blocks : f.from <= b /\ b < f.cursor}
       /\ f.pc = "done" => f.cursor = f.to + 1

LEMMA PerFetch ==
  IInv <=> /\ DOMAIN call = Walks /\ call = [w \in Walks |-> call[w]]
           /\ \A w \in Walks : FetchInv(call[w])
           /\ ceiling \in Spans \cup {Unknown}
           /\ loaded \in BOOLEAN
           /\ stored \in Spans \cup {Unknown}
           /\ writes \subseteq Spans
BY DEF IInv, TypeOK, Narrow, Prefix, FetchInv

LEMMA NoFetchInv == FetchInv(NoFetch)
BY NoFetchIsFetch DEF FetchInv, NoFetch

\* A served sub-span extends what has been pushed up to the new cursor.
LEMMA ServedInv ==
  ASSUME NEW f, FetchInv(f), f.pc = "fetch", NEW s \in Blocks, f.cursor <= s, s <= f.to
  PROVE  FetchInv([f EXCEPT !.got = f.got \cup (f.cursor..s), !.cursor = s + 1, !.attempt = 0])
<1>1. f \in Fetch
  BY DEF FetchInv
<1>2. PICK n : n = f.got \cup (f.cursor..s)
  OBVIOUS
<1>3. n = {b \in Blocks : f.from <= b /\ b < s + 1}
  <2>1. f.got = {b \in Blocks : f.from <= b /\ b < f.cursor} /\ f.from <= f.cursor
    BY DEF FetchInv
  <2>2. f.cursor \in Int /\ f.from \in Int /\ s \in Int /\ 0 <= f.cursor
    BY <1>1 DEF Fetch
  <2>3. f.cursor..s = {b \in Blocks : f.cursor <= b /\ b <= s}
    BY <2>2
  <2> QED
    BY <1>2, <2>1, <2>2, <2>3
<1>4. n \in SUBSET Blocks /\ s + 1 \in 0..(MaxBlock + 1)
  BY <1>3
<1>5. PICK c : c = s + 1
  OBVIOUS
<1> DEFINE g == [f EXCEPT !.got = n, !.cursor = c, !.attempt = 0]
<1>6. /\ g \in Fetch
      /\ g.pc = f.pc /\ g.from = f.from /\ g.to = f.to /\ g.cursor = c /\ g.got = n
  <2>1. c \in 0..(MaxBlock + 1)
    BY <1>4, <1>5
  <2> QED
    <3> HIDE SpansAssumption DEF Blocks, Spans
    <3>1. g \in Fetch
      BY <1>1, <1>4, <2>1, Zeros DEF Fetch
    <3> QED
      BY <1>1, <3>1 DEF Fetch
<1> HIDE DEF g
<1>7. /\ f.from \in Int /\ f.to \in Int /\ f.cursor \in Int
      /\ f.from <= f.to /\ f.to - f.from < MaxWindow /\ f.from <= f.cursor
  BY <1>1 DEF FetchInv, Fetch
<1>8. FetchInv(g)
  BY <1>3, <1>5, <1>6, <1>7 DEF FetchInv
<1> QED
  BY <1>2, <1>5, <1>8 DEF g

\* A step of one walk keeps the invariant if the walk's new fetch keeps it.
LEMMA OneWalkStep ==
  ASSUME IInv, NEW w \in Walks, NEW g, FetchInv(g), call' = [call EXCEPT ![w] = g],
         (ceiling \in Spans \cup {Unknown})', (loaded \in BOOLEAN)',
         (stored \in Spans \cup {Unknown})', (writes \subseteq Spans)'
  PROVE  IInv'
<1>1. call \in [Walks -> Fetch] /\ call' \in [Walks -> Fetch]
  BY DEF IInv, TypeOK, FetchInv
<1>2. \A v \in Walks : FetchInv(call[v])
  BY PerFetch
<1>3. \A v \in Walks : FetchInv(call'[v])
  BY <1>1, <1>2
<1>4. TypeOK'
  BY <1>1 DEF TypeOK
<1>5. Narrow' /\ Prefix'
  BY <1>3 DEF Narrow, Prefix, FetchInv
<1> QED
  BY <1>4, <1>5 DEF IInv

LEMMA StepInv == IInv /\ [Next]_vars => IInv'
<1> SUFFICES ASSUME IInv, [Next]_vars PROVE IInv'
  OBVIOUS
<1> USE DEF IInv, TypeOK
<1>1. ASSUME NEW w \in Walks, Begin(w) PROVE IInv'
  <2>1. PICK lo \in Blocks, hi \in Blocks :
          /\ lo <= hi /\ hi - lo < MaxWindow
          /\ call' = [call EXCEPT ![w] = [NoFetch EXCEPT !.pc = "ceiling", !.from = lo, !.to = hi,
                                                         !.cursor = lo]]
    BY <1>1 DEF Begin
  <2> DEFINE g == [NoFetch EXCEPT !.pc = "ceiling", !.from = lo, !.to = hi, !.cursor = lo]
  <2>2. FetchInv(g)
    <3>1. {} = {b \in Blocks : lo <= b /\ b < lo}
      OBVIOUS
    <3>2. /\ g \in Fetch
          /\ g.pc = "ceiling" /\ g.from = lo /\ g.to = hi /\ g.cursor = lo /\ g.got = {}
      BY Begun
    <3> HIDE DEF g
    <3> QED
      BY <2>1, <3>1, <3>2 DEF FetchInv
  <2> HIDE DEF g
  <2> QED
    BY <2>1, <2>2, OneWalkStep, <1>1 DEF Begin, g
<1>2. ASSUME NEW w \in Walks, NoClient(w) PROVE IInv'
  <2> DEFINE g == [call[w] EXCEPT !.pc = "failed"]
  <2>1. FetchInv(g)
    BY <1>2, PerFetch DEF FetchInv, Fetch, NoClient
  <2>2. call' = [call EXCEPT ![w] = g]
    BY <1>2 DEF NoClient
  <2> HIDE DEF g
  <2> QED
    BY <2>1, <2>2, OneWalkStep, <1>2 DEF NoClient
<1>3. ASSUME NEW w \in Walks, Load(w) PROVE IInv'
  BY <1>3 DEF Load, Narrow, Prefix
<1>4. ASSUME NEW w \in Walks, ReadCeiling(w) PROVE IInv'
  <2> DEFINE g == [call[w] EXCEPT !.pc = "fetch", !.span = FirstSpan(call[w])]
  <2>0. FetchInv(call[w])
    BY PerFetch
  <2>1. FirstSpan(call[w]) \in Spans
    BY <2>0, FirstSpanBounds DEF FetchInv
  <2>2. FetchInv(g)
    BY <1>4, <2>0, <2>1 DEF FetchInv, Fetch, ReadCeiling
  <2>3. call' = [call EXCEPT ![w] = g]
    BY <1>4 DEF ReadCeiling
  <2> HIDE DEF g
  <2> QED
    BY <2>2, <2>3, OneWalkStep, <1>4 DEF ReadCeiling
<1>5. ASSUME NEW w \in Walks, Served(w) PROVE IInv'
  <2> DEFINE f == call[w]
             g == [f EXCEPT !.got = f.got \cup (f.cursor..SpanTo(f)), !.cursor = SpanTo(f) + 1,
                            !.attempt = 0]
  <2>0. FetchInv(f) /\ f.pc = "fetch"
    BY <1>5, PerFetch DEF Served, Fetching
  <2>1. SpanTo(f) \in Blocks /\ f.cursor <= SpanTo(f) /\ SpanTo(f) <= f.to
    BY <1>5, <2>0, SpanToBounds DEF FetchInv, Served, Fetching
  <2>2. FetchInv(g)
    BY <2>0, <2>1, ServedInv
  <2>3. call' = [call EXCEPT ![w] = g]
    BY <1>5 DEF Served
  <2> HIDE DEF g
  <2> QED
    BY <2>2, <2>3, OneWalkStep, <1>5 DEF Served
<1>6. ASSUME NEW w \in Walks, Shrink(w) PROVE IInv'
  <2> DEFINE g == [call[w] EXCEPT !.span = Halved(call[w].span), !.attempt = 0]
  <2>0. FetchInv(call[w])
    BY PerFetch
  <2>1. Halved(call[w].span) \in Spans
    BY <1>6, <2>0, HalvedBounds DEF Shrink, AtFloor, FetchInv, Fetch
  <2>a. call[w] \in Fetch /\ call[w].pc = "fetch"
    BY <1>6, <2>0 DEF FetchInv, Shrink, Fetching
  <2>b. /\ g \in Fetch
        /\ g.pc = "fetch" /\ g.from = call[w].from /\ g.to = call[w].to
        /\ g.cursor = call[w].cursor /\ g.got = call[w].got
    BY <2>a, <2>1, Narrowed
  <2>2. FetchInv(g)
    <3> HIDE DEF g
    <3> QED
      BY <2>0, <2>a, <2>b DEF FetchInv
  <2>3. call' = [call EXCEPT ![w] = g]
    BY <1>6 DEF Shrink
  <2> HIDE DEF g
  <2> QED
    BY <2>1, <2>2, <2>3, OneWalkStep, <1>6 DEF Shrink
<1>7. ASSUME NEW w \in Walks, Retry(w) PROVE IInv'
  <2> DEFINE g == [call[w] EXCEPT !.attempt = @ + 1]
  <2>1. FetchInv(g)
    BY <1>7, PerFetch DEF FetchInv, Fetch, Retry
  <2>2. call' = [call EXCEPT ![w] = g]
    BY <1>7 DEF Retry
  <2> HIDE DEF g
  <2> QED
    BY <2>1, <2>2, OneWalkStep, <1>7 DEF Retry
<1>8. ASSUME NEW w \in Walks, GiveUp(w) PROVE IInv'
  <2> DEFINE g == [call[w] EXCEPT !.pc = "failed"]
  <2>1. FetchInv(g)
    BY <1>8, PerFetch DEF FetchInv, Fetch, GiveUp, Fails, Fetching
  <2>2. call' = [call EXCEPT ![w] = g]
    BY <1>8 DEF GiveUp
  <2> HIDE DEF g
  <2> QED
    BY <2>1, <2>2, OneWalkStep, <1>8 DEF GiveUp
<1>9. ASSUME NEW w \in Walks, Finish(w) PROVE IInv'
  <2> DEFINE g == [call[w] EXCEPT !.pc = "done"]
  <2>1. FetchInv(g)
    BY <1>9, PerFetch DEF FetchInv, Fetch, Finish
  <2>2. call' = [call EXCEPT ![w] = g]
    BY <1>9 DEF Finish
  <2> HIDE DEF g
  <2> QED
    BY <2>1, <2>2, OneWalkStep, <1>9 DEF Finish
<1>10. ASSUME NEW w \in Walks, Return(w) PROVE IInv'
  BY <1>10, NoFetchInv, OneWalkStep DEF Return
<1>11. CASE Persist
  BY <1>11 DEF Persist, Narrow, Prefix
<1>12. CASE Restart
  <2>1. TypeOK'
    BY <1>12, NoFetchIsFetch DEF Restart
  <2>2. Narrow' /\ Prefix'
    BY <1>12 DEF Restart, Narrow, Prefix, NoFetch
  <2> QED
    BY <2>1, <2>2
<1>13. CASE UNCHANGED vars
  BY <1>13 DEF vars, Narrow, Prefix
<1> QED
  BY <1>1, <1>2, <1>3, <1>4, <1>5, <1>6, <1>7, <1>8, <1>9, <1>10, <1>11, <1>12, <1>13
  DEF Next, FetchStep

\* The invariant holds in every behaviour.
THEOREM Invariant == Spec => []IInv
BY InitInv, StepInv, PTL DEF Spec

\* Every variable keeps its type: in particular no span, in memory or restored
\* from the table, is ever 0, which would make a fetch loop for ever.
THEOREM TypeCorrect == Spec => []TypeOK
<1>1. IInv => TypeOK
  BY DEF IInv
<1> QED
  BY <1>1, Invariant, PTL

-----------------------------------------------------------------------------
(* LogFetch implements WindowFetch.                                         *)

LEMMA InitMaps == Init => Window!Init
BY DEF Init, NoFetch, Window!Init, Phases, Windows, Answers, Phase, Asked, Got

\* A step of one walk changes that walk's phase, window and answer only.
LEMMA OneWalkMaps ==
  ASSUME IInv, NEW w \in Walks, NEW g, call' = [call EXCEPT ![w] = g]
  PROVE  /\ Phases'  = [Phases EXCEPT ![w] = Phase(g)]
         /\ Windows' = [Windows EXCEPT ![w] = Asked(g)]
         /\ Answers' = [Answers EXCEPT ![w] = Got(g)]
<1>1. \A v \in Walks : call'[v] = IF v = w THEN g ELSE call[v]
  BY PerFetch
<1>2. Phases' = [Phases EXCEPT ![w] = Phase(g)]
  <2>1. \A v \in Walks : Phases'[v] = IF v = w THEN Phase(g) ELSE Phases[v]
    BY <1>1 DEF Phases
  <2> QED
    BY <2>1 DEF Phases
<1>3. Windows' = [Windows EXCEPT ![w] = Asked(g)]
  <2>1. \A v \in Walks : Windows'[v] = IF v = w THEN Asked(g) ELSE Windows[v]
    BY <1>1 DEF Windows
  <2> QED
    BY <2>1 DEF Windows
<1>4. Answers' = [Answers EXCEPT ![w] = Got(g)]
  <2>1. \A v \in Walks : Answers'[v] = IF v = w THEN Got(g) ELSE Answers[v]
    BY <1>1 DEF Answers
  <2> QED
    BY <2>1 DEF Answers
<1> QED
  BY <1>2, <1>3, <1>4

LEMMA Mapped ==
  ASSUME NEW w \in Walks
  PROVE  Phases[w] = Phase(call[w]) /\ Windows[w] = Asked(call[w]) /\ Answers[w] = Got(call[w])
BY DEF Phases, Windows, Answers

\* Setting an entry to the value it has changes nothing.
LEMMA Idle ==
  ASSUME NEW w \in Walks
  PROVE  /\ [Windows EXCEPT ![w] = Windows[w]] = Windows
         /\ [Answers EXCEPT ![w] = Answers[w]] = Answers
BY DEF Windows, Answers

\* A step of one walk that leaves its phase, window and answer alone is a stutter.
LEMMA OneWalkStutters ==
  ASSUME IInv, NEW w \in Walks, NEW g, call' = [call EXCEPT ![w] = g],
         Phase(g) = Phase(call[w]), Asked(g) = Asked(call[w]), Got(g) = Got(call[w])
  PROVE  UNCHANGED Window!avars
<1>1. \A v \in Walks : call'[v] = IF v = w THEN g ELSE call[v]
  BY PerFetch
<1> QED
  BY <1>1 DEF Phases, Windows, Answers, Window!avars

LEMMA StepMaps == IInv /\ IInv' /\ [Next]_vars => [Window!Next]_(Window!avars)
<1> SUFFICES ASSUME IInv, IInv', [Next]_vars PROVE [Window!Next]_(Window!avars)
  OBVIOUS
<1>1. ASSUME NEW w \in Walks, Begin(w) PROVE Window!Call(w)
  <2>1. PICK lo \in Blocks, hi \in Blocks :
          /\ lo <= hi /\ hi - lo < MaxWindow
          /\ call' = [call EXCEPT ![w] = [NoFetch EXCEPT !.pc = "ceiling", !.from = lo, !.to = hi,
                                                         !.cursor = lo]]
    BY <1>1 DEF Begin
  <2> DEFINE g == [NoFetch EXCEPT !.pc = "ceiling", !.from = lo, !.to = hi, !.cursor = lo]
  <2>2. Phase(g) = "open" /\ Asked(g) = Window!Window(lo, hi) /\ Got(g) = {}
    BY DEF NoFetch, Phase, Asked, Got, Window!Window
  <2>3. Phase(call[w]) = "idle" /\ Got(call[w]) = {}
    BY <1>1 DEF Begin, Phase, Got
  <2> HIDE DEF g
  <2>4. /\ Phases' = [Phases EXCEPT ![w] = "open"]
        /\ Windows' = [Windows EXCEPT ![w] = Window!Window(lo, hi)]
        /\ Answers' = [Answers EXCEPT ![w] = {}]
        /\ Phases[w] = "idle" /\ Answers[w] = {}
    <3>1. call' = [call EXCEPT ![w] = g]
      BY <2>1 DEF g
    <3>2. /\ Phases'  = [Phases EXCEPT ![w] = Phase(g)]
          /\ Windows' = [Windows EXCEPT ![w] = Asked(g)]
          /\ Answers' = [Answers EXCEPT ![w] = Got(g)]
      BY <3>1, OneWalkMaps
    <3> QED
      BY <3>2, <2>2, <2>3, Mapped
  <2>5. Answers' = Answers
    BY <2>4, Idle
  <2> QED
    BY <2>1, <2>4, <2>5 DEF Window!Call
<1>2. ASSUME NEW w \in Walks, NoClient(w) \/ GiveUp(w) PROVE Window!Fail(w)
  <2> DEFINE g == [call[w] EXCEPT !.pc = "failed"]
  <2>0. FetchInv(call[w]) /\ call[w].pc \in {"ceiling", "fetch"} /\ call' = [call EXCEPT ![w] = g]
    BY <1>2, PerFetch DEF NoClient, GiveUp, Fails, Fetching
  <2>1. /\ Phase(g) = "failed" /\ Asked(g) = Asked(call[w]) /\ Got(g) = Got(call[w])
        /\ Phase(call[w]) = "open"
    BY <2>0 DEF FetchInv, Fetch, Phase, Asked, Got
  <2> HIDE DEF g
  <2>2. /\ Phases' = [Phases EXCEPT ![w] = "failed"] /\ Phases[w] = "open"
        /\ Windows' = Windows /\ Answers' = Answers
    <3>1. /\ Phases'  = [Phases EXCEPT ![w] = Phase(g)]
          /\ Windows' = [Windows EXCEPT ![w] = Asked(g)]
          /\ Answers' = [Answers EXCEPT ![w] = Got(g)]
      BY <2>0, OneWalkMaps
    <3> QED
      BY <3>1, <2>1, Mapped, Idle
  <2> QED
    BY <2>2 DEF Window!Fail
<1>3. ASSUME NEW w \in Walks, Finish(w) PROVE Window!Answer(w)
  <2> DEFINE g == [call[w] EXCEPT !.pc = "done"]
  <2>0. /\ FetchInv(call[w]) /\ call[w].pc = "fetch" /\ call[w].cursor > call[w].to
        /\ call' = [call EXCEPT ![w] = g]
    BY <1>3, PerFetch DEF Finish
  <2>1. call[w].got = Asked(call[w])
    BY <2>0 DEF FetchInv, Fetch, Asked
  <2>2. /\ Phase(g) = "done" /\ Asked(g) = Asked(call[w]) /\ Got(g) = Asked(call[w])
        /\ Phase(call[w]) = "open"
    BY <2>0, <2>1 DEF FetchInv, Fetch, Phase, Asked, Got
  <2> HIDE DEF g
  <2>3. /\ Phases' = [Phases EXCEPT ![w] = "done"] /\ Phases[w] = "open"
        /\ Windows' = Windows /\ Answers' = [Answers EXCEPT ![w] = Windows[w]]
    <3>1. /\ Phases'  = [Phases EXCEPT ![w] = Phase(g)]
          /\ Windows' = [Windows EXCEPT ![w] = Asked(g)]
          /\ Answers' = [Answers EXCEPT ![w] = Got(g)]
      BY <2>0, OneWalkMaps
    <3> QED
      BY <3>1, <2>2, Mapped, Idle
  <2> QED
    BY <2>3 DEF Window!Answer
<1>4. ASSUME NEW w \in Walks, Return(w) PROVE Window!Return(w)
  <2>1. Phase(NoFetch) = "idle" /\ Asked(NoFetch) = {} /\ Got(NoFetch) = {}
    BY DEF NoFetch, Phase, Asked, Got
  <2>2. Phase(call[w]) \in {"done", "failed"}
    BY <1>4 DEF Return, Phase
  <2>3. /\ Phases'  = [Phases EXCEPT ![w] = Phase(NoFetch)]
        /\ Windows' = [Windows EXCEPT ![w] = Asked(NoFetch)]
        /\ Answers' = [Answers EXCEPT ![w] = Got(NoFetch)]
    BY <1>4, OneWalkMaps DEF Return
  <2> QED
    BY <2>1, <2>2, <2>3, Mapped DEF Window!Return
<1>5. ASSUME NEW w \in Walks, ReadCeiling(w) PROVE UNCHANGED Window!avars
  <2> DEFINE g == [call[w] EXCEPT !.pc = "fetch", !.span = FirstSpan(call[w])]
  <2>0. FetchInv(call[w]) /\ call[w].pc = "ceiling" /\ call' = [call EXCEPT ![w] = g]
    BY <1>5, PerFetch DEF ReadCeiling
  <2>1. Phase(g) = Phase(call[w]) /\ Asked(g) = Asked(call[w]) /\ Got(g) = Got(call[w])
    BY <2>0 DEF FetchInv, Fetch, Phase, Asked, Got
  <2> HIDE DEF g
  <2> QED
    BY <2>0, <2>1, OneWalkStutters
<1>6. ASSUME NEW w \in Walks, Served(w) PROVE UNCHANGED Window!avars
  <2> DEFINE f == call[w]
             g == [f EXCEPT !.got = f.got \cup (f.cursor..SpanTo(f)), !.cursor = SpanTo(f) + 1,
                            !.attempt = 0]
  <2>0. FetchInv(f) /\ f.pc = "fetch" /\ call' = [call EXCEPT ![w] = g]
    BY <1>6, PerFetch DEF Served, Fetching
  <2>1. Phase(g) = Phase(f) /\ Asked(g) = Asked(f) /\ Got(g) = Got(f)
    BY <2>0 DEF FetchInv, Fetch, Phase, Asked, Got
  <2> HIDE DEF g
  <2> QED
    BY <2>0, <2>1, OneWalkStutters
<1>7. ASSUME NEW w \in Walks, Shrink(w) PROVE UNCHANGED Window!avars
  <2> DEFINE g == [call[w] EXCEPT !.span = Halved(call[w].span), !.attempt = 0]
  <2>0. FetchInv(call[w]) /\ call[w].pc = "fetch" /\ call' = [call EXCEPT ![w] = g]
    BY <1>7, PerFetch DEF Shrink, Fetching
  <2>1. Phase(g) = Phase(call[w]) /\ Asked(g) = Asked(call[w]) /\ Got(g) = Got(call[w])
    BY <2>0 DEF FetchInv, Fetch, Phase, Asked, Got
  <2> HIDE DEF g
  <2> QED
    BY <2>0, <2>1, OneWalkStutters
<1>8. ASSUME NEW w \in Walks, Retry(w) PROVE UNCHANGED Window!avars
  <2> DEFINE g == [call[w] EXCEPT !.attempt = @ + 1]
  <2>0. FetchInv(call[w]) /\ call[w].pc = "fetch" /\ call' = [call EXCEPT ![w] = g]
    BY <1>8, PerFetch DEF Retry, Fails, Fetching
  <2>1. Phase(g) = Phase(call[w]) /\ Asked(g) = Asked(call[w]) /\ Got(g) = Got(call[w])
    BY <2>0 DEF FetchInv, Fetch, Phase, Asked, Got
  <2> HIDE DEF g
  <2> QED
    BY <2>0, <2>1, OneWalkStutters
<1>9. ASSUME UNCHANGED call PROVE UNCHANGED Window!avars
  BY <1>9 DEF Window!avars, Phases, Windows, Answers
<1>10. CASE Restart
  <2>1. Phase(NoFetch) = "idle" /\ Asked(NoFetch) = {} /\ Got(NoFetch) = {}
    BY DEF NoFetch, Phase, Asked, Got
  <2> QED
    BY <1>10, <2>1 DEF Restart, Window!Next, Window!Die, Phases, Windows, Answers
<1> QED
  <2>1. ASSUME NEW w \in Walks, Begin(w) \/ FetchStep(w) \/ Return(w)
        PROVE  [Window!Next]_(Window!avars)
    BY <2>1, <1>1, <1>2, <1>3, <1>4, <1>5, <1>6, <1>7, <1>8, <1>9
    DEF FetchStep, Load, Window!Next
  <2>2. CASE Persist \/ UNCHANGED vars
    BY <2>2, <1>9 DEF Persist, vars
  <2> QED
    BY <2>1, <2>2, <1>10 DEF Next

\* Every behaviour of the ladder is one of WindowFetch: whatever is rejected,
\* halved, retried, remembered or lost in a restart, a call answers the logs of its
\* whole window or it fails.  EventRanges takes a fetch to be that.
THEOREM Implementation == Spec => ImplementsWindow
BY InitMaps, StepMaps, Invariant, PTL DEF Spec, ImplementsWindow, Window!Spec

-----------------------------------------------------------------------------
(* A provider that only enforces a cap at or above the floor.               *)

\* A span at the floor is within the cap.
LEMMA FloorServed ==
  ASSUME NEW f \in Fetch, f.cursor <= f.to, AtFloor(f), MinSpan <= ProviderCap
  PROVE  ~OverCap(f)
BY DEF AtFloor, OverCap, SpanTo, Fetch

\* A walk without other noise cannot fail once its span is at the floor, so no fetch
\* of it that has its client gives up, whatever the other walks meet.
THEOREM ServedUnderCap == Spec => NeverGivesUp
<1>1. ASSUME IInv, [Next]_vars, MinSpan <= ProviderCap, NEW w \in Walks, Noise[w] = {},
             call[w].pc = "fetch"
      PROVE  call'[w].pc # "failed"
  <2>1. call \in [Walks -> Fetch]
    BY <1>1 DEF IInv, TypeOK
  <2>2. ~Fails(w)
    <3> SUFFICES ASSUME Fails(w) PROVE FALSE
      OBVIOUS
    <3> QED
      BY <1>1, <2>1, FloorServed DEF Fails, OtherError, ShrinkableError, Fetching
  <2>3. ASSUME NEW v \in Walks, GiveUp(v) PROVE call'[w].pc # "failed"
    <3>1. v # w
      BY <2>2, <2>3 DEF GiveUp
    <3> QED
      BY <1>1, <2>1, <2>3, <3>1 DEF GiveUp
  <2>4. ASSUME NEW v \in Walks, Begin(v) \/ FetchStep(v) \/ Return(v)
        PROVE  call'[w].pc # "failed"
    <3> HIDE SpansAssumption DEF Blocks, Spans
    <3>a. ASSUME NEW g, call' = [call EXCEPT ![v] = g], g.pc # "failed"
          PROVE  call'[w].pc # "failed"
      BY <3>a, <1>1, <2>1
    <3>1. CASE Begin(v) \/ Return(v) \/ NoClient(v) \/ ReadCeiling(v) \/ Finish(v)
      BY <3>1, <1>1, <2>1 DEF Begin, Return, NoClient, ReadCeiling, Finish, Fetch, NoFetch
    <3>2. CASE Served(v) \/ Shrink(v) \/ Retry(v)
      <4> DEFINE f == call[v]
      <4>0. f \in Fetch /\ f.pc = "fetch"
        BY <3>2, <2>1 DEF Served, Shrink, Retry, Fails, Fetching
      <4>1. CASE Served(v)
        <5> DEFINE g == [f EXCEPT !.got = f.got \cup (f.cursor..SpanTo(f)),
                                  !.cursor = SpanTo(f) + 1, !.attempt = 0]
        <5>1. g.pc # "failed"
          BY <4>0 DEF Fetch
        <5>2. call' = [call EXCEPT ![v] = g]
          BY <4>1 DEF Served
        <5> HIDE DEF g
        <5> QED
          BY <5>1, <5>2, <3>a
      <4>2. CASE Shrink(v)
        <5> DEFINE g == [f EXCEPT !.span = Halved(f.span), !.attempt = 0]
        <5>1. g.pc # "failed"
          BY <4>0 DEF Fetch
        <5>2. call' = [call EXCEPT ![v] = g]
          BY <4>2 DEF Shrink
        <5> HIDE DEF g
        <5> QED
          BY <5>1, <5>2, <3>a
      <4>3. CASE Retry(v)
        BY <4>3, <1>1, <2>1 DEF Retry, Fetch
      <4> QED
        BY <3>2, <4>1, <4>2, <4>3
    <3>3. CASE Load(v)
      BY <3>3, <1>1 DEF Load
    <3> QED
      BY <2>3, <2>4, <3>1, <3>2, <3>3 DEF FetchStep
  <2>5. CASE Persist \/ UNCHANGED vars
    BY <2>5, <1>1 DEF Persist, vars
  <2>6. CASE Restart
    BY <2>6, <1>1 DEF Restart, NoFetch
  <2> QED
    BY <1>1, <2>4, <2>5, <2>6 DEF Next
<1>2. IInv /\ [Next]_vars =>
        [MinSpan <= ProviderCap =>
           \A w \in Walks : Noise[w] = {} /\ call[w].pc = "fetch" => call'[w].pc # "failed"]_vars
  BY <1>1
<1> QED
  BY <1>2, Invariant, PTL DEF Spec, NeverGivesUp
=============================================================================
