----------------------- MODULE ContractSources_proofs -----------------------
(***************************************************************************)
(* Bounded and VerdictHonest are invariants of ContractSources, and        *)
(* MarksKept and NoRevival hold of every step, for every set of contracts  *)
(* and requests, whatever the proxies point at and however deep a lookup   *)
(* may go. The second half is about the compilers that local verification  *)
(* shares among its requests: Owned and InFlightSpared of Compilers, for   *)
(* every cap, every set of versions and any number of requests.            *)
(***************************************************************************)
EXTENDS ContractSources, Compilers, FiniteSetTheorems, SequenceTheorems, TLAPS

-----------------------------------------------------------------------------
(* The inductive invariant.                                                 *)

\* What is probed again by a lookup that has read it, whatever its age
Probed == {"none", "unverified", "bare", "partial"}

\* What a frame has read agrees with where it stands: a mark that was read is never on the way to
\* the answer of a miss, nor a local match with its source to a verifier, and what is to be cached
\* comes from outside.
FrameOK(f) ==
  /\ f.pc = "sourcify" => f.saw \in Probed \cup {"manual"}
  /\ f.pc \in {"blockscan", "code", "clear"} => f.saw \in Probed
  /\ f.pc = "cache" =>
       \/ f.row.kind \in {"remote", "partial"} /\ f.saw \in Probed \cup {"manual"}
       \/ f.row.kind = "unverified" /\ f.saw \in Probed

\* The frames of a lookup: no address twice, no deeper than the cap.
StackOK(s) ==
  /\ Len(s) \in 1..MaxDepth
  /\ \A i, j \in 1..Len(s) : s[i].addr = s[j].addr => i = j
  /\ \A i \in 1..Len(s) : FrameOK(s[i])

\* A lookup of an address that had code when it began is not about to say that it has none.
ReqOK(r) ==
  /\ r.denied => ~r.live
  /\ r.kind = "lookup" =>
       StackOK(r.frames) /\ (r.live => r.frames[1].addr \in code /\ r.frames[1].pc # "clear")
  /\ r.kind # "lookup" => Len(r.frames) <= 1
  /\ r.kind \in {"unmark", "compile"} => Len(r.frames) = 1

Types ==
  /\ rows \in [Addrs -> Row]
  /\ code \subseteq Addrs /\ listed \subseteq Addrs
  /\ points \in [Addrs -> Addrs \cup {None}]
  /\ changes \in 0..MaxChanges
  /\ req \in [Handlers -> Request]

SourcesInv == Types /\ \A h \in Handlers : ReqOK(req[h])

LEMMA ConstantTypes ==
  /\ MaxDepth \in Nat /\ MaxDepth >= 1 /\ MaxChanges \in Nat
  /\ Public \subseteq Addrs /\ None \notin Addrs /\ Hidden \notin Addrs
  /\ Pointers \in [Addrs -> SUBSET (Addrs \cup {None})]
  /\ NoRow \in Row /\ NoRequest \in Request
  /\ \A kind \in Kinds, impl \in Impls : Found(kind, impl) \in Row
  /\ \A a \in Addrs : Enter(a) \in Frame /\ FrameOK(Enter(a))
<1>1. \A kind \in Kinds, impl \in Impls : Found(kind, impl) \in Row
  BY DEF Found, Row
<1>2. NoRow \in Row
  BY <1>1 DEF NoRow, Kinds, Impls
<1>3. \A a \in Addrs : Enter(a) \in Frame /\ FrameOK(Enter(a))
  BY <1>2 DEF Enter, Frame, FrameOK, Kinds
<1>4. NoRequest \in Request
  BY DEF NoRequest, Request
<1> QED BY <1>1, <1>2, <1>3, <1>4, SourcesAssumption

-----------------------------------------------------------------------------
(* The frames of a lookup.                                                  *)

LEMMA Depths ==
  /\ \A n \in 1..MaxDepth : n = 1 \/ n > 1
  /\ \A n \in 1..MaxDepth : n # 1 => 1 \in 1..(n - 1)
  /\ \A n : n = 1 => n <= 1 /\ 1 \in 1..n
  /\ \A n \in Nat : n >= 1 => (IF 1 <= n - 1 THEN n - 1 - 1 + 1 ELSE 0) = n - 1
BY ConstantTypes

\* The top frame is replaced.
LEMMA ReplaceTop ==
  ASSUME NEW s \in Seq(Frame), s # <<>>, NEW f \in Frame
  PROVE  /\ Append(Front(s), f) \in Seq(Frame)
         /\ Len(Append(Front(s), f)) = Len(s)
         /\ Append(Front(s), f)[Len(s)] = f
         /\ \A i \in 1..(Len(s) - 1) : Append(Front(s), f)[i] = s[i]
<1>1. Len(s) \in Nat /\ Len(s) >= 1
  OBVIOUS
<1>2. \A i \in 1..(Len(s) - 1) : s[i] \in Frame
  BY <1>1
<1>3. /\ Front(s) \in Seq(Frame)
      /\ Len(Front(s)) = IF 1 <= Len(s) - 1 THEN Len(s) - 1 - 1 + 1 ELSE 0
      /\ \A i \in 1..(Len(s) - 1 - 1 + 1) : Front(s)[i] = s[1 + i - 1]
  BY <1>1, <1>2, SubSeqProperties DEF Front
<1>4. Len(Front(s)) = Len(s) - 1
  BY <1>1, <1>3, Depths
<1>5. \A i \in 1..(Len(s) - 1) : i \in 1..(Len(s) - 1 - 1 + 1) /\ 1 + i - 1 = i
  BY <1>1
<1>6. \A i \in 1..(Len(s) - 1) : Front(s)[i] = s[i]
  BY <1>3, <1>5
<1> QED BY <1>1, <1>3, <1>4, <1>6

\* A call returns to the frame below.
LEMMA PopTop ==
  ASSUME NEW s \in Seq(Frame), Len(s) > 1
  PROVE  /\ Front(s) \in Seq(Frame)
         /\ Len(Front(s)) = Len(s) - 1
         /\ \A i \in 1..(Len(s) - 1) : Front(s)[i] = s[i]
BY DEF Front

LEMMA PushTop ==
  ASSUME NEW s \in Seq(Frame), NEW f \in Frame
  PROVE  /\ s \o <<f>> \in Seq(Frame)
         /\ Len(s \o <<f>>) = Len(s) + 1
         /\ (s \o <<f>>)[Len(s) + 1] = f
         /\ \A i \in 1..Len(s) : (s \o <<f>>)[i] = s[i]
OBVIOUS

LEMMA TopType ==
  ASSUME SourcesInv, NEW h \in Handlers, req[h].kind = "lookup"
  PROVE  /\ req[h] \in Request /\ req[h].frames \in Seq(Frame) /\ req[h].frames # <<>>
         /\ Len(req[h].frames) \in 1..MaxDepth
         /\ Top(h) = req[h].frames[Len(req[h].frames)]
         /\ Top(h) \in Frame /\ FrameOK(Top(h)) /\ Top(h).addr \in Addrs
<1>1. req[h] \in Request /\ req[h].frames \in Seq(Frame)
  BY DEF SourcesInv, Types, Request
<1>2. StackOK(req[h].frames)
  BY DEF SourcesInv, ReqOK
<1>3. Len(req[h].frames) \in 1..MaxDepth /\ req[h].frames # <<>>
  BY <1>1, <1>2 DEF StackOK
<1>4. Top(h) = req[h].frames[Len(req[h].frames)]
  BY DEF Top, Last
<1>5. Len(req[h].frames) \in 1..Len(req[h].frames)
  BY <1>3, ConstantTypes
<1>6. Top(h) \in Frame /\ FrameOK(Top(h))
  BY <1>1, <1>2, <1>4, <1>5 DEF StackOK
<1> QED BY <1>1, <1>3, <1>4, <1>6 DEF Frame

\* A frame that is as good as the top frame may take its place.
LEMMA ReplacedOK ==
  ASSUME NEW s \in Seq(Frame), StackOK(s), NEW f \in Frame, FrameOK(f), f.addr = s[Len(s)].addr
  PROVE  LET u == Append(Front(s), f) IN
         /\ u \in Seq(Frame) /\ StackOK(u) /\ Len(u) = Len(s) /\ u[Len(s)] = f
         /\ \A i \in 1..Len(s) : u[i].addr = s[i].addr
         /\ \A i \in 1..(Len(s) - 1) : u[i] = s[i]
<1> DEFINE u == Append(Front(s), f)
<1>1. Len(s) \in Nat /\ Len(s) >= 1 /\ s # <<>>
  BY ConstantTypes DEF StackOK
<1>2. /\ u \in Seq(Frame) /\ Len(u) = Len(s) /\ u[Len(s)] = f
      /\ \A i \in 1..(Len(s) - 1) : u[i] = s[i]
  BY <1>1, ReplaceTop
<1> HIDE DEF u
<1>3. \A i \in 1..Len(s) : u[i].addr = s[i].addr /\ FrameOK(u[i])
  <2> SUFFICES ASSUME NEW i \in 1..Len(s)
               PROVE  u[i].addr = s[i].addr /\ FrameOK(u[i])
    OBVIOUS
  <2>1. CASE i = Len(s)
    BY <1>2, <2>1
  <2>2. CASE i \in 1..(Len(s) - 1)
    BY <1>2, <2>2 DEF StackOK
  <2> QED BY <1>1, <2>1, <2>2
<1>4. StackOK(u)
  BY <1>2, <1>3 DEF StackOK
<1> QED BY <1>2, <1>3, <1>4 DEF u

LEMMA PushedOK ==
  ASSUME NEW s \in Seq(Frame), StackOK(s), Len(s) < MaxDepth, NEW a \in Addrs,
         \A i \in 1..Len(s) : s[i].addr # a
  PROVE  LET u == s \o <<Enter(a)>> IN
         u \in Seq(Frame) /\ StackOK(u) /\ u[1] = s[1]
<1> DEFINE u == s \o <<Enter(a)>>
<1>1. Enter(a) \in Frame /\ FrameOK(Enter(a)) /\ Enter(a).addr = a
  BY ConstantTypes DEF Enter
<1>2. Len(s) \in Nat /\ Len(s) >= 1
  BY ConstantTypes DEF StackOK
<1>3. /\ u \in Seq(Frame) /\ Len(u) = Len(s) + 1 /\ u[Len(s) + 1] = Enter(a)
      /\ \A i \in 1..Len(s) : u[i] = s[i]
  BY <1>1, PushTop
<1> HIDE DEF u
<1>4. \A i \in 1..Len(u) : i \in 1..Len(s) \/ i = Len(s) + 1
  BY <1>2, <1>3
<1>5. \A i \in 1..Len(u) : FrameOK(u[i])
  BY <1>1, <1>3, <1>4 DEF StackOK
<1>6. \A i, j \in 1..Len(u) : u[i].addr = u[j].addr => i = j
  BY <1>1, <1>3, <1>4 DEF StackOK
<1>7. StackOK(u) /\ u[1] = s[1]
  BY <1>2, <1>3, <1>5, <1>6, ConstantTypes DEF StackOK
<1> QED BY <1>3, <1>7 DEF u

LEMMA PoppedOK ==
  ASSUME NEW s \in Seq(Frame), StackOK(s), Len(s) > 1
  PROVE  Front(s) \in Seq(Frame) /\ StackOK(Front(s)) /\ Front(s)[1] = s[1]
<1>1. /\ Front(s) \in Seq(Frame) /\ Len(Front(s)) = Len(s) - 1
      /\ \A i \in 1..(Len(s) - 1) : Front(s)[i] = s[i]
  BY PopTop
<1>2. Len(s) \in Nat /\ Len(s) <= MaxDepth
  BY ConstantTypes DEF StackOK
<1>3. \A i \in 1..Len(Front(s)) : i \in 1..Len(s) /\ Front(s)[i] = s[i]
  BY <1>1, <1>2
<1>4. StackOK(Front(s))
  BY <1>1, <1>2, <1>3, ConstantTypes DEF StackOK
<1> QED BY <1>1, <1>2, <1>4

-----------------------------------------------------------------------------
(* The requests after a step.                                               *)

\* One entry of the request table is written, and no code is lost.
LEMMA WriteRequest ==
  ASSUME SourcesInv, NEW h \in Handlers, NEW r \in Request, req' = [req EXCEPT ![h] = r],
         ReqOK(r), code' = code
  PROVE  /\ req' \in [Handlers -> Request]
         /\ \A g \in Handlers : ReqOK(req[g])'
BY DEF SourcesInv, Types, ReqOK

LEMMA KeepRequests ==
  ASSUME SourcesInv, req' = req, code \subseteq code'
  PROVE  /\ req' \in [Handlers -> Request]
         /\ \A g \in Handlers : ReqOK(req[g])'
BY DEF SourcesInv, Types, ReqOK

\* A step that writes a row and one entry of the request table, and nothing of the world.
LEMMA RowStep ==
  ASSUME SourcesInv, NEW a \in Addrs, NEW r \in Row, MayWrite(a, r) \/ UNCHANGED rows,
         UNCHANGED worldVars, req' \in [Handlers -> Request],
         \A g \in Handlers : ReqOK(req[g])'
  PROVE  SourcesInv'
BY DEF SourcesInv, Types, MayWrite, Writes, worldVars

LEMMA QuietStep ==
  ASSUME SourcesInv, UNCHANGED <<rows, worldVars>>, req' \in [Handlers -> Request],
         \A g \in Handlers : ReqOK(req[g])'
  PROVE  SourcesInv'
BY DEF SourcesInv, Types, worldVars

LEMMA GoesKeeps ==
  ASSUME SourcesInv, NEW h \in Handlers, req[h].kind = "lookup", NEW f \in Frame, FrameOK(f),
         f.addr = Top(h).addr, f.pc = "clear" => f.addr \notin code, Goes(h, f), code' = code
  PROVE  /\ req' \in [Handlers -> Request]
         /\ \A g \in Handlers : ReqOK(req[g])'
<1> DEFINE s == req[h].frames
           u == Append(Front(s), f)
           r == [req[h] EXCEPT !.frames = u]
<1>1. req[h] \in Request /\ s \in Seq(Frame) /\ Top(h) = s[Len(s)] /\ Len(s) \in 1..MaxDepth
  BY TopType
<1>2. ReqOK(req[h]) /\ StackOK(s)
  BY DEF SourcesInv, ReqOK
<1>3. /\ u \in Seq(Frame) /\ StackOK(u) /\ Len(u) = Len(s) /\ u[Len(s)] = f
      /\ \A i \in 1..Len(s) : u[i].addr = s[i].addr
      /\ \A i \in 1..(Len(s) - 1) : u[i] = s[i]
  BY <1>1, <1>2, ReplacedOK
<1>4. req' = [req EXCEPT ![h] = r]
  BY DEF Goes, SourcesInv, Types
<1> HIDE DEF u
<1>5. /\ r \in Request /\ r.kind = "lookup" /\ r.live = req[h].live /\ r.denied = req[h].denied
      /\ r.frames = u
  BY <1>1, <1>3 DEF Request
<1>6. req[h].live => u[1].addr \in code /\ u[1].pc # "clear"
  <2>1. 1 \in 1..Len(s) /\ u[1].addr = s[1].addr
    BY <1>1, <1>3, ConstantTypes
  <2>2. CASE Len(s) = 1
    BY <1>2, <1>3, <2>1, <2>2 DEF ReqOK
  <2>3. CASE Len(s) # 1
    <3>1. 1 \in 1..(Len(s) - 1)
      BY <1>1, <2>3, Depths
    <3>2. u[1] = s[1]
      BY <1>3, <3>1
    <3> QED BY <1>2, <1>3, <3>2 DEF ReqOK
  <2> QED BY <2>2, <2>3
<1> HIDE DEF r
<1>7. ReqOK(r)
  BY <1>2, <1>3, <1>5, <1>6 DEF ReqOK
<1> QED BY <1>4, <1>5, <1>7, WriteRequest

LEMMA DescendsKeeps ==
  ASSUME SourcesInv, NEW h \in Handlers, req[h].kind = "lookup", NEW f \in Frame, FrameOK(f),
         f.addr = Top(h).addr, f.pc # "clear", NEW a \in Impls, Descends(h, f, a),
         code' = code
  PROVE  /\ req' \in [Handlers -> Request]
         /\ \A g \in Handlers : ReqOK(req[g])'
<1>1. CASE a \notin Addrs \/ Stops(h, a)
  <2>1. Goes(h, f)
    BY <1>1 DEF Descends, Goes
  <2> QED BY <2>1, GoesKeeps
<1>2. CASE a \in Addrs /\ ~Stops(h, a)
  <2> DEFINE s == req[h].frames
             u == Append(Front(s), f)
             v == u \o <<Enter(a)>>
             r == [req[h] EXCEPT !.frames = v]
  <2>1. req[h] \in Request /\ s \in Seq(Frame) /\ Top(h) = s[Len(s)] /\ Len(s) \in 1..MaxDepth
    BY TopType
  <2>2. ReqOK(req[h]) /\ StackOK(s)
    BY DEF SourcesInv, ReqOK
  <2>3. /\ u \in Seq(Frame) /\ StackOK(u) /\ Len(u) = Len(s) /\ u[Len(s)] = f
        /\ \A i \in 1..Len(s) : u[i].addr = s[i].addr
        /\ \A i \in 1..(Len(s) - 1) : u[i] = s[i]
    BY <2>1, <2>2, ReplacedOK
  <2>4. a \in Addrs /\ Len(s) < MaxDepth /\ \A i \in 1..Len(s) : s[i].addr # a
    BY <1>2, <2>1, ConstantTypes DEF Stops
  <2>5. req' = [req EXCEPT ![h] = r]
    BY <1>2 DEF Descends, SourcesInv, Types
  <2> HIDE DEF u
  <2>6. v \in Seq(Frame) /\ StackOK(v) /\ v[1] = u[1]
    <3>1. Len(u) < MaxDepth /\ \A i \in 1..Len(u) : u[i].addr # a
      BY <2>3, <2>4
    <3>2. a \in Addrs /\ u \in Seq(Frame) /\ StackOK(u)
      BY <2>3, <2>4
    <3> QED BY <3>1, <3>2, PushedOK
  <2> HIDE DEF v
  <2>7. /\ r \in Request /\ r.kind = "lookup" /\ r.live = req[h].live /\ r.denied = req[h].denied
        /\ r.frames = v
    BY <2>1, <2>6 DEF Request
  <2>8. req[h].live => u[1].addr \in code /\ u[1].pc # "clear"
    <3>1. 1 \in 1..Len(s) /\ u[1].addr = s[1].addr
      BY <2>1, <2>3, ConstantTypes
    <3>2. u[1] = f \/ u[1] = s[1]
      BY <2>1, <2>3, ConstantTypes
    <3> QED BY <2>2, <3>1, <3>2 DEF ReqOK
  <2> HIDE DEF r
  <2>9. ReqOK(r)
    BY <2>2, <2>6, <2>7, <2>8 DEF ReqOK
  <2> QED BY <2>5, <2>7, <2>9, WriteRequest
<1> QED BY <1>1, <1>2

\* Only a call that is about to say that there is no code says so.
LEMMA ReturnsKeeps ==
  ASSUME SourcesInv, NEW h \in Handlers, req[h].kind = "lookup", NEW how, Returns(h, how),
         how = "null" => Top(h).pc = "clear", code' = code
  PROVE  /\ req' \in [Handlers -> Request]
         /\ \A g \in Handlers : ReqOK(req[g])'
<1> DEFINE s == req[h].frames
           r == IF Len(s) > 1 THEN [req[h] EXCEPT !.frames = Front(s)]
                ELSE IF how = "null" THEN [NoRequest EXCEPT !.live = req[h].live, !.denied = TRUE]
                ELSE NoRequest
<1>1. req[h] \in Request /\ s \in Seq(Frame) /\ Top(h) = s[Len(s)] /\ Len(s) \in 1..MaxDepth
  BY TopType
<1>2. ReqOK(req[h]) /\ StackOK(s)
  BY DEF SourcesInv, ReqOK
<1>3. req' = [req EXCEPT ![h] = r]
  BY DEF Returns
<1>4. CASE Len(s) > 1
  <2>1. Front(s) \in Seq(Frame) /\ StackOK(Front(s)) /\ Front(s)[1] = s[1]
    BY <1>1, <1>2, <1>4, PoppedOK
  <2>2. /\ r \in Request /\ r.kind = "lookup" /\ r.live = req[h].live /\ r.denied = req[h].denied
        /\ r.frames = Front(s)
    BY <1>1, <1>4, <2>1 DEF Request
  <2> HIDE DEF r
  <2>3. ReqOK(r)
    BY <1>2, <2>1, <2>2 DEF ReqOK
  <2> QED BY <1>3, <2>2, <2>3, WriteRequest
<1>5. CASE Len(s) = 1
  <2>1. how = "null" => ~req[h].live
    BY <1>1, <1>2, <1>5 DEF ReqOK
  <2>2. r = IF how = "null" THEN [NoRequest EXCEPT !.live = req[h].live, !.denied = TRUE]
            ELSE NoRequest
    BY <1>5
  <2> HIDE DEF r
  <2>3. \/ r = NoRequest
        \/ how = "null" /\ r = [NoRequest EXCEPT !.live = req[h].live, !.denied = TRUE]
    BY <2>2
  <2>4. req[h].live \in BOOLEAN
    BY <1>1 DEF Request
  <2>5. CASE r = NoRequest
    <3>1. ReqOK(r)
      BY <2>5 DEF ReqOK, NoRequest
    <3> QED BY <1>3, <2>5, <3>1, ConstantTypes, WriteRequest
  <2>6. CASE how = "null" /\ r = [NoRequest EXCEPT !.live = req[h].live, !.denied = TRUE]
    <3>1. r = [kind |-> "idle", frames |-> <<>>, live |-> req[h].live, denied |-> TRUE]
      BY <2>6 DEF NoRequest
    <3>2. r \in Request
      BY <2>4, <3>1 DEF Request
    <3>3. r.kind = "idle" /\ r.frames = <<>> /\ r.live = req[h].live
      BY <3>1
    <3>4. ~r.live
      BY <2>1, <2>6, <3>3
    <3>5. ReqOK(r)
      BY <3>3, <3>4 DEF ReqOK
    <3> QED BY <1>3, <3>2, <3>5, WriteRequest
  <2> QED BY <2>3, <2>5, <2>6
<1>6. Len(s) = 1 \/ Len(s) > 1
  BY <1>1, Depths
<1> QED BY <1>4, <1>5, <1>6

-----------------------------------------------------------------------------
(* The steps of a lookup.                                                   *)

LEMMA SourcesInvInit == Init => SourcesInv
BY ConstantTypes DEF Init, SourcesInv, Types, ReqOK, NoRequest

LEMMA LookupKeeps ==
  ASSUME SourcesInv, NEW h \in Handlers, NEW a \in Addrs, Lookup(h, a)
  PROVE  SourcesInv'
<1> DEFINE s == <<Enter(a)>>
           live == a \in code
           r == [kind |-> "lookup", frames |-> s, live |-> live, denied |-> FALSE]
<1>1. Enter(a) \in Frame /\ FrameOK(Enter(a)) /\ Enter(a).addr = a /\ Enter(a).pc = "read"
  BY ConstantTypes DEF Enter
<1>2. s \in Seq(Frame) /\ Len(s) = 1 /\ s[1] = Enter(a)
  BY <1>1
<1>0. live \in BOOLEAN /\ (live => a \in code)
  OBVIOUS
<1> HIDE DEF s, live
<1>3. StackOK(s)
  BY <1>1, <1>2, ConstantTypes DEF StackOK
<1>4. /\ r \in Request /\ r.kind = "lookup" /\ r.frames = s /\ r.denied = FALSE
      /\ r.live => a \in code
  BY <1>0, <1>2 DEF Request
<1>5. req' = [req EXCEPT ![h] = r] /\ UNCHANGED <<rows, worldVars>>
  BY DEF Lookup, s, live
<1> HIDE DEF r
<1>6. ReqOK(r)
  BY <1>1, <1>2, <1>3, <1>4 DEF ReqOK
<1> QED BY <1>4, <1>5, <1>6, WriteRequest, QuietStep DEF worldVars

LEMMA ReadRowKeeps == ASSUME SourcesInv, NEW h \in Handlers, ReadRow(h) PROVE SourcesInv'
<1> DEFINE x == rows[Top(h).addr]
           f == [Top(h) EXCEPT !.saw = x.kind, !.row = x, !.pc = AfterRead(x)]
<1>1. req[h].kind = "lookup" /\ Top(h).pc = "read" /\ UNCHANGED <<rows, worldVars>>
  BY DEF ReadRow, At
<1>2. Top(h) \in Frame /\ Top(h).addr \in Addrs /\ x \in Row
  BY <1>1, TopType DEF SourcesInv, Types
<1>3. CASE Served(x)
  <2>1. Returns(h, "source")
    BY <1>3 DEF ReadRow
  <2> QED BY <1>1, <1>2, <2>1, ReturnsKeeps, RowStep DEF worldVars
<1>4. CASE ~Served(x)
  <2>0. /\ AfterRead(x) \in {"sourcify", "enhance", "save"} /\ x.kind \in Kinds
        /\ AfterRead(x) = "sourcify" => x.kind \in Probed \cup {"manual"}
    BY <1>2 DEF AfterRead, Row, Kinds, Probed
  <2>1. f \in Frame /\ f.addr = Top(h).addr /\ f.pc # "clear" /\ FrameOK(f)
    BY <1>2, <2>0 DEF Frame, FrameOK
  <2>2. Goes(h, f)
    BY <1>4 DEF ReadRow
  <2> HIDE DEF f
  <2> QED BY <1>1, <1>2, <2>1, <2>2, GoesKeeps, RowStep DEF worldVars
<1> QED BY <1>3, <1>4

\* A step of a lookup that takes its top frame on, and writes nothing.
LEMMA MovesKeeps ==
  ASSUME SourcesInv, NEW h \in Handlers, req[h].kind = "lookup", NEW f \in Frame, FrameOK(f),
         f.addr = Top(h).addr, f.pc = "clear" => f.addr \notin code, Goes(h, f),
         UNCHANGED <<rows, worldVars>>
  PROVE  SourcesInv'
BY GoesKeeps, QuietStep DEF worldVars

LEMMA ReadFailsKeeps == ASSUME SourcesInv, NEW h \in Handlers, ReadFails(h) PROVE SourcesInv'
<1>1. req[h].kind = "lookup" /\ Returns(h, "error") /\ UNCHANGED <<rows, worldVars>>
  BY DEF ReadFails, At
<1> QED BY <1>1, ReturnsKeeps, QuietStep DEF worldVars

LEMMA SourcifyHitsKeeps == ASSUME SourcesInv, NEW h \in Handlers, SourcifyHits(h) PROVE SourcesInv'
<1> DEFINE a == Top(h).addr
           f(kind) == [Top(h) EXCEPT !.row = Found(kind, points[a]), !.pc = "cache"]
<1>1. /\ req[h].kind = "lookup" /\ Top(h).pc = "sourcify" /\ UNCHANGED <<rows, worldVars>>
      /\ \E kind \in {"remote", "partial"} : Descends(h, f(kind), points[a])
  BY DEF SourcifyHits, At
<1>2. Top(h) \in Frame /\ FrameOK(Top(h)) /\ points[a] \in Impls
  BY <1>1, TopType DEF SourcesInv, Types, Impls
<1>3. PICK kind \in {"remote", "partial"} : Descends(h, f(kind), points[a])
  BY <1>1
<1>4. Found(kind, points[a]) \in Row /\ Found(kind, points[a]).kind = kind
  BY <1>2, ConstantTypes DEF Kinds, Found
<1>5. /\ f(kind) \in Frame /\ f(kind).addr = Top(h).addr /\ f(kind).pc # "clear"
      /\ FrameOK(f(kind))
  BY <1>1, <1>2, <1>4 DEF Frame, FrameOK
<1> HIDE DEF f
<1> QED BY <1>1, <1>2, <1>3, <1>5, DescendsKeeps, QuietStep DEF worldVars

LEMMA SourcifyMissesKeeps ==
  ASSUME SourcesInv, NEW h \in Handlers, SourcifyMisses(h) PROVE SourcesInv'
<1> DEFINE f == [Top(h) EXCEPT !.pc = AfterMiss(Top(h).saw)]
<1>1. /\ req[h].kind = "lookup" /\ Top(h).pc = "sourcify" /\ Goes(h, f)
      /\ UNCHANGED <<rows, worldVars>>
  BY DEF SourcifyMisses, At
<1>2. Top(h) \in Frame /\ FrameOK(Top(h))
  BY <1>1, TopType
<1>3. f \in Frame /\ f.addr = Top(h).addr /\ f.pc # "clear" /\ FrameOK(f)
  BY <1>1, <1>2 DEF Frame, FrameOK, AfterMiss
<1> HIDE DEF f
<1> QED BY <1>1, <1>3, MovesKeeps

LEMMA BlockscanHitsKeeps ==
  ASSUME SourcesInv, NEW h \in Handlers, BlockscanHits(h) PROVE SourcesInv'
<1> DEFINE f(kind) == [Top(h) EXCEPT !.row = Found(kind, None), !.pc = "cache"]
<1>1. /\ req[h].kind = "lookup" /\ Top(h).pc = "blockscan" /\ UNCHANGED <<rows, worldVars>>
      /\ \E kind \in {"remote", "partial"} : Goes(h, f(kind))
  BY DEF BlockscanHits, At
<1>2. Top(h) \in Frame /\ FrameOK(Top(h))
  BY <1>1, TopType
<1>3. PICK kind \in {"remote", "partial"} : Goes(h, f(kind))
  BY <1>1
<1>4. Found(kind, None) \in Row /\ Found(kind, None).kind = kind
  BY ConstantTypes DEF Kinds, Found, Impls
<1>5. /\ f(kind) \in Frame /\ f(kind).addr = Top(h).addr /\ f(kind).pc # "clear"
      /\ FrameOK(f(kind))
  BY <1>1, <1>2, <1>4 DEF Frame, FrameOK
<1> HIDE DEF f
<1> QED BY <1>1, <1>3, <1>5, MovesKeeps

LEMMA BlockscanMissesKeeps ==
  ASSUME SourcesInv, NEW h \in Handlers, BlockscanMisses(h) PROVE SourcesInv'
<1> DEFINE f == [Top(h) EXCEPT !.pc = "code"]
<1>1. /\ req[h].kind = "lookup" /\ Top(h).pc = "blockscan" /\ Goes(h, f)
      /\ UNCHANGED <<rows, worldVars>>
  BY DEF BlockscanMisses, At
<1>2. Top(h) \in Frame /\ FrameOK(Top(h))
  BY <1>1, TopType
<1>3. f \in Frame /\ f.addr = Top(h).addr /\ f.pc # "clear" /\ FrameOK(f)
  BY <1>1, <1>2 DEF Frame, FrameOK
<1> HIDE DEF f
<1> QED BY <1>1, <1>3, MovesKeeps

LEMMA AskCodeKeeps == ASSUME SourcesInv, NEW h \in Handlers, AskCode(h) PROVE SourcesInv'
<1> DEFINE f == [Top(h) EXCEPT !.pc = "clear"]
           g == [Top(h) EXCEPT !.row = Found("unverified", None), !.pc = "cache"]
<1>1. /\ req[h].kind = "lookup" /\ Top(h).pc = "code" /\ UNCHANGED <<rows, worldVars>>
      /\ (Top(h).addr \notin code /\ Goes(h, f)) \/ Goes(h, g)
  BY DEF AskCode, At
<1>2. /\ Top(h) \in Frame /\ FrameOK(Top(h))
      /\ Found("unverified", None) \in Row /\ Found("unverified", None).kind = "unverified"
  BY <1>1, TopType, ConstantTypes DEF Kinds, Found, Impls
<1>3. f \in Frame /\ f.addr = Top(h).addr /\ FrameOK(f)
  BY <1>1, <1>2 DEF Frame, FrameOK
<1>4. g \in Frame /\ g.addr = Top(h).addr /\ g.pc # "clear" /\ FrameOK(g)
  BY <1>1, <1>2 DEF Frame, FrameOK
<1> HIDE DEF f, g
<1> QED BY <1>1, <1>3, <1>4, MovesKeeps

LEMMA ClearKeeps == ASSUME SourcesInv, NEW h \in Handlers, Clear(h) PROVE SourcesInv'
<1>1. /\ req[h].kind = "lookup" /\ Top(h).pc = "clear" /\ MayWrite(Top(h).addr, NoRow)
      /\ Returns(h, "null") /\ UNCHANGED worldVars
  BY DEF Clear, At
<1>2. Top(h).addr \in Addrs
  BY <1>1, TopType
<1> QED BY <1>1, <1>2, ReturnsKeeps, RowStep, ConstantTypes DEF worldVars

LEMMA CacheKeeps == ASSUME SourcesInv, NEW h \in Handlers, Cache(h) PROVE SourcesInv'
<1> DEFINE r == Top(h).row
           f == [Top(h) EXCEPT !.pc = IF r.impl = None THEN "enhance" ELSE "save"]
<1>1. /\ req[h].kind = "lookup" /\ Top(h).pc = "cache" /\ MayWrite(Top(h).addr, r)
      /\ Returns(h, "source") \/ Goes(h, f)
      /\ UNCHANGED worldVars
  BY DEF Cache, At
<1>2. Top(h) \in Frame /\ Top(h).addr \in Addrs /\ r \in Row
  BY <1>1, TopType DEF Frame
<1>3. f \in Frame /\ f.addr = Top(h).addr /\ f.pc # "clear" /\ FrameOK(f)
  BY <1>2 DEF Frame, FrameOK
<1> HIDE DEF f
<1> QED BY <1>1, <1>2, <1>3, ReturnsKeeps, GoesKeeps, RowStep DEF worldVars

LEMMA EnhanceKeeps == ASSUME SourcesInv, NEW h \in Handlers, Enhance(h) PROVE SourcesInv'
<1> DEFINE a == Top(h).addr
           f(i) == [Top(h) EXCEPT !.row.impl = i, !.pc = "save"]
<1>1. /\ req[h].kind = "lookup" /\ UNCHANGED <<rows, worldVars>>
      /\ Returns(h, "source") \/ Goes(h, f(points[a])) \/ Goes(h, f(Hidden))
  BY DEF Enhance, At
<1>2. Top(h) \in Frame /\ Top(h).row \in Row /\ points[a] \in Impls /\ Hidden \in Impls
  BY <1>1, TopType DEF Frame, SourcesInv, Types, Impls
<1>3. ASSUME NEW i \in Impls
      PROVE  f(i) \in Frame /\ f(i).addr = Top(h).addr /\ f(i).pc # "clear" /\ FrameOK(f(i))
  <2>1. [Top(h).row EXCEPT !.impl = i] \in Row
    BY <1>2 DEF Row
  <2> QED BY <1>2, <2>1 DEF Frame, FrameOK
<1> HIDE DEF f
<1> QED BY <1>1, <1>2, <1>3, ReturnsKeeps, MovesKeeps, QuietStep DEF worldVars

LEMMA SaveKeeps == ASSUME SourcesInv, NEW h \in Handlers, Save(h) PROVE SourcesInv'
<1> DEFINE a == Top(h).addr
           i == Top(h).row.impl
           x == IF rows[a].kind = "none" THEN rows[a]
                ELSE [rows[a] EXCEPT !.impl = Top(h).row.impl, !.old = FALSE]
           f == [Top(h) EXCEPT !.pc = "enhanced", !.row = NoRow]
<1>1. /\ req[h].kind = "lookup" /\ MayWrite(a, x) /\ Descends(h, f, i) /\ UNCHANGED worldVars
  BY DEF Save, At
<1>2. Top(h) \in Frame /\ a \in Addrs /\ i \in Impls /\ rows[a] \in Row
  BY <1>1, TopType DEF Frame, Row, SourcesInv, Types
<1>3. x \in Row
  BY <1>2 DEF Row
<1>4. f \in Frame /\ f.addr = Top(h).addr /\ f.pc # "clear" /\ FrameOK(f)
  BY <1>2, ConstantTypes DEF Frame, FrameOK
<1> HIDE DEF f, x
<1> QED BY <1>1, <1>2, <1>3, <1>4, DescendsKeeps, RowStep DEF worldVars

LEMMA EnhancedKeeps == ASSUME SourcesInv, NEW h \in Handlers, Enhanced(h) PROVE SourcesInv'
<1>1. req[h].kind = "lookup" /\ Returns(h, "source") /\ UNCHANGED <<rows, worldVars>>
  BY DEF Enhanced, At
<1> QED BY <1>1, ReturnsKeeps, QuietStep DEF worldVars

LEMMA RefreshKeeps == ASSUME SourcesInv, NEW h \in Handlers, Refresh(h) PROVE SourcesInv'
<1> DEFINE a == Top(h).addr
           x == Refreshed(a, Top(h).row)
<1>1. /\ req[h].kind = "lookup" /\ MayWrite(a, x) /\ Returns(h, "source") /\ UNCHANGED worldVars
  BY DEF Refresh, At
<1>2. a \in Addrs /\ x \in Row
  BY <1>1, TopType DEF Refreshed, Row, SourcesInv, Types
<1> HIDE DEF x
<1> QED BY <1>1, <1>2, ReturnsKeeps, RowStep DEF worldVars

LEMMA LookupStepKeeps == ASSUME SourcesInv, NEW h \in Handlers, LookupStep(h) PROVE SourcesInv'
BY ReadRowKeeps, ReadFailsKeeps, SourcifyHitsKeeps, SourcifyMissesKeeps,
   BlockscanHitsKeeps, BlockscanMissesKeeps, AskCodeKeeps, ClearKeeps, CacheKeeps, EnhanceKeeps,
   SaveKeeps, EnhancedKeeps, RefreshKeeps DEF LookupStep
-----------------------------------------------------------------------------
(* The requests that write, and the world.                                  *)

\* A request that writes begins, or ends.
LEMMA BeginsKeeps ==
  ASSUME SourcesInv, NEW h \in Handlers, NEW a \in Addrs, NEW kind \in {"unmark", "compile"},
         Begins(h, kind, a), code' = code
  PROVE  /\ req' \in [Handlers -> Request]
         /\ \A g \in Handlers : ReqOK(req[g])'
<1> DEFINE s == <<Enter(a)>>
           r == [NoRequest EXCEPT !.kind = kind, !.frames = s]
<1>1. s \in Seq(Frame) /\ Len(s) = 1
  BY ConstantTypes
<1>2. req' = [req EXCEPT ![h] = r]
  BY DEF Begins
<1> HIDE DEF s
<1>3. r \in Request /\ r.kind = kind /\ r.frames = s /\ r.denied = FALSE
  BY <1>1 DEF NoRequest, Request
<1> HIDE DEF r
<1>4. Len(r.frames) = 1 /\ Len(r.frames) <= 1
  BY <1>1, <1>3, Depths
<1>5. ReqOK(r)
  BY <1>3, <1>4 DEF ReqOK
<1> QED BY <1>2, <1>3, <1>5, WriteRequest

LEMMA RequestEndsKeeps == ASSUME SourcesInv, NEW h \in Handlers, RequestEnds(h) PROVE SourcesInv'
<1>1. /\ req[h].kind \in {"unmark", "compile"} /\ req' = [req EXCEPT ![h] = NoRequest]
      /\ UNCHANGED worldVars
      /\ \/ MayWrite(Top(h).addr, NoRow)
         \/ \E kind \in {"local", "bare"} : MayWrite(Top(h).addr, Found(kind, None))
  BY DEF RequestEnds
<1>2. Len(req[h].frames) = 1
  BY <1>1 DEF SourcesInv, ReqOK
<1>3. Top(h) = req[h].frames[1]
  BY <1>2 DEF Top, Last
<1>4. Top(h).addr \in Addrs
  <2>1. 1 \in 1..Len(req[h].frames)
    BY <1>2, Depths
  <2>2. req[h].frames \in Seq(Frame)
    BY DEF SourcesInv, Types, Request
  <2>3. req[h].frames[1] \in Frame
    BY <2>1, <2>2
  <2> QED BY <1>3, <2>3 DEF Frame
<1>5. NoRequest \in Request /\ ReqOK(NoRequest)
  BY ConstantTypes DEF ReqOK, NoRequest
<1>6. NoRow \in Row /\ \A kind \in {"local", "bare"} : Found(kind, None) \in Row
  BY ConstantTypes DEF Kinds, Impls
<1>7. PICK r \in Row : MayWrite(Top(h).addr, r)
  BY <1>1, <1>6
<1> QED BY <1>1, <1>4, <1>5, <1>7, WriteRequest, RowStep DEF worldVars

LEMMA RequestKeeps ==
  ASSUME SourcesInv, NEW h \in Handlers, NEW a \in Addrs, Unmark(h, a) \/ CompileClears(h, a)
  PROVE  SourcesInv'
<1>1. CASE Unmark(h, a)
  BY <1>1, BeginsKeeps, QuietStep DEF Unmark, worldVars
<1>2. CASE CompileClears(h, a)
  BY <1>2, BeginsKeeps, RowStep, ConstantTypes DEF CompileClears, worldVars
<1> QED BY <1>1, <1>2

\* Rows written by a request that holds nothing, or aged.
LEMMA RowsKeep ==
  ASSUME SourcesInv, NEW a \in Addrs, Mark(a) \/ ForceRefresh(a) \/ Age(a)
  PROVE  SourcesInv'
<1>1. UNCHANGED <<worldVars, req>>
  BY DEF Mark, ForceRefresh, Age
<1>2. PICK r \in Row : Writes(a, r)
  <2>1. Found("manual", None) \in Row /\ NoRow \in Row
    BY ConstantTypes DEF Kinds, Impls
  <2>2. [rows[a] EXCEPT !.old = TRUE] \in Row
    BY DEF SourcesInv, Types, Row
  <2> QED BY <2>1, <2>2 DEF Mark, ForceRefresh, Age
<1> QED BY <1>1, <1>2, KeepRequests, RowStep DEF worldVars, MayWrite

LEMMA WorldKeeps == ASSUME SourcesInv, World PROVE SourcesInv'
<1>1. /\ changes < MaxChanges /\ changes' = changes + 1 /\ UNCHANGED <<rows, req>>
      /\ \E a \in Addrs : Deploy(a) \/ Upgrade(a) \/ Publish(a)
  BY DEF World
<1>2. code \subseteq code' /\ code' \subseteq Addrs /\ listed' \subseteq Addrs
  BY <1>1 DEF SourcesInv, Types, Deploy, Upgrade, Publish
<1>3. points' \in [Addrs -> Addrs \cup {None}]
  <2>1. PICK a \in Addrs : Deploy(a) \/ Upgrade(a) \/ Publish(a)
    BY <1>1
  <2>2. \A t \in Pointers[a] : t \in Addrs \cup {None}
    BY ConstantTypes
  <2> QED BY <2>1, <2>2 DEF SourcesInv, Types, Deploy, Upgrade, Publish
<1>4. changes' \in 0..MaxChanges
  BY <1>1, ConstantTypes DEF SourcesInv, Types
<1> QED BY <1>1, <1>2, <1>3, <1>4, KeepRequests DEF SourcesInv, Types

LEMMA SourcesInvStep == ASSUME SourcesInv, [Next]_vars PROVE SourcesInv'
<1>1. CASE UNCHANGED vars
  BY <1>1 DEF vars, SourcesInv, Types, ReqOK
<1>2. CASE \E a \in Public, h \in Handlers : Lookup(h, a) \/ Unmark(h, a) \/ CompileClears(h, a)
  BY <1>2, ConstantTypes, LookupKeeps, RequestKeeps
<1>3. CASE \E a \in Addrs : Mark(a) \/ ForceRefresh(a) \/ Age(a)
  BY <1>3, RowsKeep
<1>4. CASE \E h \in Handlers : LookupStep(h) \/ RequestEnds(h)
  BY <1>4, LookupStepKeeps, RequestEndsKeeps
<1>5. CASE World
  BY <1>5, WorldKeeps
<1> QED BY <1>1, <1>2, <1>3, <1>4, <1>5, ConstantTypes DEF Next, Asks

LEMMA SourcesInvAlways == Spec => []SourcesInv
BY SourcesInvInit, SourcesInvStep, PTL DEF Spec

-----------------------------------------------------------------------------
(* What follows.                                                            *)

\* However proxies point at each other, and however they are upgraded while a lookup is under
\* way, the recursion guard of getContractSource keeps a path free of repeated addresses and
\* within the cap.
THEOREM BoundedHolds == Spec => []Bounded
<1>1. SourcesInv => TypeOK
  BY DEF SourcesInv, Types, TypeOK
<1>2. SourcesInv => \A h \in Handlers : LET s == req[h].frames IN
        Len(s) <= MaxDepth /\ \A i, j \in DOMAIN s : s[i].addr = s[j].addr => i = j
  <2> SUFFICES ASSUME SourcesInv, NEW h \in Handlers
               PROVE  /\ Len(req[h].frames) <= MaxDepth
                      /\ \A i, j \in DOMAIN req[h].frames :
                           req[h].frames[i].addr = req[h].frames[j].addr => i = j
    OBVIOUS
  <2>1. req[h].frames \in Seq(Frame) /\ ReqOK(req[h])
    BY DEF SourcesInv, Types, Request
  <2>2. CASE req[h].kind = "lookup"
    BY <2>1, <2>2, ConstantTypes DEF ReqOK, StackOK
  <2>3. CASE req[h].kind # "lookup"
    BY <2>1, <2>3, ConstantTypes DEF ReqOK
  <2> QED BY <2>2, <2>3
<1>3. SourcesInv => Bounded
  BY <1>1, <1>2 DEF Bounded
<1> QED BY <1>3, SourcesInvAlways, PTL

\* The 404 of a lookup is said only of an address without code when the lookup began: no
\* failure of the database, a verifier or the node ends in it, and no lookup of a proxy does
\* because its implementation has no code.
THEOREM VerdictHonestHolds == Spec => []VerdictHonest
<1>1. SourcesInv => VerdictHonest
  BY DEF SourcesInv, ReqOK, VerdictHonest
<1> QED BY <1>1, SourcesInvAlways, PTL
-----------------------------------------------------------------------------
(* What a step may do to a row.                                             *)

\* A step that changes a row marks it, or is a request's, or is a lookup's: one that keeps the
\* kind of the row, or one whose frame has read no local match with its source, and a mark only
\* if it comes with a remote match.
LEMMA RowWrites ==
  ASSUME SourcesInv, Next, NEW a \in Addrs, rows'[a] # rows[a]
  PROVE  \/ Mark(a) /\ rows'[a] = Found("manual", None)
         \/ Requested(a) /\ rows'[a].kind # "manual"
         \/ rows'[a].kind = rows[a].kind
         \/ /\ rows'[a].kind \in {"none", "unverified", "remote", "partial"}
            /\ \E h \in Handlers :
                 /\ LookupStep(h) /\ Top(h).addr = a /\ Top(h).saw \in Probed \cup {"manual"}
                 /\ rows'[a].kind \in {"remote", "partial"} \/ Top(h).saw \in Probed
<1>0. rows[a] \in Row /\ rows \in [Addrs -> Row]
  BY DEF SourcesInv, Types
<1>1. ASSUME NEW b \in Addrs, NEW r, MayWrite(b, r)
      PROVE  b = a /\ rows'[a] = r
  BY <1>0, <1>1 DEF MayWrite, Writes
<1>2. ASSUME NEW b \in Public, Mark(b) PROVE Mark(a) /\ rows'[a] = Found("manual", None)
  BY <1>2, <1>1, ConstantTypes DEF Mark, MayWrite
<1>3. ASSUME NEW b \in Public, ForceRefresh(b) PROVE Requested(a) /\ rows'[a].kind # "manual"
  BY <1>3, <1>1, ConstantTypes DEF ForceRefresh, MayWrite, Requested, NoRow, Found
<1>4. ASSUME NEW b \in Public, NEW h \in Handlers, CompileClears(h, b)
      PROVE  Requested(a) /\ rows'[a].kind # "manual"
  BY <1>4, <1>1, ConstantTypes DEF CompileClears, Requested, NoRow, Found
<1>5. ASSUME NEW h \in Handlers, RequestEnds(h) PROVE Requested(a) /\ rows'[a].kind # "manual"
  <2>1. rows'[a] = NoRow \/ \E kind \in {"local", "bare"} : rows'[a] = Found(kind, None)
    BY <1>0, <1>5 DEF RequestEnds, MayWrite, Writes
  <2> QED BY <1>5, <2>1 DEF Requested, NoRow, Found
<1>6. ASSUME NEW h \in Handlers, NEW b \in Addrs, Lookup(h, b) \/ Unmark(h, b) PROVE FALSE
  BY <1>6 DEF Lookup, Unmark
<1>7. ASSUME NEW b \in Addrs, Age(b) PROVE rows'[a].kind = rows[a].kind
  BY <1>0, <1>7 DEF Age, Writes, Row
<1>8. ASSUME World PROVE FALSE
  BY <1>8 DEF World
<1>9. ASSUME NEW h \in Handlers, LookupStep(h)
      PROVE  \/ rows'[a].kind = rows[a].kind
             \/ /\ rows'[a].kind \in {"none", "unverified", "remote", "partial"}
                /\ Top(h).addr = a /\ Top(h).saw \in Probed \cup {"manual"}
                /\ rows'[a].kind \in {"remote", "partial"} \/ Top(h).saw \in Probed
  <2>1. CASE Clear(h)
    <3>1. /\ req[h].kind = "lookup" /\ Top(h).pc = "clear" /\ MayWrite(Top(h).addr, NoRow)
      BY <2>1 DEF Clear, At
    <3>2. Top(h).addr \in Addrs /\ FrameOK(Top(h))
      BY <3>1, TopType
    <3> QED BY <1>1, <3>1, <3>2 DEF FrameOK, NoRow, Found
  <2>2. CASE Cache(h)
    <3>1. /\ req[h].kind = "lookup" /\ Top(h).pc = "cache" /\ MayWrite(Top(h).addr, Top(h).row)
      BY <2>2 DEF Cache, At
    <3>2. Top(h).addr \in Addrs /\ FrameOK(Top(h))
      BY <3>1, TopType
    <3> QED BY <1>1, <3>1, <3>2 DEF FrameOK
  <2>3. CASE Save(h)
    <3> DEFINE b == Top(h).addr
               x == IF rows[b].kind = "none" THEN rows[b]
                    ELSE [rows[b] EXCEPT !.impl = Top(h).row.impl, !.old = FALSE]
    <3>1. req[h].kind = "lookup" /\ MayWrite(b, x)
      BY <2>3 DEF Save, At
    <3>2. b \in Addrs
      BY <3>1, TopType
    <3>3. x.kind = rows[b].kind
      BY <1>0, <3>2 DEF Row
    <3> HIDE DEF x
    <3> QED BY <1>1, <3>1, <3>2, <3>3
  <2>4. CASE Refresh(h)
    <3>1. req[h].kind = "lookup" /\ MayWrite(Top(h).addr, Refreshed(Top(h).addr, Top(h).row))
      BY <2>4 DEF Refresh, At
    <3>2. Top(h).addr \in Addrs
      BY <3>1, TopType
    <3>3. Refreshed(Top(h).addr, Top(h).row).kind = rows[Top(h).addr].kind
      BY <1>0, <3>2 DEF Refreshed, Row
    <3> QED BY <1>1, <3>1, <3>2, <3>3
  <2> QED BY <1>9, <2>1, <2>2, <2>3, <2>4 DEF LookupStep, ReadRow, ReadFails, SourcifyHits,
             SourcifyMisses, BlockscanHits, BlockscanMisses, AskCode, Enhance, Enhanced
<1> QED BY <1>2, <1>3, <1>4, <1>5, <1>6, <1>7, <1>8, <1>9, ConstantTypes DEF Next, Asks

MarkKept ==
  \A a \in Addrs :
    rows[a].kind \in {"manual", "local"} /\ rows'[a].kind \notin Supersedes(rows[a].kind) =>
      \/ Requested(a)
      \/ \E h \in Handlers : LookupStep(h) /\ Top(h).addr = a /\ Top(h).saw # rows[a].kind

\* A lookup that has read a mark replaces it by nothing but a remote match, and one that has read
\* a local match with its source by nothing at all: the path of a miss is never taken by one that
\* has read the first, nor that to the verifiers by one that has read the second.
THEOREM MarksKeptHolds == Spec => MarksKept
<1>1. SourcesInv /\ [Next]_vars => [MarkKept]_vars
  <2> SUFFICES ASSUME SourcesInv, Next, NEW a \in Addrs, rows[a].kind \in {"manual", "local"},
                      rows'[a].kind \notin Supersedes(rows[a].kind)
               PROVE  \/ Requested(a)
                      \/ \E h \in Handlers :
                           LookupStep(h) /\ Top(h).addr = a /\ Top(h).saw # rows[a].kind
    BY DEF MarkKept
  <2>1. CASE Mark(a) \/ Requested(a)
    BY <2>1 DEF Requested
  <2>2. CASE ~Mark(a) /\ ~Requested(a)
    <3>1. rows'[a].kind # rows[a].kind
      BY DEF Supersedes
    <3>2. PICK h \in Handlers :
            /\ LookupStep(h) /\ Top(h).addr = a /\ Top(h).saw \in Probed \cup {"manual"}
            /\ rows'[a].kind \in {"remote", "partial"} \/ Top(h).saw \in Probed
      BY <2>2, <3>1, RowWrites
    <3>3. Top(h).saw # rows[a].kind
      BY <3>2 DEF Probed, Supersedes
    <3> QED BY <3>2, <3>3
  <2> QED BY <2>1, <2>2
<1>2. Spec => [][MarkKept]_vars
  BY <1>1, SourcesInvAlways, PTL DEF Spec
<1> QED BY <1>2 DEF MarksKept, MarkKept

NoneRevived == \A a \in Addrs : rows'[a].kind = "manual" => rows[a].kind = "manual" \/ Mark(a)

\* Nothing but a request to mark a contract makes a mark: a lookup that was probing one
\* touches what is left of the row and does not write back what it read.
THEOREM NoRevivalHolds == Spec => NoRevival
<1>1. SourcesInv /\ [Next]_vars => [NoneRevived]_vars
  <2> SUFFICES ASSUME SourcesInv, Next, NEW a \in Addrs, rows'[a].kind = "manual",
                      rows[a].kind # "manual"
               PROVE  Mark(a)
    BY DEF NoneRevived
  <2> QED BY RowWrites
<1>2. Spec => [][NoneRevived]_vars
  BY <1>1, SourcesInvAlways, PTL DEF Spec
<1> QED BY <1>2 DEF NoRevival, NoneRevived

-----------------------------------------------------------------------------
(* The resident compilers of local verification: the inductive invariant.   *)

Loading == {"read", "fetch", "write", "rename", "boot"}

\* A thread is up from its boot to its end, a runner is dead only after that, and the thread of
\* a runner that is ready ends for a reason that is known.
WorkerOK(r) ==
  /\ r.pc \in {"none", "read", "fetch", "write", "rename"} => r.thread = "none"
  /\ r.pc = "boot" => r.thread = "up"
  /\ r.pc = "failed" => r.thread # "up"
  /\ r.pc # "ready" => r.ended = "" /\ ~r.dead /\ ~r.disposing
  /\ r.pc = "ready" /\ r.thread # "up" => r.ended # ""
  /\ r.dead => r.thread # "up"
  /\ r.ended = "dispose" => r.dead

\* A resident runner is loading or ready, and nobody has given it up.
Sound(r) == r.pc \in Loading \cup {"ready"} /\ ~r.dead /\ ~r.disposing /\ ~r.victim /\ ~r.lost

Resident(cs, ws) ==
  /\ cs \in Seq(Workers) /\ IsInjective(cs)
  /\ \A w, x \in ToSet(cs) : ws[w].version = ws[x].version => w = x

CompileOK(c, ws) ==
  /\ c.pc = "idle" <=> c.on = NoWorker
  /\ c.pc = "loading" => ws[c.on].pc \in Loading
  /\ c.pc \in {"loaded", "compiling"} => ws[c.on].pc = "ready"
  /\ c.pc = "compiling" => ws[c.on].ended # "dispose"

On(cp, w, pc) == \E h \in Callers : cp[h].pc = pc /\ cp[h].on = w

\* A load has a request that waits for it; a load or a live runner is resident, or given up
\* by an eviction that waits, or lost.
Held(w, r, cs, cp) ==
  /\ r.pc \in Loading => (w \in ToSet(cs) \/ r.victim \/ r.lost) /\ On(cp, w, "loading")
  /\ r.pc = "ready" /\ r.thread = "up" =>
       w \in ToSet(cs) \/ r.lost \/ (r.disposing /\ On(cp, w, "compiling"))

PoolOK(ws, cs, cp) ==
  /\ ws \in [Workers -> Worker] /\ cp \in [Callers -> Compile]
  /\ Resident(cs, ws) /\ Len(cs) <= MaxResident
  /\ \A w \in ToSet(cs) : Sound(ws[w])
  /\ \A h \in Callers : CompileOK(cp[h], ws)
  /\ \A w \in Workers : WorkerOK(ws[w]) /\ Held(w, ws[w], cs, cp)

\* A worker nothing refers to has left no trace.
Needed(ws, cs, cp) ==
  \A w \in Workers : ws[w] # NoLoad => w \in ToSet(cs) \/ \E h \in Callers : cp[h].on = w

PoolInv ==
  /\ disk \in [Versions -> Content] /\ tmp \in [Versions -> Content]
  /\ PoolOK(worker, cache, compile) /\ Needed(worker, cache, compile)

-----------------------------------------------------------------------------
(* The cache as a sequence without repetition.                              *)

\* A cache is its elements in order.
LEMMA CacheIs ==
  ASSUME NEW cs \in Seq(Workers)
  PROVE  /\ Len(cs) \in Nat /\ DOMAIN cs = 1..Len(cs)
         /\ ToSet(cs) = {cs[i] : i \in 1..Len(cs)} /\ ToSet(cs) \subseteq Workers
         /\ IsInjective(cs) <=> \A i, j \in 1..Len(cs) : cs[i] = cs[j] => i = j
<1>1. Len(cs) \in Nat /\ DOMAIN cs = 1..Len(cs)
  OBVIOUS
<1>2. \A i \in 1..Len(cs) : cs[i] \in Workers
  BY ElementOfSeq
<1> QED
  BY <1>1, <1>2 DEF ToSet, IsInjective

\* A worker that is not there is added at the end: it was used last.
LEMMA AppendIs ==
  ASSUME NEW cs \in Seq(Workers), IsInjective(cs), NEW w \in Workers, w \notin ToSet(cs)
  PROVE  /\ Append(cs, w) \in Seq(Workers) /\ Len(Append(cs, w)) = Len(cs) + 1
         /\ IsInjective(Append(cs, w)) /\ ToSet(Append(cs, w)) = ToSet(cs) \cup {w}
<1> DEFINE a == Append(cs, w)
           l == Len(cs)
<1>1. l \in Nat /\ ToSet(cs) = {cs[i] : i \in 1..l} /\ \A i, j \in 1..l : cs[i] = cs[j] => i = j
  BY CacheIs
<1>2. a \in Seq(Workers) /\ Len(a) = l + 1 /\ (\A i \in 1..l : a[i] = cs[i]) /\ a[l + 1] = w
  BY <1>1, AppendProperties
<1>3. /\ ToSet(a) = {a[i] : i \in 1..(l + 1)}
      /\ IsInjective(a) <=> \A i, j \in 1..(l + 1) : a[i] = a[j] => i = j
  BY <1>2, CacheIs
<1>4. \A i \in 1..(l + 1) : i \in 1..l \/ i = l + 1
  BY <1>1
<1>5. (\A i \in 1..l : i \in 1..(l + 1)) /\ l + 1 \in 1..(l + 1)
  BY <1>1
<1> HIDE DEF a, l
<1>6. IsInjective(a)
  BY <1>1, <1>2, <1>3, <1>4
<1>7. ToSet(a) = ToSet(cs) \cup {w}
  BY <1>1, <1>2, <1>3, <1>4, <1>5
<1> QED
  BY <1>2, <1>6, <1>7 DEF a, l

\* What is left when the one used first goes.
LEMMA TailIs ==
  ASSUME NEW cs \in Seq(Workers), IsInjective(cs), Len(cs) > 0
  PROVE  /\ Tail(cs) \in Seq(Workers) /\ Len(Tail(cs)) = Len(cs) - 1
         /\ IsInjective(Tail(cs)) /\ ToSet(Tail(cs)) = ToSet(cs) \ {Head(cs)}
         /\ Head(cs) \in ToSet(cs)
<1> DEFINE t == Tail(cs)
           l == Len(cs)
<1>1. l \in Nat /\ ToSet(cs) = {cs[i] : i \in 1..l} /\ \A i, j \in 1..l : cs[i] = cs[j] => i = j
  BY CacheIs
<1>2. t \in Seq(Workers) /\ Len(t) = l - 1 /\ (\A i \in 1..(l - 1) : t[i] = cs[i + 1]) /\ Head(cs) = cs[1]
  OBVIOUS
<1>3. /\ ToSet(t) = {t[i] : i \in 1..(l - 1)}
      /\ IsInjective(t) <=> \A i, j \in 1..(l - 1) : t[i] = t[j] => i = j
  BY <1>2, CacheIs
<1>4. /\ \A i \in 1..(l - 1) : i + 1 \in 1..l /\ i + 1 # 1
      /\ \A i \in 1..l : i = 1 \/ (i - 1 \in 1..(l - 1) /\ (i - 1) + 1 = i)
      /\ \A i, j \in 1..(l - 1) : i + 1 = j + 1 => i = j
      /\ 1 \in 1..l
  BY <1>1
<1> HIDE DEF t, l
<1>5. IsInjective(t)
  BY <1>1, <1>2, <1>3, <1>4
<1>6. ToSet(t) \subseteq ToSet(cs) \ {Head(cs)}
  BY <1>1, <1>2, <1>3, <1>4
<1>7. ToSet(cs) \ {Head(cs)} \subseteq ToSet(t)
  <2> SUFFICES ASSUME NEW i \in 1..l, cs[i] # cs[1] PROVE cs[i] \in ToSet(t)
    BY <1>1, <1>2
  <2>1. i - 1 \in 1..(l - 1) /\ (i - 1) + 1 = i
    BY <1>4
  <2>2. t[i - 1] = cs[i]
    BY <1>2, <2>1
  <2> QED
    BY <1>3, <2>1, <2>2
<1>8. Head(cs) \in ToSet(cs)
  BY <1>1, <1>2, <1>4
<1> QED
  BY <1>2, <1>5, <1>6, <1>7, <1>8 DEF t, l

\* What is left when one entry goes.
LEMMA RemoveAtIs ==
  ASSUME NEW cs \in Seq(Workers), IsInjective(cs), NEW k \in 1..Len(cs)
  PROVE  /\ RemoveAt(cs, k) \in Seq(Workers) /\ Len(RemoveAt(cs, k)) = Len(cs) - 1
         /\ IsInjective(RemoveAt(cs, k)) /\ ToSet(RemoveAt(cs, k)) = ToSet(cs) \ {cs[k]}
<1> DEFINE l == Len(cs)
           p == SubSeq(cs, 1, k - 1)
           r == SubSeq(cs, k + 1, l)
           o == p \o r
<1>1. l \in Nat /\ k \in Int /\ 1 <= k /\ k <= l /\ \A i \in 1..l : cs[i] \in Workers
  BY ElementOfSeq
<1>2. ToSet(cs) = {cs[i] : i \in 1..l} /\ \A i, j \in 1..l : cs[i] = cs[j] => i = j
  BY CacheIs
<1>3. (\A i \in 1..(k - 1) : cs[i] \in Workers) /\ \A i \in (k + 1)..l : cs[i] \in Workers
  BY <1>1
<1>4. /\ p \in Seq(Workers) /\ Len(p) = IF 1 <= k - 1 THEN (k - 1) - 1 + 1 ELSE 0
      /\ \A i \in 1..((k - 1) - 1 + 1) : p[i] = cs[1 + i - 1]
  BY <1>1, <1>3, SubSeqProperties
<1>5. /\ r \in Seq(Workers) /\ Len(r) = IF k + 1 <= l THEN l - (k + 1) + 1 ELSE 0
      /\ \A i \in 1..(l - (k + 1) + 1) : r[i] = cs[(k + 1) + i - 1]
  BY <1>1, <1>3, SubSeqProperties
<1>6. RemoveAt(cs, k) = o
  BY DEF RemoveAt
<1> HIDE DEF p, r
<1>7. Len(p) = k - 1 /\ Len(r) = l - k /\ Len(p) + Len(r) = l - 1
  <2>1. Len(p) = k - 1 /\ Len(r) = l - k
    BY <1>1, <1>4, <1>5
  <2> QED BY <1>1, <2>1
<1>8. /\ o \in Seq(Workers) /\ Len(o) = Len(p) + Len(r)
      /\ \A i \in 1..(Len(p) + Len(r)) : o[i] = IF i <= Len(p) THEN p[i] ELSE r[i - Len(p)]
  BY <1>4, <1>5, ConcatProperties
<1> DEFINE j(i) == IF i < k THEN i ELSE i + 1
<1>9. \A i \in 1..(l - 1) : o[i] = cs[j(i)]
  <2> TAKE i \in 1..(l - 1)
  <2>1. o[i] = IF i <= k - 1 THEN p[i] ELSE r[i - (k - 1)]
    BY <1>7, <1>8
  <2>2. CASE i < k
    <3>1. i <= k - 1 /\ i \in 1..((k - 1) - 1 + 1) /\ 1 + i - 1 = i
      BY <1>1, <2>2
    <3> QED BY <1>4, <2>1, <2>2, <3>1
  <2>3. CASE ~(i < k)
    <3>1. /\ ~(i <= k - 1) /\ i - (k - 1) \in 1..(l - (k + 1) + 1)
          /\ (k + 1) + (i - (k - 1)) - 1 = i + 1
      BY <1>1, <2>3
    <3> QED BY <1>5, <2>1, <2>3, <3>1
  <2> QED BY <2>2, <2>3
<1>10. /\ \A i \in 1..(l - 1) : j(i) \in 1..l /\ j(i) # k
       /\ \A i, g \in 1..(l - 1) : j(i) = j(g) => i = g
  BY <1>1
<1>11. \A i \in 1..l : i = k \/ \E g \in 1..(l - 1) : j(g) = i
  <2> TAKE i \in 1..l
  <2>1. CASE i < k
    BY <1>1, <2>1
  <2>2. CASE i > k
    <3>1. i - 1 \in 1..(l - 1) /\ j(i - 1) = i
      BY <1>1, <2>2
    <3> QED BY <3>1
  <2> QED BY <1>1, <2>1, <2>2
<1>12. /\ ToSet(o) = {o[i] : i \in 1..(l - 1)}
       /\ IsInjective(o) <=> \A i, g \in 1..(l - 1) : o[i] = o[g] => i = g
  BY <1>7, <1>8, CacheIs
<1> HIDE DEF j, o
<1>13. IsInjective(o)
  BY <1>2, <1>9, <1>10, <1>12
<1>14. ToSet(o) \subseteq ToSet(cs) \ {cs[k]}
  BY <1>2, <1>9, <1>10, <1>12
<1>15. ToSet(cs) \ {cs[k]} \subseteq ToSet(o)
  <2> SUFFICES ASSUME NEW i \in 1..l, i # k PROVE cs[i] \in ToSet(o)
    BY <1>2
  <2>1. PICK g \in 1..(l - 1) : j(g) = i
    BY <1>11
  <2>2. o[g] = cs[i]
    BY <1>9, <2>1
  <2> QED BY <1>12, <2>2
<1> QED
  BY <1>6, <1>7, <1>8, <1>13, <1>14, <1>15 DEF l

\* What is left when the entry of a version is deleted.
LEMMA WithoutIs ==
  ASSUME NEW ws, NEW cs, Resident(cs, ws), NEW v
  PROVE  /\ Resident(WithoutVersion(ws, cs, v), ws)
         /\ ToSet(WithoutVersion(ws, cs, v)) = {x \in ToSet(cs) : ws[x].version # v}
         /\ Len(WithoutVersion(ws, cs, v)) <= Len(cs)
         /\ (\E x \in ToSet(cs) : ws[x].version = v) => Len(WithoutVersion(ws, cs, v)) = Len(cs) - 1
<1> DEFINE o == WithoutVersion(ws, cs, v)
           l == Len(cs)
<1>1. /\ cs \in Seq(Workers) /\ IsInjective(cs)
      /\ \A w, x \in ToSet(cs) : ws[w].version = ws[x].version => w = x
  BY DEF Resident
<1>2. l \in Nat /\ DOMAIN cs = 1..l /\ ToSet(cs) = {cs[i] : i \in 1..l}
  BY <1>1, CacheIs
<1>3. CASE ~ \E i \in 1..l : ws[cs[i]].version = v
  <2>1. o = cs
    BY <1>2, <1>3 DEF WithoutVersion
  <2> HIDE DEF o
  <2>2. \A x \in ToSet(cs) : ws[x].version # v
    BY <1>2, <1>3
  <2>3. ToSet(o) = {x \in ToSet(cs) : ws[x].version # v}
    BY <2>1, <2>2
  <2>4. Len(o) <= l
    BY <1>2, <2>1
  <2> QED
    BY <2>1, <2>2, <2>3, <2>4 DEF o
<1>4. CASE \E i \in 1..l : ws[cs[i]].version = v
  <2> DEFINE n == CHOOSE i \in DOMAIN cs : ws[cs[i]].version = v
  <2>1. o = RemoveAt(cs, n) /\ n \in 1..l /\ ws[cs[n]].version = v
    BY <1>2, <1>4 DEF WithoutVersion
  <2> HIDE DEF n, o
  <2>2. /\ o \in Seq(Workers) /\ Len(o) = l - 1 /\ IsInjective(o)
        /\ ToSet(o) = ToSet(cs) \ {cs[n]}
    BY <1>1, <2>1, RemoveAtIs
  <2>3. cs[n] \in ToSet(cs)
    BY <1>2, <2>1
  <2>4. ToSet(o) = {x \in ToSet(cs) : ws[x].version # v}
    BY <1>1, <2>1, <2>2, <2>3
  <2>5. Resident(o, ws)
    BY <1>1, <2>2 DEF Resident
  <2>6. Len(o) <= l
    BY <1>2, <2>2
  <2> QED
    BY <2>2, <2>4, <2>5, <2>6 DEF o, l
<1> QED
  BY <1>3, <1>4

-----------------------------------------------------------------------------
(* The state after a step.                                                  *)

\* What the constants give.
LEMMA PoolIs ==
  /\ MaxResident \in Nat /\ MaxResident >= 1 /\ NoWorker \notin Workers
  /\ NoLoad \in Worker /\ NoLoad.pc = "none" /\ NoCompile \in Compile
  /\ NoCompile.pc = "idle" /\ NoCompile.on = NoWorker
  /\ WorkerOK(NoLoad) /\ \A ws : CompileOK(NoCompile, ws)
<1>1. AnyVersion \in Versions
  BY PoolAssumption DEF AnyVersion
<1>2. NoLoad \in Worker /\ NoLoad.pc = "none" /\ WorkerOK(NoLoad)
  BY <1>1 DEF NoLoad, Worker, WorkerOK
<1>3. NoCompile \in Compile /\ NoCompile.pc = "idle" /\ NoCompile.on = NoWorker
  BY DEF NoCompile, Compile
<1>4. \A ws : CompileOK(NoCompile, ws)
  BY <1>3 DEF CompileOK
<1> QED
  BY <1>2, <1>3, <1>4, PoolAssumption

\* A request that is under way is on a worker.
LEMMA Runs ==
  ASSUME NEW ws, NEW c \in Compile, CompileOK(c, ws), c.pc # "idle"
  PROVE  c.on \in Workers /\ ws[c.on].pc \in Loading \cup {"ready"}
BY DEF Compile, CompileOK

\* What a worker, a cache and requests leave after Becomes keeps the invariant.
LEMMA BecomesKeeps ==
  ASSUME NEW ws, NEW cs, NEW cp, PoolOK(ws, cs, cp), Becomes(ws, cs, cp),
         disk' \in [Versions -> Content], tmp' \in [Versions -> Content]
  PROVE  PoolInv'
<1> DEFINE K == {w \in Workers : \/ w \in ToSet(cs) \/ \E h \in Callers : cp[h].on = w
                                 \/ ws[w].thread = "up" /\ ~ws[w].lost}
<1>1. /\ cache' = cs /\ compile' = cp
      /\ worker' = [w \in Workers |-> IF w \in K THEN ws[w] ELSE NoLoad]
  BY DEF Becomes, Settled
<1>2. /\ ws \in [Workers -> Worker] /\ cp \in [Callers -> Compile] /\ ToSet(cs) \subseteq Workers
      /\ Len(cs) <= MaxResident /\ cs \in Seq(Workers) /\ IsInjective(cs)
      /\ \A w, x \in ToSet(cs) : ws[w].version = ws[x].version => w = x
      /\ \A w \in ToSet(cs) : Sound(ws[w])
      /\ \A h \in Callers : CompileOK(cp[h], ws)
      /\ \A w \in Workers : WorkerOK(ws[w]) /\ Held(w, ws[w], cs, cp)
  BY CacheIs DEF PoolOK, Resident
<1>3. ToSet(cs) \subseteq K /\ \A h \in Callers : cp[h].on \in Workers => cp[h].on \in K
  BY <1>2
<1> HIDE DEF K
<1>4. K \subseteq Workers /\ \A w \in Workers : worker'[w] = IF w \in K THEN ws[w] ELSE NoLoad
  BY <1>1 DEF K
<1>5. worker' \in [Workers -> Worker]
  BY <1>1, <1>2, PoolIs
<1>6. Resident(cs, worker') /\ \A w \in ToSet(cs) : Sound(worker'[w])
  BY <1>2, <1>3, <1>4 DEF Resident
<1>7. ASSUME NEW h \in Callers PROVE CompileOK(cp[h], worker')
  <2>1. cp[h] \in Compile /\ CompileOK(cp[h], ws)
    BY <1>2
  <2>2. CASE cp[h].pc = "idle"
    BY <2>1, <2>2 DEF CompileOK
  <2>3. CASE cp[h].pc # "idle"
    <3>1. worker'[cp[h].on] = ws[cp[h].on]
      BY <1>3, <1>4, <2>1, <2>3, Runs
    <3> QED BY <2>1, <3>1 DEF CompileOK
  <2> QED BY <2>2, <2>3
<1>8. ASSUME NEW w \in Workers PROVE WorkerOK(worker'[w]) /\ Held(w, worker'[w], cs, cp)
  BY <1>2, <1>4, PoolIs DEF Held, Loading
<1>9. ASSUME NEW w \in Workers, worker'[w] # NoLoad
      PROVE  w \in ToSet(cs) \/ \E h \in Callers : cp[h].on = w
  <2>1. w \in K /\ worker'[w] = ws[w]
    BY <1>4, <1>9
  <2>2. CASE ws[w].thread = "up" /\ ~ws[w].lost
    <3>1. ws[w].pc \in {"boot", "ready"} /\ ws[w] \in Worker
      BY <1>2, <2>2 DEF Worker, WorkerOK
    <3>2. Held(w, ws[w], cs, cp)
      BY <1>2
    <3> QED BY <2>2, <3>1, <3>2 DEF Held, On, Loading
  <2> QED BY <2>1, <2>2 DEF K
<1> QED
  <2>1. PoolOK(worker', cs, cp)
    BY <1>2, <1>5, <1>6, <1>7, <1>8 DEF PoolOK
  <2>2. Needed(worker', cs, cp)
    BY <1>9 DEF Needed
  <2> QED BY <1>1, <2>1, <2>2 DEF PoolInv

\* The invariant but for what a resident worker w has to be.
Nearly(ws, cs, cp, w) ==
  /\ ws \in [Workers -> Worker] /\ cp \in [Callers -> Compile]
  /\ Resident(cs, ws) /\ Len(cs) <= MaxResident
  /\ \A x \in ToSet(cs) : x # w => Sound(ws[x])
  /\ \A h \in Callers : CompileOK(cp[h], ws)
  /\ \A x \in Workers : WorkerOK(ws[x]) /\ Held(x, ws[x], cs, cp)

\* The rest of it.
LEMMA NearlyAll ==
  ASSUME NEW ws, NEW cs, NEW cp, NEW w, Nearly(ws, cs, cp, w), w \in ToSet(cs) => Sound(ws[w])
  PROVE  PoolOK(ws, cs, cp)
BY DEF Nearly, PoolOK

\* The entry of the version of w goes: another runner it held is lost.
LEMMA DeletesKeeps ==
  ASSUME NEW ws, NEW cs, NEW hs, NEW w \in Workers, Nearly(ws, cs, Answered(hs), w),
         ws[w].pc \notin Loading, ws[w].thread # "up", Deletes(ws, cs, w, hs),
         disk' \in [Versions -> Content], tmp' \in [Versions -> Content]
  PROVE  PoolInv'
<1> DEFINE v  == ws[w].version
           os == Orphaned(ws, cs, v, w)
           o  == WithoutVersion(ws, cs, v)
           cp == Answered(hs)
<1>1. /\ ws \in [Workers -> Worker] /\ cp \in [Callers -> Compile] /\ ToSet(cs) \subseteq Workers
      /\ Len(cs) <= MaxResident /\ cs \in Seq(Workers) /\ Resident(cs, ws)
      /\ \A x \in ToSet(cs) : x # w => Sound(ws[x])
      /\ \A h \in Callers : CompileOK(cp[h], ws)
      /\ \A x \in Workers : WorkerOK(ws[x]) /\ Held(x, ws[x], cs, cp)
  BY CacheIs DEF Nearly, Resident
<1>2. /\ Resident(o, ws) /\ ToSet(o) = {x \in ToSet(cs) : ws[x].version # v} /\ Len(o) <= Len(cs)
  BY <1>1, WithoutIs
<1>3. Becomes(os, o, cp)
  BY DEF Deletes
<1> HIDE DEF o, cp
<1>4. \A x \in Workers :
        os[x] = [ws[x] EXCEPT !.lost = @ \/ (x \in ToSet(cs) /\ x # w /\ ws[x].version = v)]
  BY DEF Orphaned
<1>5. os \in [Workers -> Worker]
  BY <1>1 DEF Orphaned, Worker
<1> HIDE DEF os
<1>6. ASSUME NEW x \in Workers
      PROVE  /\ os[x].version = ws[x].version /\ os[x].pc = ws[x].pc /\ os[x].thread = ws[x].thread
             /\ os[x].dead = ws[x].dead /\ os[x].disposing = ws[x].disposing
             /\ os[x].victim = ws[x].victim /\ os[x].ended = ws[x].ended
             /\ os[x].lost = (ws[x].lost \/ (x \in ToSet(cs) /\ x # w /\ ws[x].version = v))
  <2>1. ws[x] \in Worker
    BY <1>1
  <2> QED BY <1>4, <2>1 DEF Worker
<1>7. ToSet(o) \subseteq Workers /\ w \notin ToSet(o) /\ Len(o) <= MaxResident
  <2>1. Len(o) \in Nat /\ Len(cs) \in Nat
    BY <1>1, <1>2, CacheIs DEF Resident
  <2> QED BY <1>1, <1>2, <2>1, PoolIs
<1>8. Resident(o, os)
  BY <1>2, <1>6, <1>7 DEF Resident
<1>9. \A x \in ToSet(o) : Sound(os[x])
  <2> TAKE x \in ToSet(o)
  <2>1. x \in Workers /\ x \in ToSet(cs) /\ x # w /\ ws[x].version # v
    BY <1>2, <1>7
  <2>2. Sound(ws[x])
    BY <1>1, <2>1
  <2> QED BY <1>6, <2>1, <2>2 DEF Sound
<1>10. \A h \in Callers : CompileOK(cp[h], os)
  <2> TAKE h \in Callers
  <2>1. CompileOK(cp[h], ws) /\ cp[h] \in Compile
    BY <1>1
  <2>2. CASE cp[h].pc = "idle"
    BY <2>1, <2>2 DEF CompileOK
  <2>3. CASE cp[h].pc # "idle"
    BY <1>6, <2>1, <2>3, Runs DEF CompileOK
  <2> QED BY <2>2, <2>3
<1>11. \A x \in Workers : WorkerOK(os[x]) /\ Held(x, os[x], o, cp)
  <2> TAKE x \in Workers
  <2>1. WorkerOK(ws[x]) /\ Held(x, ws[x], cs, cp)
    BY <1>1
  <2>2. x \in ToSet(cs) => x \in ToSet(o) \/ x = w \/ os[x].lost
    BY <1>2, <1>6
  <2>3. WorkerOK(os[x])
    BY <1>6, <2>1 DEF WorkerOK
  <2> QED BY <1>6, <2>1, <2>2, <2>3 DEF Held
<1>12. PoolOK(os, o, cp)
  BY <1>1, <1>5, <1>7, <1>8, <1>9, <1>10, <1>11 DEF PoolOK
<1> QED BY <1>3, <1>12, BecomesKeeps

\* An error of a worker keeps the invariant, dead or not.
LEMMA DropsKeeps ==
  ASSUME NEW ws, NEW cs, NEW hs, NEW w \in Workers, Nearly(ws, cs, Answered(hs), w),
         w \in ToSet(cs) => Sound(ws[w]) \/ (ws[w].dead /\ hs # {}), Drops(ws, cs, w, hs),
         disk' \in [Versions -> Content], tmp' \in [Versions -> Content]
  PROVE  PoolInv'
<1>1. CASE ws[w].dead /\ hs # {}
  <2>1. Deletes(ws, cs, w, hs)
    BY <1>1 DEF Drops
  <2>2. WorkerOK(ws[w])
    BY DEF Nearly
  <2>3. ws[w].pc \notin Loading /\ ws[w].thread # "up"
    BY <1>1, <2>2 DEF WorkerOK, Loading
  <2> QED BY <2>1, <2>3, DeletesKeeps
<1>2. CASE ~(ws[w].dead /\ hs # {})
  <2>1. Becomes(ws, cs, Answered(hs))
    BY <1>2 DEF Drops
  <2>2. PoolOK(ws, cs, Answered(hs))
    BY <1>2, NearlyAll
  <2> QED BY <2>1, <2>2, BecomesKeeps
<1> QED BY <1>1, <1>2

\* One worker is written, and the requests go on.
LEMMA OneWorker ==
  ASSUME PoolInv, NEW w \in Workers, NEW r \in Worker, NEW cp \in [Callers -> Compile],
         r.version = worker[w].version, WorkerOK(r), Held(w, r, cache, cp),
         \A h \in Callers : CompileOK(cp[h], [worker EXCEPT ![w] = r]),
         \A x \in Workers \ {w}, pc \in {"loading", "compiling"} : On(compile, x, pc) => On(cp, x, pc)
  PROVE  Nearly([worker EXCEPT ![w] = r], cache, cp, w)
<1> DEFINE ws == [worker EXCEPT ![w] = r]
<1>1. /\ worker \in [Workers -> Worker] /\ Resident(cache, worker) /\ Len(cache) <= MaxResident
      /\ ToSet(cache) \subseteq Workers /\ \A x \in ToSet(cache) : Sound(worker[x])
      /\ \A x \in Workers : WorkerOK(worker[x]) /\ Held(x, worker[x], cache, compile)
  BY CacheIs DEF PoolInv, PoolOK, Resident
<1>2. ws \in [Workers -> Worker] /\ \A x \in Workers : ws[x] = IF x = w THEN r ELSE worker[x]
  BY <1>1
<1> HIDE DEF ws
<1>3. Resident(cache, ws)
  BY <1>1, <1>2 DEF Resident
<1>4. \A x \in ToSet(cache) : x # w => Sound(ws[x])
  BY <1>1, <1>2
<1>5. \A x \in Workers : WorkerOK(ws[x]) /\ Held(x, ws[x], cache, cp)
  BY <1>1, <1>2 DEF Held
<1> QED
  BY <1>1, <1>2, <1>3, <1>4, <1>5 DEF Nearly, ws

-----------------------------------------------------------------------------
(* The steps.                                                               *)

\* The parts of the invariant.
LEMMA InvParts ==
  ASSUME PoolInv
  PROVE  /\ disk \in [Versions -> Content] /\ tmp \in [Versions -> Content]
         /\ worker \in [Workers -> Worker] /\ compile \in [Callers -> Compile]
         /\ Resident(cache, worker) /\ cache \in Seq(Workers) /\ Len(cache) <= MaxResident
         /\ ToSet(cache) \subseteq Workers /\ \A x \in ToSet(cache) : Sound(worker[x])
         /\ \A h \in Callers : CompileOK(compile[h], worker)
         /\ \A x \in Workers : WorkerOK(worker[x]) /\ Held(x, worker[x], cache, compile)
         /\ Needed(worker, cache, compile)
BY CacheIs DEF PoolInv, PoolOK, Resident

\* The requests after some of them were answered.
LEMMA AnsweredIs ==
  ASSUME PoolInv, NEW hs
  PROVE  /\ Answered(hs) \in [Callers -> Compile]
         /\ \A h \in Callers : Answered(hs)[h] = IF h \in hs THEN NoCompile ELSE compile[h]
BY InvParts, PoolIs DEF Answered

\* Who waits.
LEMMA WaitsIs ==
  ASSUME PoolInv, NEW w, NEW pc
  PROVE  \A h \in Callers : h \in Waits(w, pc) <=> compile[h].pc = pc /\ compile[h].on = w
<1> TAKE h \in Callers
<1>1. compile[h] \in Compile
  BY InvParts
<1> QED BY <1>1 DEF Waits, Compile

\* A worker that is not forgotten goes on by itself.
LEMMA AloneKeeps ==
  ASSUME PoolInv, NEW w \in Workers, NEW r \in Worker, worker' = [worker EXCEPT ![w] = r],
         r.version = worker[w].version, WorkerOK(r), Held(w, r, cache, compile),
         worker[w] # NoLoad, Sound(worker[w]) => Sound(r),
         \A h \in Callers : CompileOK(compile[h], [worker EXCEPT ![w] = r]),
         UNCHANGED <<cache, compile>>,
         disk' \in [Versions -> Content], tmp' \in [Versions -> Content]
  PROVE  PoolInv'
<1>1. Nearly([worker EXCEPT ![w] = r], cache, compile, w)
  BY InvParts, OneWorker
<1>2. /\ worker \in [Workers -> Worker] /\ Needed(worker, cache, compile)
      /\ \A x \in ToSet(cache) : Sound(worker[x])
  BY InvParts
<1>3. w \in ToSet(cache) => Sound(worker'[w])
  BY <1>2
<1>4. PoolOK(worker', cache, compile)
  BY <1>1, <1>3, NearlyAll
<1>5. Needed(worker', cache, compile)
  BY <1>2 DEF Needed
<1> QED BY <1>4, <1>5 DEF PoolInv

\* A load takes a step: its thread is up when it boots.
LEMMA LoadsOn ==
  ASSUME PoolInv, NEW w \in Workers, worker[w].pc \in Loading \ {"boot"}, UNCHANGED <<cache, compile>>,
         \/ \E pc \in {"fetch", "write", "rename"} : Moves(w, pc)
         \/ Boots(w),
         disk' \in [Versions -> Content], tmp' \in [Versions -> Content]
  PROVE  PoolInv'
<1> DEFINE Onward(pc) == [worker[w] EXCEPT !.pc = pc, !.thread = IF pc = "boot" THEN "up" ELSE @]
<1>0. worker \in [Workers -> Worker] /\ worker[w] \in Worker
  BY InvParts
<1>1. PICK pc \in Loading : worker' = [worker EXCEPT ![w] = Onward(pc)] /\ pc # "read"
  <2>1. CASE Boots(w)
    <3>1. worker' = [worker EXCEPT ![w] = Onward("boot")]
      BY <1>0, <2>1 DEF Boots, Worker
    <3> QED BY <3>1 DEF Loading
  <2>2. CASE \E pc \in {"fetch", "write", "rename"} : Moves(w, pc)
    <3>1. PICK pc \in {"fetch", "write", "rename"} : Moves(w, pc)
      BY <2>2
    <3>2. [worker[w] EXCEPT !.pc = pc] = Onward(pc)
      BY <1>0, <3>1 DEF Worker
    <3>3. worker' = [worker EXCEPT ![w] = [worker[w] EXCEPT !.pc = pc]]
      BY <3>1 DEF Moves
    <3>4. worker' = [worker EXCEPT ![w] = Onward(pc)]
      BY <3>2, <3>3, Zenon
    <3> QED BY <3>4 DEF Loading
  <2> QED BY <2>1, <2>2
<1> DEFINE r == Onward(pc)
<1>2. /\ worker[w] \in Worker /\ WorkerOK(worker[w]) /\ Held(w, worker[w], cache, compile)
      /\ worker \in [Workers -> Worker] /\ compile \in [Callers -> Compile]
      /\ \A h \in Callers : CompileOK(compile[h], worker)
  BY InvParts
<1>3. /\ r \in Worker /\ r.version = worker[w].version /\ r.pc = pc
      /\ r.thread = IF pc = "boot" THEN "up" ELSE worker[w].thread
      /\ r.dead = worker[w].dead /\ r.disposing = worker[w].disposing /\ r.victim = worker[w].victim
      /\ r.lost = worker[w].lost /\ r.ended = worker[w].ended
  BY <1>2 DEF Worker, Loading
<1>4. worker' = [worker EXCEPT ![w] = r]
  BY <1>1
<1> HIDE DEF r
<1>5. WorkerOK(r)
  BY <1>1, <1>2, <1>3 DEF WorkerOK, Loading
<1>6. Held(w, r, cache, compile)
  BY <1>1, <1>2, <1>3 DEF Held, Loading
<1>7. Sound(worker[w]) => Sound(r)
  BY <1>3 DEF Sound
<1>8. worker[w] # NoLoad
  BY PoolIs DEF Loading
<1>9. ASSUME NEW h \in Callers PROVE CompileOK(compile[h], [worker EXCEPT ![w] = r])
  <2>1. compile[h] \in Compile /\ CompileOK(compile[h], worker)
    BY <1>2
  <2>2. CASE compile[h].pc = "idle"
    BY <2>1, <2>2 DEF CompileOK
  <2>3. CASE compile[h].pc # "idle"
    <3>1. compile[h].on \in Workers
      BY <2>1, <2>3, Runs
    <3> QED BY <1>1, <1>2, <1>3, <2>1, <3>1 DEF CompileOK, Loading
  <2> QED BY <2>2, <2>3
<1> QED
  BY <1>3, <1>4, <1>5, <1>6, <1>7, <1>8, <1>9, AloneKeeps

\* The requests of a load that fails are answered, its thread is ended, and its entry deleted.
LEMMA FailsKeeps ==
  ASSUME PoolInv, NEW w \in Workers, worker[w].pc \in Loading, Fails(w),
         disk' \in [Versions -> Content], tmp' \in [Versions -> Content]
  PROVE  PoolInv'
<1> DEFINE r  == [worker[w] EXCEPT !.pc = "failed", !.thread = IF @ = "up" THEN "ending" ELSE @]
           ws == [worker EXCEPT ![w] = r]
           hs == Waits(w, "loading")
           cp == Answered(hs)
<1>1. /\ worker[w] \in Worker /\ WorkerOK(worker[w])
      /\ worker \in [Workers -> Worker] /\ compile \in [Callers -> Compile]
      /\ \A h \in Callers : CompileOK(compile[h], worker)
  BY InvParts
<1>2. /\ r \in Worker /\ r.version = worker[w].version /\ r.pc = "failed" /\ r.thread # "up"
      /\ r.dead = worker[w].dead /\ r.disposing = worker[w].disposing /\ r.ended = worker[w].ended
  BY <1>1 DEF Worker
<1>3. Deletes(ws, cache, w, hs)
  BY DEF Fails
<1>4. /\ cp \in [Callers -> Compile]
      /\ \A h \in Callers : cp[h] = IF h \in hs THEN NoCompile ELSE compile[h]
      /\ \A h \in Callers : h \in hs <=> compile[h].pc = "loading" /\ compile[h].on = w
  BY AnsweredIs, WaitsIs
<1> HIDE DEF r, hs, cp
<1>5. WorkerOK(r) /\ Held(w, r, cache, cp)
  BY <1>1, <1>2 DEF WorkerOK, Held, Loading
<1>6. ASSUME NEW h \in Callers PROVE CompileOK(cp[h], ws)
  <2>1. compile[h] \in Compile /\ CompileOK(compile[h], worker)
    BY <1>1
  <2>2. CASE h \in hs
    BY <1>4, <2>2, PoolIs
  <2>3. CASE h \notin hs /\ compile[h].pc = "idle"
    BY <1>4, <2>1, <2>3 DEF CompileOK
  <2>4. CASE h \notin hs /\ compile[h].pc # "idle"
    <3>1. compile[h].on \in Workers /\ cp[h] = compile[h]
      BY <1>4, <2>1, <2>4, Runs
    <3>2. compile[h].on # w
      BY <1>4, <2>1, <2>4 DEF CompileOK, Compile, Loading
    <3>3. ws[compile[h].on] = worker[compile[h].on]
      BY <1>1, <3>1, <3>2
    <3> QED BY <2>1, <3>1, <3>3 DEF CompileOK
  <2> QED BY <2>2, <2>3, <2>4
<1>7. ASSUME NEW x \in Workers \ {w}, NEW pc \in {"loading", "compiling"}, On(compile, x, pc)
      PROVE  On(cp, x, pc)
  BY <1>4, <1>7 DEF On
<1>8. Nearly(ws, cache, cp, w)
  BY <1>2, <1>4, <1>5, <1>6, <1>7, OneWorker
<1>9. ws[w] = r
  BY <1>1
<1> QED
  BY <1>2, <1>3, <1>8, <1>9, DeletesKeeps DEF cp, Loading

\* Every step of a load up to its end.
LEMMA LoadKeeps ==
  ASSUME PoolInv, NEW w \in Workers,
         ReadFile(w) \/ Download(w) \/ DownloadFails(w) \/ Written(w) \/ Rename(w) \/ BootFails(w)
  PROVE  PoolInv'
<1>1. /\ disk \in [Versions -> Content] /\ tmp \in [Versions -> Content] /\ worker[w].version \in Versions
  BY InvParts DEF Worker
<1>2. CASE ReadFile(w)
  BY <1>1, <1>2, LoadsOn DEF ReadFile, Loading
<1>3. CASE Download(w)
  <2>1. tmp' \in [Versions -> Content]
    BY <1>1, <1>3 DEF Download, Content
  <2> QED BY <1>1, <1>3, <2>1, LoadsOn DEF Download, Loading
<1>4. CASE DownloadFails(w)
  BY <1>1, <1>4, FailsKeeps DEF DownloadFails, Loading
<1>5. CASE Written(w)
  <2>1. tmp' \in [Versions -> Content] /\ disk' \in [Versions -> Content]
    BY <1>1, <1>5 DEF Written, Content
  <2> QED BY <1>1, <1>5, <2>1, LoadsOn DEF Written, Loading
<1>6. CASE Rename(w)
  <2>1. tmp' \in [Versions -> Content] /\ disk' \in [Versions -> Content]
    BY <1>1, <1>6 DEF Rename, Content
  <2>2. CASE tmp[worker[w].version] # "none"
    BY <1>6, <2>1, <2>2, LoadsOn DEF Rename, Loading
  <2>3. CASE tmp[worker[w].version] = "none"
    BY <1>6, <2>1, <2>3, FailsKeeps DEF Rename, Loading
  <2> QED BY <2>2, <2>3
<1>7. CASE BootFails(w)
  BY <1>1, <1>7, FailsKeeps DEF BootFails, Loading
<1> QED BY <1>2, <1>3, <1>4, <1>5, <1>6, <1>7

\* The build is up: its requests go on, and a victim is disposed before them.
LEMMA ReadyKeeps ==
  ASSUME PoolInv, NEW w \in Workers, Ready(w)
  PROVE  PoolInv'
<1> DEFINE ready == [worker[w] EXCEPT !.pc = "ready"]
           r  == IF ready.victim THEN Disposed(ready, FALSE) ELSE ready
           ws == [worker EXCEPT ![w] = r]
           cp == [h \in Callers |-> IF h \in Waits(w, "loading") THEN [pc |-> "loaded", on |-> w]
                                      ELSE compile[h]]
<1>1. /\ worker[w] \in Worker /\ WorkerOK(worker[w]) /\ Held(w, worker[w], cache, compile)
      /\ worker \in [Workers -> Worker] /\ compile \in [Callers -> Compile]
      /\ \A h \in Callers : CompileOK(compile[h], worker)
      /\ \A x \in ToSet(cache) : Sound(worker[x])
      /\ disk \in [Versions -> Content] /\ tmp \in [Versions -> Content]
  BY InvParts
<1>2. Becomes(ws, cache, cp) /\ worker[w].pc = "boot" /\ UNCHANGED <<disk, tmp>>
  BY DEF Ready
<1>3. /\ ready \in Worker /\ ready.thread = "up" /\ ready.pc = "ready"
      /\ ready.version = worker[w].version
      /\ ready.victim = worker[w].victim /\ ready.lost = worker[w].lost /\ ~ready.dead
      /\ ~ready.disposing /\ ready.ended = ""
  BY <1>1, <1>2 DEF Worker, WorkerOK
<1> HIDE DEF ready
<1>4. /\ r \in Worker /\ r.pc = "ready" /\ r.version = worker[w].version
      /\ ready.victim => r.dead /\ r.thread = "ending" /\ r.ended = "dispose"
      /\ ~ready.victim => r = ready
  BY <1>3 DEF Worker, Disposed
<1>5. /\ cp \in [Callers -> Compile]
      /\ \A h \in Callers : IF compile[h].pc = "loading" /\ compile[h].on = w
                              THEN cp[h].pc = "loaded" /\ cp[h].on = w ELSE cp[h] = compile[h]
  <2>1. [pc |-> "loaded", on |-> w] \in Compile
    BY DEF Compile
  <2> QED BY <1>1, <2>1, WaitsIs
<1> HIDE DEF r, cp
<1>6. WorkerOK(r)
  BY <1>3, <1>4 DEF WorkerOK
<1>7. Held(w, r, cache, cp)
  BY <1>1, <1>2, <1>3, <1>4 DEF Held, Loading
<1>8. ws \in [Workers -> Worker] /\ \A x \in Workers : ws[x] = IF x = w THEN r ELSE worker[x]
  BY <1>1, <1>4
<1> HIDE DEF ws
<1>9. ASSUME NEW h \in Callers PROVE CompileOK(cp[h], ws)
  <2>1. compile[h] \in Compile /\ CompileOK(compile[h], worker)
    BY <1>1
  <2>2. CASE compile[h].pc = "loading" /\ compile[h].on = w
    BY <1>4, <1>5, <1>8, <2>2, PoolIs DEF CompileOK
  <2>3. CASE compile[h].pc = "idle"
    BY <1>5, <2>1, <2>3 DEF CompileOK
  <2>4. CASE compile[h].pc # "idle" /\ ~(compile[h].pc = "loading" /\ compile[h].on = w)
    <3>1. compile[h].on \in Workers /\ cp[h] = compile[h]
      BY <1>5, <2>1, <2>4, Runs
    <3>2. compile[h].on # w
      BY <1>2, <2>1, <2>4 DEF CompileOK, Compile, Loading
    <3> QED BY <1>8, <2>1, <3>1, <3>2 DEF CompileOK
  <2> QED BY <2>2, <2>3, <2>4
<1>10. ASSUME NEW x \in Workers \ {w}, NEW pc \in {"loading", "compiling"}, On(compile, x, pc)
       PROVE  On(cp, x, pc)
  BY <1>5, <1>10 DEF On
<1>11. Nearly(ws, cache, cp, w)
  BY <1>4, <1>5, <1>6, <1>7, <1>9, <1>10, OneWorker DEF ws
<1>12. w \in ToSet(cache) => Sound(ws[w])
  BY <1>1, <1>3, <1>4, <1>8 DEF Sound
<1>13. PoolOK(ws, cache, cp)
  BY <1>11, <1>12, NearlyAll
<1> QED BY <1>1, <1>2, <1>13, BecomesKeeps

\* The requests hs, that compile on w or are to, hear of it, and w becomes r.
LEMMA HearKeeps ==
  ASSUME PoolInv, NEW w \in Workers, NEW r \in Worker, NEW hs,
         worker[w].pc = "ready", r.pc = "ready", r.version = worker[w].version, WorkerOK(r),
         \A h \in Callers : h \in hs => compile[h].on = w /\ compile[h].pc \in {"loaded", "compiling"},
         r.thread = "up" =>
           w \in ToSet(cache) \/ r.lost \/ (r.disposing /\ On(Answered(hs), w, "compiling")),
         r.ended = "dispose" => ~On(Answered(hs), w, "compiling")
  PROVE  Nearly([worker EXCEPT ![w] = r], cache, Answered(hs), w)
<1> DEFINE ws == [worker EXCEPT ![w] = r]
           cp == Answered(hs)
<1>1. /\ worker \in [Workers -> Worker] /\ compile \in [Callers -> Compile]
      /\ \A h \in Callers : CompileOK(compile[h], worker)
  BY InvParts
<1>2. /\ cp \in [Callers -> Compile]
      /\ \A h \in Callers : cp[h] = IF h \in hs THEN NoCompile ELSE compile[h]
  BY AnsweredIs
<1>3. ws \in [Workers -> Worker] /\ \A x \in Workers : ws[x] = IF x = w THEN r ELSE worker[x]
  BY <1>1
<1> HIDE DEF ws, cp
<1>4. ASSUME NEW h \in Callers PROVE CompileOK(cp[h], ws)
  <2>1. compile[h] \in Compile /\ CompileOK(compile[h], worker)
    BY <1>1
  <2>2. CASE h \in hs
    BY <1>2, <2>2, PoolIs
  <2>3. CASE h \notin hs /\ compile[h].pc = "idle"
    BY <1>2, <2>1, <2>3 DEF CompileOK
  <2>4. CASE h \notin hs /\ compile[h].pc # "idle"
    <3>1. compile[h].on \in Workers /\ cp[h] = compile[h]
      BY <1>2, <2>1, <2>4, Runs
    <3>2. CASE compile[h].on # w
      BY <1>3, <2>1, <3>1, <3>2 DEF CompileOK
    <3>3. CASE compile[h].on = w
      <4>1. compile[h].pc = "compiling" => r.ended # "dispose"
        BY <3>1, <3>3 DEF On, cp
      <4>2. compile[h].pc # "loading"
        BY <2>1, <3>3 DEF CompileOK, Loading
      <4> QED BY <1>3, <2>1, <3>1, <3>3, <4>1, <4>2 DEF CompileOK
    <3> QED BY <3>2, <3>3
  <2> QED BY <2>2, <2>3, <2>4
<1>5. ASSUME NEW x \in Workers \ {w}, NEW pc \in {"loading", "compiling"}, On(compile, x, pc)
      PROVE  On(cp, x, pc)
  BY <1>2, <1>5 DEF On
<1>6. Held(w, r, cache, cp)
  BY DEF Held, Loading, cp
<1> QED
  BY <1>2, <1>4, <1>5, <1>6, OneWorker DEF ws, cp

\* A request that is loaded or compiles is on a runner that is ready.
LEMMA OnReady ==
  ASSUME PoolInv, NEW h \in Callers, compile[h].pc \in {"loaded", "compiling"}
  PROVE  /\ compile[h].on \in Workers /\ worker[compile[h].on].pc = "ready"
         /\ compile[h].pc = "compiling" => worker[compile[h].on].ended # "dispose"
<1>1. compile[h] \in Compile /\ CompileOK(compile[h], worker)
  BY InvParts
<1> QED BY <1>1, Runs DEF CompileOK

\* A request goes on to compile, or hears that its runner is dead.
LEMMA BeginKeeps ==
  ASSUME PoolInv, NEW h \in Callers, Begin(h)
  PROVE  PoolInv'
<1> DEFINE w == compile[h].on
<1>1. /\ worker \in [Workers -> Worker] /\ compile \in [Callers -> Compile]
      /\ Needed(worker, cache, compile)
      /\ \A g \in Callers : CompileOK(compile[g], worker)
      /\ \A x \in ToSet(cache) : Sound(worker[x])
      /\ \A x \in Workers : WorkerOK(worker[x]) /\ Held(x, worker[x], cache, compile)
      /\ disk \in [Versions -> Content] /\ tmp \in [Versions -> Content]
      /\ Resident(cache, worker) /\ Len(cache) <= MaxResident
  BY InvParts
<1>2. /\ compile[h].pc = "loaded" /\ w \in Workers /\ worker[w].pc = "ready" /\ worker[w] \in Worker
      /\ UNCHANGED <<disk, tmp>>
  BY <1>1, OnReady DEF Begin
<1>3. CASE worker[w].dead
  <2> DEFINE hs == {h}
  <2>1. [worker EXCEPT ![w] = worker[w]] = worker
    BY <1>1
  <2>2. worker[w].thread # "up"
    BY <1>1, <1>2, <1>3 DEF WorkerOK
  <2>3. ~On(Answered(hs), w, "compiling") \/ worker[w].ended # "dispose"
    <3> SUFFICES ASSUME NEW g \in Callers, Answered(hs)[g].pc = "compiling", Answered(hs)[g].on = w
                 PROVE  worker[w].ended # "dispose"
      BY DEF On
    <3>1. compile[g].pc = "compiling" /\ compile[g].on = w
      BY AnsweredIs, PoolIs
    <3> QED BY <3>1, OnReady
  <2>4. Nearly(worker, cache, Answered(hs), w)
    BY <1>1, <1>2, <2>1, <2>2, <2>3, HearKeeps
  <2>5. w \notin ToSet(cache)
    BY <1>1, <1>3 DEF Sound
  <2>6. Drops(worker, cache, w, hs)
    BY <1>3 DEF Begin
  <2> QED BY <1>1, <1>2, <2>4, <2>5, <2>6, DropsKeeps
<1>4. CASE ~worker[w].dead
  <2>1. compile' = [compile EXCEPT ![h].pc = "compiling"] /\ UNCHANGED <<cache, worker>>
    BY <1>4 DEF Begin
  <2>2. /\ compile' \in [Callers -> Compile]
        /\ \A g \in Callers : compile'[g].on = compile[g].on
        /\ \A g \in Callers : compile'[g].pc = IF g = h THEN "compiling" ELSE compile[g].pc
    BY <1>1, <2>1 DEF Compile
  <2>3. worker[w].ended # "dispose"
    BY <1>1, <1>2, <1>4 DEF WorkerOK
  <2>4. \A g \in Callers : CompileOK(compile'[g], worker)
    BY <1>1, <1>2, <2>2, <2>3 DEF CompileOK
  <2>5. \A x \in Workers, pc \in {"loading", "compiling"} : On(compile, x, pc) => On(compile', x, pc)
    BY <1>2, <2>2 DEF On
  <2>6. \A x \in Workers : Held(x, worker[x], cache, compile')
    BY <1>1, <2>5 DEF Held
  <2>7. PoolOK(worker, cache, compile')
    BY <1>1, <2>2, <2>4, <2>6 DEF PoolOK
  <2>8. Needed(worker, cache, compile')
    BY <1>1, <2>2 DEF Needed
  <2> QED BY <1>1, <1>2, <2>1, <2>7, <2>8 DEF PoolInv
<1> QED BY <1>3, <1>4

\* The runner of a compile that has settled, disposed if that was the last one and it has to be.
LEMMA AfterIs ==
  ASSUME PoolInv, NEW h \in Callers, compile[h].pc = "compiling", worker[compile[h].on].thread = "up"
  PROVE  /\ Nearly(After(h), cache, Answered({h}), compile[h].on)
         /\ compile[h].on \in ToSet(cache) => Sound(After(h)[compile[h].on])
<1> DEFINE w    == compile[h].on
           busy == Waits(w, "compiling") # {h}
           r    == Idle(worker[w], busy)
           cp   == Answered({h})
<1>1. /\ worker \in [Workers -> Worker] /\ worker[w] \in Worker /\ w \in Workers /\ worker[w].pc = "ready"
      /\ worker[w].ended # "dispose" /\ WorkerOK(worker[w]) /\ Held(w, worker[w], cache, compile)
      /\ w \in ToSet(cache) => Sound(worker[w])
  BY InvParts, OnReady
<1>2. After(h) = [worker EXCEPT ![w] = r] /\ After(h)[w] = r
  BY <1>1 DEF After
<1>3. busy <=> On(cp, w, "compiling")
  <2>1. h \in Waits(w, "compiling") /\ Waits(w, "compiling") \subseteq Callers
    BY WaitsIs DEF Waits
  <2>2. \A g \in Callers : cp[g].pc = "compiling" /\ cp[g].on = w <=> g # h /\ g \in Waits(w, "compiling")
    BY AnsweredIs, WaitsIs, PoolIs
  <2> HIDE DEF cp, w
  <2> QED BY <2>1, <2>2 DEF On
<1>4. /\ r \in Worker /\ r.pc = "ready" /\ r.version = worker[w].version /\ WorkerOK(r)
      /\ r.thread = "up" => r = worker[w] /\ (r.disposing => busy)
      /\ r.ended = "dispose" => ~busy
      /\ ~worker[w].disposing => r = worker[w]
  <2> HIDE DEF busy, w
  <2>0. busy \in BOOLEAN /\ ~worker[w].dead
    BY <1>1 DEF WorkerOK, busy, w
  <2>1. CASE ~worker[w].disposing
    BY <1>1, <2>1 DEF Idle
  <2>2. CASE worker[w].disposing /\ busy
    <3>1. [worker[w] EXCEPT !.disposing = TRUE] = worker[w]
      BY <1>1, <2>2 DEF Worker
    <3>2. r = [worker[w] EXCEPT !.disposing = TRUE]
      BY <2>2 DEF Idle, Disposed
    <3>3. r = worker[w]
      BY <3>1, <3>2, Zenon
    <3> HIDE DEF r
    <3> QED BY <1>1, <2>2, <3>3
  <2>3. CASE worker[w].disposing /\ ~busy
    <3>1. /\ r \in Worker /\ r.pc = "ready" /\ r.version = worker[w].version
          /\ r.dead /\ r.thread = "ending"
          /\ r.ended # ""
      BY <1>1, <2>0, <2>3 DEF Idle, Disposed, Worker, w
    <3>2. WorkerOK(r)
      BY <3>1 DEF WorkerOK
    <3> HIDE DEF r
    <3> QED BY <2>3, <3>1, <3>2
  <2> QED BY <2>1, <2>2, <2>3
<1> HIDE DEF r, busy, cp, w
<1>5. r.thread = "up" => w \in ToSet(cache) \/ r.lost \/ (r.disposing /\ On(cp, w, "compiling"))
  BY <1>1, <1>3, <1>4 DEF Held
<1>6. Nearly([worker EXCEPT ![w] = r], cache, cp, w)
  BY <1>1, <1>3, <1>4, <1>5, HearKeeps DEF cp, w
<1>7. w \in ToSet(cache) => Sound(r)
  BY <1>1, <1>4 DEF Sound
<1> QED BY <1>2, <1>6, <1>7 DEF cp, w

\* A compile settles, with an answer or an error.
LEMMA SettlesKeeps ==
  ASSUME PoolInv, NEW h \in Callers, Compiled(h) \/ Throws(h)
  PROVE  PoolInv'
<1>1. /\ compile[h].pc = "compiling" /\ worker[compile[h].on].thread = "up" /\ UNCHANGED <<disk, tmp>>
      /\ compile[h].on \in Workers
      /\ disk \in [Versions -> Content] /\ tmp \in [Versions -> Content]
  BY InvParts, OnReady DEF Compiled, Throws
<1>2. /\ Nearly(After(h), cache, Answered({h}), compile[h].on)
      /\ compile[h].on \in ToSet(cache) => Sound(After(h)[compile[h].on])
  BY <1>1, AfterIs
<1>3. CASE Compiled(h)
  <2>1. PoolOK(After(h), cache, Answered({h}))
    BY <1>2, NearlyAll
  <2> QED BY <1>1, <1>3, <2>1, BecomesKeeps DEF Compiled
<1>4. CASE Throws(h)
  BY <1>1, <1>2, <1>4, DropsKeeps DEF Throws
<1> QED BY <1>3, <1>4

\* A compile is given up: the runner is dead, and leaves the cache.
LEMMA ExpireKeeps ==
  ASSUME PoolInv, NEW h \in Callers, compile[h].pc = "compiling", Expire(h)
  PROVE  PoolInv'
<1> DEFINE w  == compile[h].on
           r  == [worker[w] EXCEPT !.dead = TRUE, !.thread = IF @ = "up" THEN "ending" ELSE @,
                                   !.ended = IF @ = "" THEN "timeout" ELSE @]
           hs == {h}
<1>1. /\ worker \in [Workers -> Worker] /\ worker[w] \in Worker /\ w \in Workers /\ worker[w].pc = "ready"
      /\ worker[w].ended # "dispose" /\ WorkerOK(worker[w])
      /\ disk \in [Versions -> Content] /\ tmp \in [Versions -> Content]
  BY InvParts, OnReady
<1>2. Drops([worker EXCEPT ![w] = r], cache, w, hs) /\ UNCHANGED <<disk, tmp>>
  BY <1>1 DEF Expire
<1>3. /\ r \in Worker /\ r.pc = "ready" /\ r.version = worker[w].version /\ r.dead /\ r.thread # "up"
      /\ r.ended # "" /\ r.ended # "dispose"
  BY <1>1 DEF Worker
<1> HIDE DEF r
<1>4. WorkerOK(r)
  BY <1>3 DEF WorkerOK
<1>5. Nearly([worker EXCEPT ![w] = r], cache, Answered(hs), w)
  BY <1>1, <1>3, <1>4, HearKeeps
<1>6. [worker EXCEPT ![w] = r][w] = r
  BY <1>1
<1> QED BY <1>1, <1>2, <1>3, <1>5, <1>6, DropsKeeps

\* Every step of a compile.
LEMMA CompileStepKeeps ==
  ASSUME PoolInv, NEW h \in Callers, CompileStep(h)
  PROVE  PoolInv'
<1>1. CASE Begin(h)
  BY <1>1, BeginKeeps
<1>2. CASE Compiled(h) \/ Throws(h)
  BY <1>2, SettlesKeeps
<1>3. CASE TimesOut(h) \/ GivenUp(h)
  BY <1>3, ExpireKeeps DEF TimesOut, GivenUp
<1> QED BY <1>1, <1>2, <1>3 DEF CompileStep

\* A thread that ends by itself leaves a runner that is not known to be dead.
LEMMA CrashKeeps ==
  ASSUME PoolInv, NEW w \in Workers, Crash(w)
  PROVE  PoolInv'
<1> DEFINE r == [worker[w] EXCEPT !.thread = "ending", !.ended = "crash"]
<1>1. /\ worker \in [Workers -> Worker] /\ worker[w] \in Worker /\ WorkerOK(worker[w])
      /\ \A g \in Callers : compile[g] \in Compile /\ CompileOK(compile[g], worker)
      /\ disk \in [Versions -> Content] /\ tmp \in [Versions -> Content]
      /\ worker[w].pc = "ready" /\ UNCHANGED <<disk, tmp, cache, compile>>
  BY InvParts DEF Crash
<1>2. worker' = [worker EXCEPT ![w] = r]
  BY <1>1 DEF Crash, Worker
<1>3. /\ r \in Worker /\ r.pc = "ready" /\ r.version = worker[w].version /\ r.thread = "ending"
      /\ r.ended = "crash" /\ r.dead = worker[w].dead /\ r.disposing = worker[w].disposing
      /\ r.victim = worker[w].victim /\ r.lost = worker[w].lost
  BY <1>1 DEF Worker
<1> HIDE DEF r
<1>4. WorkerOK(r) /\ Held(w, r, cache, compile) /\ (Sound(worker[w]) => Sound(r))
  BY <1>1, <1>3 DEF WorkerOK, Held, Loading, Sound
<1>5. worker[w] # NoLoad
  BY <1>1, PoolIs
<1>6. ASSUME NEW g \in Callers PROVE CompileOK(compile[g], [worker EXCEPT ![w] = r])
  <2>1. CASE compile[g].pc = "idle"
    BY <1>1, <2>1 DEF CompileOK
  <2>2. CASE compile[g].pc # "idle"
    <3>1. compile[g].on \in Workers
      BY <1>1, <2>2, Runs
    <3> QED BY <1>1, <1>3, <3>1 DEF CompileOK
  <2> QED BY <2>1, <2>2
<1> QED
  BY <1>1, <1>2, <1>3, <1>4, <1>5, <1>6, AloneKeeps

\* A thread that ends is one of a runner that is ready.
LEMMA EndingIsReady ==
  ASSUME PoolInv, NEW w \in Workers, worker[w].thread = "ending"
  PROVE  worker[w].pc = "ready" /\ worker[w].ended # ""
<1>1. worker[w] \in Worker /\ WorkerOK(worker[w])
  BY InvParts
<1>2. worker[w] # NoLoad
  <2>1. NoLoad.thread = "none"
    BY DEF NoLoad
  <2> QED BY <2>1
<1>3. worker[w].pc \in Loading \cup {"ready"}
  <2>1. CASE w \in ToSet(cache)
    BY <2>1, InvParts DEF Sound
  <2>2. CASE w \notin ToSet(cache)
    <3>1. PICK h \in Callers : compile[h].on = w
      BY <1>2, <2>2, InvParts DEF Needed
    <3>2. compile[h] \in Compile /\ CompileOK(compile[h], worker)
      BY InvParts
    <3>3. compile[h].pc # "idle"
      BY <3>1, <3>2, PoolIs DEF CompileOK
    <3> QED BY <3>1, <3>2, <3>3, Runs
  <2> QED BY <2>1, <2>2
<1> QED BY <1>1, <1>3 DEF WorkerOK, Loading

\* A thread is gone, what it compiled is rejected, and a runner is disposed that has to be.
LEMMA ExitKeeps ==
  ASSUME PoolInv, NEW w \in Workers, Exit(w)
  PROVE  PoolInv'
<1> DEFINE hs   == Waits(w, "compiling")
           gone == [worker[w] EXCEPT !.thread = "gone"]
           r    == IF hs = {} THEN gone ELSE Idle(gone, FALSE)
<1>1. /\ worker \in [Workers -> Worker] /\ worker[w] \in Worker /\ WorkerOK(worker[w])
      /\ disk \in [Versions -> Content] /\ tmp \in [Versions -> Content]
      /\ worker[w].thread = "ending" /\ worker[w].pc = "ready" /\ worker[w].ended # ""
      /\ w \in ToSet(cache) => Sound(worker[w])
      /\ UNCHANGED <<disk, tmp>>
  BY InvParts, EndingIsReady DEF Exit
<1>2. Drops([worker EXCEPT ![w] = r], cache, w, hs)
  BY DEF Exit
<1>3. /\ gone \in Worker /\ gone.pc = "ready" /\ gone.version = worker[w].version /\ gone.thread = "gone"
      /\ gone.ended = worker[w].ended /\ gone.dead = worker[w].dead
      /\ gone.disposing = worker[w].disposing /\ gone.victim = worker[w].victim
      /\ gone.lost = worker[w].lost
  BY <1>1 DEF Worker
<1> HIDE DEF gone
<1>4. /\ r \in Worker /\ r.pc = "ready" /\ r.version = worker[w].version /\ r.thread = "gone"
      /\ r.ended = worker[w].ended /\ (~gone.disposing => r = gone)
      /\ (r.ended = "dispose" => r.dead)
  BY <1>1, <1>3 DEF Idle, Disposed, Worker, WorkerOK
<1>5. \A h \in Callers : h \in hs <=> compile[h].pc = "compiling" /\ compile[h].on = w
  BY WaitsIs
<1> HIDE DEF hs, r
<1>6. WorkerOK(r)
  BY <1>1, <1>4 DEF WorkerOK
<1>7. ~On(Answered(hs), w, "compiling")
  BY <1>5, AnsweredIs, PoolIs DEF On
<1>8. Nearly([worker EXCEPT ![w] = r], cache, Answered(hs), w)
  BY <1>1, <1>4, <1>5, <1>6, <1>7, HearKeeps
<1>9. [worker EXCEPT ![w] = r][w] = r
  BY <1>1
<1>10. w \in ToSet(cache) => Sound(r)
  BY <1>1, <1>3, <1>4 DEF Sound
<1> QED BY <1>1, <1>2, <1>8, <1>9, <1>10, DropsKeeps

\* A request takes up a worker that is resident.
LEMMA SharesKeeps ==
  ASSUME PoolInv, NEW h \in Callers, NEW v \in Versions, Shares(h, v)
  PROVE  PoolInv'
<1>1. /\ worker \in [Workers -> Worker] /\ compile \in [Callers -> Compile]
      /\ disk \in [Versions -> Content] /\ tmp \in [Versions -> Content]
      /\ Resident(cache, worker) /\ cache \in Seq(Workers) /\ Len(cache) <= MaxResident
      /\ ToSet(cache) \subseteq Workers /\ \A x \in ToSet(cache) : Sound(worker[x])
      /\ \A g \in Callers : CompileOK(compile[g], worker)
      /\ \A x \in Workers : WorkerOK(worker[x]) /\ Held(x, worker[x], cache, compile)
  BY InvParts
<1>2. PICK w \in ToSet(cache) :
        /\ worker[w].version = v
        /\ Becomes(worker, Append(WithoutVersion(worker, cache, v), w),
                   Joins(h, w, IF worker[w].pc = "ready" THEN "loaded" ELSE "loading"))
  BY DEF Shares
<1> DEFINE o  == WithoutVersion(worker, cache, v)
           cs == Append(o, w)
           pc == IF worker[w].pc = "ready" THEN "loaded" ELSE "loading"
           cp == Joins(h, w, pc)
<1>3. compile[h].pc = "idle" /\ UNCHANGED <<disk, tmp>>
  BY DEF Shares
<1>4. /\ Resident(o, worker) /\ ToSet(o) = {x \in ToSet(cache) : worker[x].version # v}
      /\ Len(o) = Len(cache) - 1
  BY <1>1, <1>2, WithoutIs
<1>5. w \in Workers /\ w \notin ToSet(o) /\ Sound(worker[w])
  BY <1>1, <1>2, <1>4
<1> HIDE DEF o
<1>6. /\ cs \in Seq(Workers) /\ Len(cs) = Len(o) + 1 /\ IsInjective(cs) /\ ToSet(cs) = ToSet(o) \cup {w}
  BY <1>4, <1>5, AppendIs DEF Resident
<1> HIDE DEF cs
<1>7. ToSet(cs) = ToSet(cache)
  BY <1>1, <1>2, <1>4, <1>6 DEF Resident
<1>8. Len(cs) <= MaxResident
  <2>1. Len(cache) \in Nat
    BY <1>1, CacheIs
  <2> QED BY <1>1, <1>4, <1>6, <2>1
<1>9. Resident(cs, worker)
  BY <1>1, <1>6, <1>7 DEF Resident
<1>10. cp = [compile EXCEPT ![h] = [pc |-> pc, on |-> w]]
  BY DEF Joins
<1>11. /\ pc \in {"loading", "loaded"}
       /\ pc = "loading" => worker[w].pc \in Loading
       /\ pc = "loaded" => worker[w].pc = "ready"
  BY <1>5 DEF Sound
<1> HIDE DEF pc, cp
<1>12. /\ cp \in [Callers -> Compile] /\ cp[h].pc = pc /\ cp[h].on = w
       /\ \A g \in Callers \ {h} : cp[g] = compile[g]
  BY <1>1, <1>5, <1>10, <1>11 DEF Compile
<1>13. \A g \in Callers : CompileOK(cp[g], worker)
  BY <1>1, <1>5, <1>11, <1>12, PoolIs DEF CompileOK
<1>14. \A x, q : q # "idle" /\ On(compile, x, q) => On(cp, x, q)
  BY <1>3, <1>12 DEF On
<1>15. \A x \in Workers : Held(x, worker[x], cs, cp)
  <2> TAKE x \in Workers
  <2>1. On(compile, x, "loading") => On(cp, x, "loading")
    BY <1>14
  <2>2. On(compile, x, "compiling") => On(cp, x, "compiling")
    BY <1>14
  <2> QED BY <1>1, <1>7, <2>1, <2>2 DEF Held
<1>16. PoolOK(worker, cs, cp)
  BY <1>1, <1>7, <1>8, <1>9, <1>12, <1>13, <1>15 DEF PoolOK
<1>17. Becomes(worker, cs, cp)
  BY <1>2 DEF cs, o, cp, pc
<1> QED BY <1>1, <1>3, <1>16, <1>17, BecomesKeeps

\* There is a name for another worker: a resident one or one of another request has the others.
LEMMA FreshExists ==
  ASSUME PoolInv, NEW h \in Callers, compile[h].pc = "idle"
  PROVE  Fresh \in Workers /\ worker[Fresh] = NoLoad
<1> DEFINE l  == Len(cache)
           G  == Callers \ {h}
           on == {compile[g].on : g \in G}
           U  == ToSet(cache) \cup on
<1>1. /\ cache \in Seq(Workers) /\ l <= MaxResident /\ compile \in [Callers -> Compile]
      /\ Needed(worker, cache, compile) /\ CompileOK(compile[h], worker)
  BY InvParts
<1>2. compile[h].on \notin Workers
  BY <1>1, PoolIs DEF CompileOK
<1>3. IsFiniteSet(ToSet(cache)) /\ Cardinality(ToSet(cache)) <= l /\ l \in Nat
  <2>1. l \in Nat /\ DOMAIN cache = 1..l /\ ToSet(cache) = {cache[i] : i \in 1..l}
    BY <1>1, CacheIs
  <2>2. cache \in [1..l -> ToSet(cache)]
    BY <1>1, <2>1
  <2> HIDE DEF l
  <2>3. \A w \in ToSet(cache) : \E i \in 1..l : cache[i] = w
    BY <2>1
  <2>4. cache \in Surjection(1..l, ToSet(cache))
    BY <2>2, <2>3 DEF Surjection
  <2>5. IsFiniteSet(1..l) /\ Cardinality(1..l) = l
    BY <2>1, FS_Interval
  <2> QED BY <2>1, <2>4, <2>5, FS_Surjection
<1>4. /\ IsFiniteSet(G) /\ Cardinality(G) = Cardinality(Callers) - 1
      /\ Cardinality(Callers) \in Nat /\ Cardinality(G) \in Nat
  BY PoolAssumption, FS_RemoveElement, FS_CardinalityType
<1>5. IsFiniteSet(on) /\ Cardinality(on) <= Cardinality(G)
  <2> DEFINE f == [g \in G |-> compile[g].on]
  <2>1. f \in Surjection(G, on)
    BY DEF Surjection
  <2> HIDE DEF f, G
  <2> QED BY <1>4, <2>1, FS_Surjection
<1> HIDE DEF on, G, l
<1>6. IsFiniteSet(U) /\ Cardinality(U) <= l + Cardinality(G)
  <2>1. IsFiniteSet(ToSet(cache) \cap on)
    BY <1>3, FS_Subset
  <2>2. /\ Cardinality(ToSet(cache) \cap on) \in Nat /\ Cardinality(ToSet(cache)) \in Nat
        /\ Cardinality(on) \in Nat
    BY <1>3, <1>5, <2>1, FS_CardinalityType
  <2>3. /\ IsFiniteSet(U)
        /\ Cardinality(U) = Cardinality(ToSet(cache)) + Cardinality(on) - Cardinality(ToSet(cache) \cap on)
    BY <1>3, <1>5, FS_Union
  <2> HIDE DEF U
  <2> QED BY <1>3, <1>4, <1>5, <2>2, <2>3
<1> HIDE DEF U
<1>7. \E w \in Workers : worker[w] = NoLoad
  <2> SUFFICES ASSUME \A w \in Workers : worker[w] # NoLoad PROVE FALSE
    OBVIOUS
  <2>1. Workers \subseteq U
    BY <1>1, <1>2 DEF Needed, U, on, G
  <2>2. Cardinality(Workers) <= Cardinality(U)
    BY <1>6, <2>1, FS_Subset
  <2>3. Cardinality(Workers) >= MaxResident + Cardinality(Callers)
    BY PoolAssumption
  <2>4. Cardinality(Workers) \in Nat /\ Cardinality(U) \in Nat
    BY <1>6, PoolAssumption, FS_CardinalityType
  <2> QED BY <1>1, <1>3, <1>4, <1>6, <2>2, <2>3, <2>4, PoolIs
<1> QED BY <1>7 DEF Fresh

\* The pool but for the cap.
Bare(ws, cs, cp) ==
  /\ ws \in [Workers -> Worker] /\ cp \in [Callers -> Compile]
  /\ Resident(cs, ws)
  /\ \A w \in ToSet(cs) : Sound(ws[w])
  /\ \A h \in Callers : CompileOK(cp[h], ws)
  /\ \A w \in Workers : WorkerOK(ws[w]) /\ Held(w, ws[w], cs, cp)

\* A load is resident as soon as it is asked for.
LEMMA StartKeeps ==
  ASSUME PoolInv, NEW h \in Callers, NEW v \in Versions, compile[h].pc = "idle",
         NEW f \in Workers, worker[f] = NoLoad, \A w \in ToSet(cache) : worker[w].version # v
  PROVE  /\ Bare([worker EXCEPT ![f] = [NoLoad EXCEPT !.version = v, !.pc = "read"]], Append(cache, f),
                  Joins(h, f, "loading"))
         /\ Append(cache, f) \in Seq(Workers) /\ Len(Append(cache, f)) = Len(cache) + 1
<1> DEFINE r  == [NoLoad EXCEPT !.version = v, !.pc = "read"]
           ws == [worker EXCEPT ![f] = r]
           cs == Append(cache, f)
           cp == Joins(h, f, "loading")
<1>1. /\ worker \in [Workers -> Worker] /\ compile \in [Callers -> Compile]
      /\ Resident(cache, worker) /\ cache \in Seq(Workers)
      /\ ToSet(cache) \subseteq Workers /\ \A x \in ToSet(cache) : Sound(worker[x])
      /\ \A g \in Callers : CompileOK(compile[g], worker)
      /\ \A x \in Workers : WorkerOK(worker[x]) /\ Held(x, worker[x], cache, compile)
  BY InvParts
<1>2. /\ r \in Worker /\ r.version = v /\ r.pc = "read" /\ r.thread = "none" /\ ~r.dead /\ ~r.disposing
      /\ ~r.victim /\ ~r.lost /\ r.ended = ""
  BY PoolIs DEF NoLoad, Worker
<1>3. f \notin ToSet(cache)
  BY <1>1, PoolIs DEF Sound, Loading
<1>4. /\ cs \in Seq(Workers) /\ Len(cs) = Len(cache) + 1 /\ IsInjective(cs)
      /\ ToSet(cs) = ToSet(cache) \cup {f}
  BY <1>1, <1>3, AppendIs DEF Resident
<1> HIDE DEF r, cs
<1>5. ws \in [Workers -> Worker] /\ \A x \in Workers : ws[x] = IF x = f THEN r ELSE worker[x]
  BY <1>1, <1>2
<1> HIDE DEF ws
<1>6. Resident(cs, ws)
  BY <1>1, <1>2, <1>4, <1>5 DEF Resident
<1>7. \A x \in ToSet(cs) : Sound(ws[x])
  BY <1>1, <1>2, <1>4, <1>5 DEF Sound, Loading
<1>8. /\ cp \in [Callers -> Compile] /\ cp[h].pc = "loading" /\ cp[h].on = f
      /\ \A g \in Callers \ {h} : cp[g] = compile[g]
  BY <1>1 DEF Joins, Compile
<1> HIDE DEF cp
<1>9. ASSUME NEW g \in Callers PROVE CompileOK(cp[g], ws)
  <2>1. compile[g] \in Compile /\ CompileOK(compile[g], worker)
    BY <1>1
  <2>2. CASE g = h
    BY <1>2, <1>5, <1>8, <2>2, PoolIs DEF CompileOK, Loading
  <2>3. CASE g # h /\ compile[g].pc = "idle"
    BY <1>8, <2>1, <2>3 DEF CompileOK
  <2>4. CASE g # h /\ compile[g].pc # "idle"
    <3>1. compile[g].on \in Workers /\ worker[compile[g].on].pc \in Loading \cup {"ready"}
      BY <2>1, <2>4, Runs
    <3>2. compile[g].on # f
      BY <3>1, PoolIs DEF Loading
    <3> QED BY <1>5, <1>8, <2>1, <2>4, <3>1, <3>2 DEF CompileOK
  <2> QED BY <2>2, <2>3, <2>4
<1>10. \A x, q : q # "idle" /\ On(compile, x, q) => On(cp, x, q)
  BY <1>8 DEF On
<1>11. ASSUME NEW x \in Workers PROVE WorkerOK(ws[x]) /\ Held(x, ws[x], cs, cp)
  <2>1. CASE x = f
    <3>1. On(cp, x, "loading")
      BY <1>8, <2>1 DEF On
    <3>2. ws[x] = r /\ x \in ToSet(cs)
      BY <1>4, <1>5, <2>1
    <3> QED BY <1>2, <3>1, <3>2 DEF WorkerOK, Held
  <2>2. CASE x # f
    <3>1. ws[x] = worker[x] /\ WorkerOK(worker[x]) /\ Held(x, worker[x], cache, compile)
      BY <1>1, <1>5, <2>2
    <3>2. On(compile, x, "loading") => On(cp, x, "loading")
      BY <1>10
    <3>3. On(compile, x, "compiling") => On(cp, x, "compiling")
      BY <1>10
    <3> QED BY <1>4, <3>1, <3>2, <3>3 DEF Held
  <2> QED BY <2>1, <2>2
<1>12. Bare(ws, cs, cp)
  BY <1>5, <1>6, <1>7, <1>8, <1>9, <1>11 DEF Bare
<1> QED BY <1>4, <1>12 DEF ws, cs, cp, r

\* The least recently used is evicted: disposed, at once or when its compiles have settled, or
\* marked to be when it is loaded.
LEMMA EvictKeeps ==
  ASSUME NEW ws, NEW cs, NEW cp, Bare(ws, cs, cp), Len(cs) = MaxResident + 1,
         Busy(Head(cs)) <=> On(cp, Head(cs), "compiling")
  PROVE  PoolOK(Evicted(ws, Head(cs)), Tail(cs), cp)
<1> DEFINE k == Head(cs)
           r == IF ws[k].pc = "ready" THEN Disposed(ws[k], Busy(k)) ELSE [ws[k] EXCEPT !.victim = TRUE]
           es == Evicted(ws, k)
           o  == Tail(cs)
           B  == Busy(k)
<1>1. /\ ws \in [Workers -> Worker] /\ cp \in [Callers -> Compile]
      /\ cs \in Seq(Workers) /\ IsInjective(cs) /\ ToSet(cs) \subseteq Workers
      /\ \A w, x \in ToSet(cs) : ws[w].version = ws[x].version => w = x
      /\ \A w \in ToSet(cs) : Sound(ws[w])
      /\ \A h \in Callers : CompileOK(cp[h], ws)
      /\ \A w \in Workers : WorkerOK(ws[w]) /\ Held(w, ws[w], cs, cp)
  BY CacheIs DEF Bare, Resident
<1>2. Len(cs) \in Nat /\ Len(cs) > 0 /\ Len(cs) - 1 = MaxResident
  BY PoolIs
<1>3. /\ o \in Seq(Workers) /\ Len(o) <= MaxResident /\ IsInjective(o) /\ ToSet(o) = ToSet(cs) \ {k}
      /\ k \in ToSet(cs)
  <2>1. Len(o) = Len(cs) - 1
    BY <1>1, <1>2, TailIs
  <2>2. Len(o) <= MaxResident
    BY <1>2, <2>1, PoolIs
  <2> QED BY <1>1, <1>2, <2>2, TailIs
<1>4. k \in Workers /\ ws[k] \in Worker /\ WorkerOK(ws[k]) /\ Sound(ws[k]) /\ Held(k, ws[k], cs, cp)
  BY <1>1, <1>3
<1>5. B \in BOOLEAN /\ (B <=> On(cp, k, "compiling"))
  BY DEF Busy
<1>6. es = [ws EXCEPT ![k] = r]
  BY <1>1, <1>4 DEF Evicted
<1> HIDE DEF B, o, k
<1>7. /\ r \in Worker /\ r.version = ws[k].version /\ r.pc = ws[k].pc
      /\ r.pc # "ready" => /\ r.victim /\ r.thread = ws[k].thread /\ r.dead = ws[k].dead
                           /\ r.disposing = ws[k].disposing /\ r.ended = ws[k].ended
      /\ r.pc = "ready" /\ B => /\ r.disposing /\ r.thread = ws[k].thread /\ r.dead = ws[k].dead
                                /\ r.ended = ws[k].ended
      /\ r.pc = "ready" /\ ~B => r.thread # "up" /\ r.dead /\ r.ended # ""
  <2>1. CASE ws[k].pc # "ready"
    <3>1. r = [ws[k] EXCEPT !.victim = TRUE]
      BY <2>1
    <3> HIDE DEF r
    <3> QED BY <1>4, <2>1, <3>1 DEF Worker
  <2>2. CASE ws[k].pc = "ready" /\ B
    <3>1. r = [ws[k] EXCEPT !.disposing = TRUE]
      BY <2>2 DEF Disposed, B
    <3> HIDE DEF r
    <3> QED BY <1>4, <2>2, <3>1 DEF Worker
  <2>3. CASE ws[k].pc = "ready" /\ ~B
    <3>0. ~ws[k].dead
      BY <1>4 DEF Sound
    <3>1. r = [ws[k] EXCEPT !.disposing = TRUE, !.dead = TRUE,
                            !.thread = IF @ = "up" THEN "ending" ELSE @,
                            !.ended = IF @ = "" THEN "dispose" ELSE @]
      BY <2>3, <3>0 DEF Disposed, B
    <3> HIDE DEF r
    <3> QED BY <1>4, <2>3, <3>1 DEF Worker
  <2> QED BY <1>5, <2>1, <2>2, <2>3
<1> HIDE DEF r, es
<1>8. es \in [Workers -> Worker] /\ \A x \in Workers : es[x] = IF x = k THEN r ELSE ws[x]
  BY <1>1, <1>4, <1>6, <1>7
<1>9. ToSet(o) \subseteq Workers /\ Resident(o, es)
  BY <1>1, <1>3, <1>8 DEF Resident
<1>10. \A x \in ToSet(o) : Sound(es[x])
  BY <1>1, <1>3, <1>8
<1>11. WorkerOK(r)
  BY <1>4, <1>5, <1>7 DEF WorkerOK
<1>12. ASSUME NEW h \in Callers PROVE CompileOK(cp[h], es)
  <2>1. cp[h] \in Compile /\ CompileOK(cp[h], ws)
    BY <1>1
  <2>2. CASE cp[h].pc = "idle"
    BY <2>1, <2>2 DEF CompileOK
  <2>3. CASE cp[h].pc # "idle" /\ cp[h].on # k
    <3>1. es[cp[h].on] = ws[cp[h].on]
      BY <1>8, <2>1, <2>3, Runs
    <3> QED BY <2>1, <3>1 DEF CompileOK
  <2>4. CASE cp[h].pc # "idle" /\ cp[h].on = k
    <3>1. cp[h].pc = "compiling" => B
      BY <1>5, <2>4 DEF On
    <3>2. es[cp[h].on] = r
      BY <1>4, <1>8, <2>4
    <3> QED BY <1>7, <2>1, <2>4, <3>1, <3>2 DEF CompileOK
  <2> QED BY <2>2, <2>3, <2>4
<1>13. ASSUME NEW x \in Workers PROVE WorkerOK(es[x]) /\ Held(x, es[x], o, cp)
  <2>1. CASE x # k
    BY <1>1, <1>3, <1>8, <2>1 DEF Held
  <2>2. CASE x = k
    BY <1>4, <1>5, <1>7, <1>8, <1>11, <2>2 DEF Held, Loading
  <2> QED BY <2>1, <2>2
<1> QED
  BY <1>1, <1>3, <1>8, <1>9, <1>10, <1>12, <1>13 DEF PoolOK, es, o, k

\* A load begins, and another runner is evicted where the cache is full.
LEMMA LoadsKeeps ==
  ASSUME PoolInv, NEW h \in Callers, NEW v \in Versions, Loads(h, v)
  PROVE  PoolInv'
<1> DEFINE f  == Fresh
           ws == [worker EXCEPT ![f] = [NoLoad EXCEPT !.version = v, !.pc = "read"]]
           cs == Append(cache, f)
           cp == Joins(h, f, "loading")
<1>1. /\ compile[h].pc = "idle" /\ UNCHANGED <<disk, tmp>>
      /\ \A w \in ToSet(cache) : worker[w].version # v
      /\ IF Crowded(cs) THEN Becomes(Evicted(ws, Head(cs)), Tail(cs), cp) ELSE Becomes(ws, cs, cp)
  BY DEF Loads
<1>2. f \in Workers /\ worker[f] = NoLoad
  BY <1>1, FreshExists
<1> HIDE DEF f
<1>3. /\ Bare(ws, cs, cp) /\ cs \in Seq(Workers) /\ Len(cs) = Len(cache) + 1
  BY <1>1, <1>2, StartKeeps
<1>4. /\ disk \in [Versions -> Content] /\ tmp \in [Versions -> Content]
      /\ cache \in Seq(Workers) /\ Len(cache) <= MaxResident /\ Len(cache) \in Nat
      /\ compile \in [Callers -> Compile]
  BY InvParts, CacheIs
<1> HIDE DEF ws, cs
<1>5. CASE ~Crowded(cs)
  <2>1. Len(cs) <= MaxResident
    BY <1>3, <1>4, <1>5, PoolIs DEF Crowded
  <2>2. PoolOK(ws, cs, cp)
    BY <1>3, <2>1 DEF Bare, PoolOK
  <2> QED BY <1>1, <1>4, <1>5, <2>2, BecomesKeeps
<1>6. CASE Crowded(cs)
  <2>1. Len(cs) = MaxResident + 1
    BY <1>3, <1>4, <1>6, PoolIs DEF Crowded
  <2>2. cp = [compile EXCEPT ![h] = [pc |-> "loading", on |-> f]]
    BY DEF Joins
  <2>3. \A g \in Callers : cp[g].pc = "compiling" <=> compile[g].pc = "compiling"
    BY <1>1, <1>4, <2>2
  <2>4. \A g \in Callers : g # h => cp[g] = compile[g]
    BY <1>4, <2>2
  <2> HIDE DEF cp
  <2>5. Busy(Head(cs)) <=> On(cp, Head(cs), "compiling")
    <3>1. \A g \in Callers : g \in Waits(Head(cs), "compiling") <=>
                               cp[g].pc = "compiling" /\ cp[g].on = Head(cs)
      BY <1>1, <2>3, <2>4, WaitsIs
    <3>2. Waits(Head(cs), "compiling") \subseteq Callers
      BY DEF Waits
    <3> QED BY <3>1, <3>2 DEF Busy, On
  <2>6. PoolOK(Evicted(ws, Head(cs)), Tail(cs), cp)
    BY <1>3, <2>1, <2>5, EvictKeeps
  <2> QED BY <1>1, <1>4, <1>6, <2>6, BecomesKeeps
<1> QED BY <1>5, <1>6

\* Nothing is loaded.
LEMMA EmptyIs ==
  ASSUME NEW cs, NEW ws, NEW cp, cs = <<>>, ws = [w \in Workers |-> NoLoad],
         cp = [h \in Callers |-> NoCompile]
  PROVE  PoolOK(ws, cs, cp) /\ Needed(ws, cs, cp)
<1>1. cs \in Seq(Workers) /\ Len(cs) = 0 /\ ToSet(cs) = {} /\ IsInjective(cs)
  BY DEF ToSet, IsInjective
<1>2. /\ ws \in [Workers -> Worker] /\ cp \in [Callers -> Compile]
      /\ \A h \in Callers : CompileOK(cp[h], ws)
  BY PoolIs
<1>3. \A w \in Workers : WorkerOK(ws[w]) /\ Held(w, ws[w], cs, cp)
  BY PoolIs DEF Held, Loading
<1>4. Resident(cs, ws) /\ Len(cs) <= MaxResident
  BY <1>1, PoolIs DEF Resident
<1> QED
  BY <1>1, <1>2, <1>3, <1>4 DEF PoolOK, Needed

\* Every step keeps the invariant.
LEMMA PoolStep == PoolInv /\ [PoolNext]_poolVars => PoolInv'
<1> SUFFICES ASSUME PoolInv, [PoolNext]_poolVars PROVE PoolInv'
  OBVIOUS
<1>1. ASSUME NEW v \in Versions, AsksFor(v) PROVE PoolInv'
  BY <1>1, SharesKeeps, LoadsKeeps DEF AsksFor
<1>2. ASSUME NEW h \in Callers, CompileStep(h) PROVE PoolInv'
  BY <1>2, CompileStepKeeps
<1>3. ASSUME NEW w \in Workers, LoadStep(w) PROVE PoolInv'
  BY <1>3, LoadKeeps, ReadyKeeps, ExitKeeps DEF LoadStep
<1>4. ASSUME NEW w \in Workers, Crash(w) PROVE PoolInv'
  BY <1>4, CrashKeeps
<1>5. CASE Restart
  <2>1. /\ cache' = <<>> /\ worker' = [w \in Workers |-> NoLoad]
        /\ compile' = [h \in Callers |-> NoCompile]
        /\ disk' \in [Versions -> Content] /\ tmp' \in [Versions -> Content]
    BY <1>5, InvParts DEF Restart
  <2> QED BY <2>1, EmptyIs DEF PoolInv
<1>6. CASE UNCHANGED poolVars
  BY <1>6 DEF poolVars, PoolInv, PoolOK, Needed, Resident, CompileOK, Held, On
<1> QED BY <1>1, <1>2, <1>3, <1>4, <1>5, <1>6 DEF PoolNext

\* The invariant holds.
LEMMA PoolHolds == PoolSpec => []PoolInv
<1>1. PoolInit => PoolInv
  BY EmptyIs DEF PoolInit, Content, PoolInv
<1> QED BY <1>1, PoolStep, PTL DEF PoolSpec

\* The cache holds a version once, at most MaxResident runners and none that is known to be dead;
\* every live thread is resident, or evicted and waiting for its load or its compiles, or its entry
\* was deleted by a request of another worker: whatever loads, fails, crashes and restarts.
THEOREM OwnedHolds == PoolSpec => []Owned
<1>1. PoolInv => Owned
  <2> SUFFICES ASSUME PoolInv PROVE Owned
    OBVIOUS
  <2>1. /\ disk \in [Versions -> Content] /\ tmp \in [Versions -> Content]
        /\ worker \in [Workers -> Worker] /\ compile \in [Callers -> Compile]
        /\ Resident(cache, worker) /\ cache \in Seq(Workers) /\ Len(cache) <= MaxResident
        /\ ToSet(cache) \subseteq Workers /\ \A x \in ToSet(cache) : Sound(worker[x])
        /\ \A x \in Workers : WorkerOK(worker[x]) /\ Held(x, worker[x], cache, compile)
    BY InvParts
  <2>2. PoolTypeOK
    BY <2>1 DEF PoolTypeOK, Resident
  <2>3. \A w \in ToSet(cache) : ~worker[w].dead
    BY <2>1 DEF Sound
  <2>4. ASSUME NEW w \in Workers, worker[w].thread = "up"
        PROVE  \/ w \in ToSet(cache) \/ worker[w].lost
               \/ worker[w].victim /\ worker[w].pc = "boot"
               \/ worker[w].disposing /\ Busy(w)
    <3>1. worker[w].pc \in {"boot", "ready"}
      BY <2>1, <2>4 DEF WorkerOK, Worker
    <3>2. On(compile, w, "compiling") => Busy(w)
      BY WaitsIs DEF On, Busy
    <3> QED BY <2>1, <2>4, <3>1, <3>2 DEF Held, Loading
  <2> QED BY <2>2, <2>3, <2>4 DEF Owned
<1> QED BY <1>1, PoolHolds, PTL

\* No eviction ends the thread of a compile in flight: dispose waits for the last one to settle, and
\* a victim that still loads is disposed before the requests that wait for it go on.
THEOREM InFlightSparedHolds == PoolSpec => []InFlightSpared
<1>1. PoolInv => InFlightSpared
  BY OnReady DEF InFlightSpared
<1> QED BY <1>1, PoolHolds, PTL
=============================================================================
