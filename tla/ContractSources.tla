--------------------------- MODULE ContractSources ---------------------------
(***************************************************************************)
(* The source records of contracts                                         *)
(* (src/src/services/ContractSourceService.ts and its routes): lookups     *)
(* that read a row, ask the verifiers and the chain, follow a proxy to its *)
(* implementation and write what they found, among requests that mark,     *)
(* unmark, verify and clear the same rows.                                 *)
(***************************************************************************)
EXTENDS Integers, FiniteSets, Sequences, SequencesExt

CONSTANTS
  Handlers,     \* requests in flight
  Addrs,        \* contracts
  Public,       \* those the routes are asked for
  Pointers,     \* Pointers[a]: the implementations a may be given
  MaxDepth,     \* MAX_PROXY_RESOLUTION_DEPTH
  MaxChanges,   \* bound: deployments, upgrades and publications
  Faults        \* what may go wrong: "db", "net", "rpc"

None == 0

\* A proxy whose implementation is not known
Hidden == 1

ASSUME SourcesAssumption ==
  /\ Public \subseteq Addrs /\ None \notin Addrs /\ Hidden \notin Addrs
  /\ Pointers \in [Addrs -> SUBSET (Addrs \cup {None})]
  /\ MaxDepth \in Nat \ {0} /\ MaxChanges \in Nat
  /\ Faults \subseteq {"db", "net", "rpc"}

VARIABLES
  rows,      \* contract_sources
  code,      \* the addresses with deployed code
  points,    \* points[a]: the implementation the chain names for a proxy
  listed,    \* the contracts a remote verifier knows
  changes,   \* changes of the world so far
  req        \* req[h]: a request with the frames of its lookup

vars == <<rows, code, points, listed, changes, req>>

\* What a row says of its source; "none" is a row that is not there, "bare" a local match whose
\* first file is empty, "partial" a remote match that is partial or has no source.
Kinds == {"none", "unverified", "manual", "local", "bare", "remote", "partial"}

Impls == Addrs \cup {None, Hidden}

\* old is the lastUpdated of a mark out of its TTL.
Row == [kind : Kinds, impl : Impls, old : BOOLEAN]

Found(kind, impl) == [kind |-> kind, impl |-> impl, old |-> FALSE]

NoRow == Found("none", None)

\* A call of getContractSource: the row it has read, and the one it is to write.
Frame == [addr : Addrs, saw : Kinds, row : Row,
          pc : {"read", "sourcify", "blockscan", "cache", "code", "clear", "enhance", "save", "enhanced", "refresh"}]

Enter(a) == [addr |-> a, saw |-> "none", row |-> NoRow, pc |-> "read"]

\* live says whether the address had code when the lookup began, denied that it was answered
\* that the address is no contract.
Request == [kind : {"idle", "lookup", "unmark", "compile"}, frames : Seq(Frame), live : BOOLEAN, denied : BOOLEAN]

NoRequest == [kind |-> "idle", frames |-> <<>>, live |-> FALSE, denied |-> FALSE]

TypeOK ==
  /\ rows \in [Addrs -> Row]
  /\ code \subseteq Addrs /\ listed \subseteq Addrs
  /\ points \in [Addrs -> Addrs \cup {None}]
  /\ changes \in 0..MaxChanges
  /\ \A h \in Handlers : req[h] \in Request

-----------------------------------------------------------------------------
(* Frames.                                                                  *)

Top(h) == Last(req[h].frames)

At(h, pc) == req[h].kind = "lookup" /\ Top(h).pc = pc

Goes(h, f) == req' = [req EXCEPT ![h].frames = Append(Front(@), f)]

\* A call returns: to the frame that waits for it, which takes any failure for nothing, or to
\* the route.
Returns(h, how) ==
  req' = [req EXCEPT ![h] = IF Len(@.frames) > 1 THEN [req[h] EXCEPT !.frames = Front(@)]
                            ELSE IF how = "null" THEN [NoRequest EXCEPT !.live = req[h].live, !.denied = TRUE]
                            ELSE NoRequest]

\* Faulty: only the depth counts.
StopsDeep(h, a) == Len(req[h].frames) >= MaxDepth

\* The recursion guard: a cycle, or too deep
Stops(h, a) ==
  \/ \E i \in DOMAIN req[h].frames : req[h].frames[i].addr = a
  \/ Len(req[h].frames) >= MaxDepth

\* The frame f waits for the lookup of its implementation, if there is one.
Descends(h, f, a) ==
  req' = [req EXCEPT ![h].frames =
            IF a \notin Addrs \/ Stops(h, a) THEN Append(Front(@), f) ELSE Append(Front(@), f) \o <<Enter(a)>>]

Writes(a, r) == rows' = [rows EXCEPT ![a] = r]

\* A statement whose rejection is swallowed may leave the row as it is.
MayWrite(a, r) == Writes(a, r) \/ ("db" \in Faults /\ UNCHANGED rows)

worldVars == <<code, points, listed, changes>>

-----------------------------------------------------------------------------
(* getContractSource.                                                       *)

Lookup(h, a) ==
  /\ req[h].kind = "idle"
  /\ req' = [req EXCEPT ![h] = [kind |-> "lookup", frames |-> <<Enter(a)>>, live |-> a \in code, denied |-> FALSE]]
  /\ UNCHANGED <<rows, worldVars>>

\* Faulty: a mark is served for ever.
ServedForGood(r) == r.kind = "manual" \/ (r.kind \in {"local", "remote"} /\ r.impl = None)

\* A row that is the answer: a mark within its TTL, a verified contract with its source that is
\* no proxy
Served(r) == (r.kind = "manual" /\ ~r.old) \/ (r.kind \in {"local", "remote"} /\ r.impl = None)

\* A verified row without its source is probed again, as one that is not verified.
AfterRead(r) ==
  CASE r.kind \notin {"local", "remote"} -> "sourcify"
    [] r.impl = Hidden -> "enhance"
    [] OTHER -> "save"

ReadRow(h) ==
  LET r == rows[Top(h).addr] IN
  /\ At(h, "read")
  /\ IF Served(r) THEN Returns(h, "source")
     ELSE Goes(h, [Top(h) EXCEPT !.saw = r.kind, !.row = r, !.pc = AfterRead(r)])
  /\ UNCHANGED <<rows, worldVars>>

\* Faulty: a database that cannot be read says that there is no code.
ReadFailsAsNull(h) ==
  /\ "db" \in Faults
  /\ At(h, "read")
  /\ Returns(h, "null")
  /\ UNCHANGED <<rows, worldVars>>

ReadFails(h) ==
  /\ "db" \in Faults
  /\ At(h, "read")
  /\ Returns(h, "error")
  /\ UNCHANGED <<rows, worldVars>>

\* fetchFromSourcify, which looks up the implementation of a proxy before it returns
SourcifyHits(h) ==
  LET a == Top(h).addr IN
  /\ At(h, "sourcify") /\ a \in listed
  /\ \E kind \in {"remote", "partial"} :
       Descends(h, [Top(h) EXCEPT !.row = Found(kind, points[a]), !.pc = "cache"], points[a])
  /\ UNCHANGED <<rows, worldVars>>

\* Faulty: a mark that is probed again is treated like any row.
AfterMissAlike(saw) == "blockscan"

AfterMiss(saw) == IF saw = "manual" THEN "refresh" ELSE "blockscan"

\* Not there, or out of reach
SourcifyMisses(h) ==
  /\ At(h, "sourcify")
  /\ Top(h).addr \notin listed \/ "net" \in Faults
  /\ Goes(h, [Top(h) EXCEPT !.pc = AfterMiss(Top(h).saw)])
  /\ UNCHANGED <<rows, worldVars>>

BlockscanHits(h) ==
  /\ At(h, "blockscan") /\ Top(h).addr \in listed
  /\ \E kind \in {"remote", "partial"} :
       Goes(h, [Top(h) EXCEPT !.row = Found(kind, None), !.pc = "cache"])
  /\ UNCHANGED <<rows, worldVars>>

BlockscanMisses(h) ==
  /\ At(h, "blockscan")
  /\ Top(h).addr \notin listed \/ "net" \in Faults
  /\ Goes(h, [Top(h) EXCEPT !.pc = "code"])
  /\ UNCHANGED <<rows, worldVars>>

\* eth_getCode; a node that fails is no verdict.
AskCode(h) ==
  /\ At(h, "code")
  /\ \/ Top(h).addr \notin code /\ Goes(h, [Top(h) EXCEPT !.pc = "clear"])
     \/ (Top(h).addr \in code \/ "rpc" \in Faults)
        /\ Goes(h, [Top(h) EXCEPT !.row = Found("unverified", None), !.pc = "cache"])
  /\ UNCHANGED <<rows, worldVars>>

Clear(h) ==
  /\ At(h, "clear")
  /\ MayWrite(Top(h).addr, NoRow)
  /\ Returns(h, "null")
  /\ UNCHANGED worldVars

\* cacheSource, whatever the row holds by now
Cache(h) ==
  LET r == Top(h).row IN
  /\ At(h, "cache")
  /\ MayWrite(Top(h).addr, r)
  /\ IF r.kind = "unverified" THEN Returns(h, "source")
     ELSE Goes(h, [Top(h) EXCEPT !.pc = IF r.impl = None THEN "enhance" ELSE "save"])
  /\ UNCHANGED worldVars

\* detectProxy, of a source that names no implementation; it may fail or take too long. What is
\* called a proxy by its name is taken for one.
Enhance(h) ==
  LET a == Top(h).addr IN
  /\ At(h, "enhance")
  /\ \/ a \in code /\ points[a] # None /\ Goes(h, [Top(h) EXCEPT !.row.impl = points[a], !.pc = "save"])
     \/ /\ a \notin code \/ points[a] = None \/ "rpc" \in Faults
        /\ Returns(h, "source") \/ Goes(h, [Top(h) EXCEPT !.row.impl = Hidden, !.pc = "save"])
  /\ UNCHANGED <<rows, worldVars>>

\* saveProxyInfo updates the row that is there.
Save(h) ==
  LET a == Top(h).addr IN
  /\ At(h, "save")
  /\ MayWrite(a, IF rows[a].kind = "none" THEN rows[a] ELSE [rows[a] EXCEPT !.impl = Top(h).row.impl, !.old = FALSE])
  /\ Descends(h, [Top(h) EXCEPT !.pc = "enhanced", !.row = NoRow], Top(h).row.impl)
  /\ UNCHANGED worldVars

Enhanced(h) ==
  /\ At(h, "enhanced")
  /\ Returns(h, "source")
  /\ UNCHANGED <<rows, worldVars>>

\* Faulty: the row is written as it was read.
RefreshedWhole(a, read) == read

\* refreshManualMark updates the time of the row that is there.
Refreshed(a, read) == [rows[a] EXCEPT !.old = FALSE]

Refresh(h) ==
  LET a == Top(h).addr IN
  /\ At(h, "refresh")
  /\ MayWrite(a, Refreshed(a, Top(h).row))
  /\ Returns(h, "source")
  /\ UNCHANGED worldVars

LookupStep(h) ==
  \/ ReadRow(h) \/ ReadFails(h) \/ SourcifyHits(h) \/ SourcifyMisses(h)
  \/ BlockscanHits(h) \/ BlockscanMisses(h) \/ AskCode(h) \/ Clear(h) \/ Cache(h) \/ Enhance(h) \/ Save(h) \/ Enhanced(h) \/ Refresh(h)

-----------------------------------------------------------------------------
(* The requests that write.                                                 *)

\* saveManualVerification
Mark(a) == Writes(a, Found("manual", None)) /\ UNCHANGED <<worldVars, req>>

\* Force Refresh, and the end of a verification by Sourcify
ForceRefresh(a) == Writes(a, NoRow) /\ UNCHANGED <<worldVars, req>>

Begins(h, kind, a) ==
  /\ req[h].kind = "idle"
  /\ req' = [req EXCEPT ![h] = [NoRequest EXCEPT !.kind = kind, !.frames = <<Enter(a)>>]]

\* deleteManualVerification has read a mark; any other row is left alone.
Unmark(h, a) ==
  /\ rows[a].kind = "manual"
  /\ Begins(h, "unmark", a)
  /\ UNCHANGED <<rows, worldVars>>

\* A local compile matches: the row is cleared, and then saved, with its first file.
CompileClears(h, a) ==
  /\ a \in code
  /\ MayWrite(a, NoRow)
  /\ Begins(h, "compile", a)
  /\ UNCHANGED worldVars

RequestEnds(h) ==
  LET a == Top(h).addr IN
  /\ req[h].kind \in {"unmark", "compile"}
  /\ \/ req[h].kind = "unmark" /\ MayWrite(a, NoRow)
     \/ req[h].kind = "compile" /\ \E kind \in {"local", "bare"} : MayWrite(a, Found(kind, None))
  /\ req' = [req EXCEPT ![h] = NoRequest]
  /\ UNCHANGED worldVars

-----------------------------------------------------------------------------
(* The chain, the verifiers and the clock.                                  *)

Deploy(a) ==
  /\ a \notin code
  /\ code' = code \cup {a}
  /\ UNCHANGED <<points, listed>>

Upgrade(a) ==
  /\ a \in code
  /\ \E t \in Pointers[a] : points' = [points EXCEPT ![a] = t]
  /\ UNCHANGED <<code, listed>>

Publish(a) ==
  /\ a \in code
  /\ listed' = listed \cup {a}
  /\ UNCHANGED <<code, points>>

World ==
  /\ changes < MaxChanges /\ changes' = changes + 1
  /\ \E a \in Addrs : Deploy(a) \/ Upgrade(a) \/ Publish(a)
  /\ UNCHANGED <<rows, req>>

\* isCacheValid is asked of marks only: the age of any other row changes nothing.
Age(a) ==
  /\ rows[a].kind = "manual" /\ ~rows[a].old
  /\ Writes(a, [rows[a] EXCEPT !.old = TRUE])
  /\ UNCHANGED <<worldVars, req>>

Init ==
  /\ rows = [a \in Addrs |-> NoRow]
  /\ code \in {Addrs, Addrs \ Public}
  /\ points \in [Addrs -> Addrs \cup {None}] /\ \A a \in Addrs : points[a] \in Pointers[a]
  /\ listed = {} /\ changes = 0
  /\ req = [h \in Handlers |-> NoRequest]

Asks(a) == \E h \in Handlers : Lookup(h, a)

Next ==
  \/ \E a \in Public :
       \/ Asks(a) \/ Mark(a) \/ ForceRefresh(a)
       \/ \E h \in Handlers : Unmark(h, a) \/ CompileClears(h, a)
  \/ \E h \in Handlers : LookupStep(h) \/ RequestEnds(h)
  \/ \E a \in Addrs : Age(a)
  \/ World

Spec == Init /\ [][Next]_vars

\* Every statement and call is answered or rejected in the end, and time passes.
FairSpec ==
  /\ Spec
  /\ \A h \in Handlers : WF_vars(LookupStep(h)) /\ WF_vars(RequestEnds(h))
  /\ \A a \in Addrs : WF_vars(Age(a))

-----------------------------------------------------------------------------
(* Properties.                                                              *)

\* The types hold, and however proxies point at each other, a path never looks an address up
\* twice and never gets deeper than the cap.
Bounded ==
  /\ TypeOK
  /\ \A h \in Handlers : LET s == req[h].frames IN
       Len(s) <= MaxDepth /\ \A i, j \in DOMAIN s : s[i].addr = s[j].addr => i = j

\* "Not a contract" is said only of an address that had no code when the lookup began, never
\* for a database, a verifier or a node that fails, or a lookup that stops at a cycle.
VerdictHonest == \A h \in Handlers : req[h].denied => ~req[h].live

Requested(a) == Mark(a) \/ ForceRefresh(a) \/ \E h \in Handlers : CompileClears(h, a) \/ RequestEnds(h)

\* What a lookup that has read it may make of a mark: what a remote verifier knows; of a local
\* match with its source: nothing.
Supersedes(kind) == IF kind = "manual" THEN {"manual", "remote", "partial"} ELSE {kind}

\* A mark is replaced by requests and by a remote match only, a local match that has its source
\* by requests only, unless by a lookup that has read the row before it was saved.
MarksKept ==
  [][\A a \in Addrs :
       rows[a].kind \in {"manual", "local"} /\ rows'[a].kind \notin Supersedes(rows[a].kind) =>
         \/ Requested(a)
         \/ \E h \in Handlers : LookupStep(h) /\ Top(h).addr = a /\ Top(h).saw # rows[a].kind]_vars

\* A mark that was removed does not come back with the lookup that was probing it.
NoRevival == [][\A a \in Addrs : rows'[a].kind = "manual" => rows[a].kind = "manual" \/ Mark(a)]_vars

Faulty ==
  \E h \in Handlers :
    \/ ReadFails(h) /\ ~ReadRow(h)
    \/ (SourcifyMisses(h) \/ BlockscanMisses(h)) /\ Top(h).addr \in listed
    \/ Cache(h) /\ Top(h).row # rows[Top(h).addr] /\ UNCHANGED rows

\* A verification published elsewhere surfaces here, over a mark as well: once nothing fails and
\* no request writes, a contract that is asked for again and again has its remote record, unless
\* it is served as a local match with its source, which no publication replaces.
Surfaces ==
  \A a \in Public :
    /\ <>[][~Faulty /\ ~World /\ \A b \in Public : ~Requested(b)]_vars
    /\ []<><<Asks(a)>>_vars
    => <>[](a \in listed => rows[a].kind \in {"remote", "partial", "local"})
=============================================================================
