------------------------------ MODULE Compilers ------------------------------
(***************************************************************************)
(* The resident compilers of local verification                            *)
(* (src/src/services/CompileVerifyService.ts): one worker thread per       *)
(* version, loaded from a file that is downloaded once, kept in a cache in *)
(* order of use, evicted at the cap, ended by a compile that takes too     *)
(* long, and shared by the requests in flight.                             *)
(***************************************************************************)
EXTENDS Integers, FiniteSets, Sequences, SequencesExt

CONSTANTS
  Callers,      \* requests in flight
  Versions,      \* versions of the compiler
  Workers,       \* names for the workers that something still refers to
  MaxResident,   \* MAX_RESIDENT_COMPILERS
  PoolFaults         \* what may go wrong: "net", "time", "worker", "crash"

NoWorker == 0

ASSUME PoolAssumption ==
  /\ Versions # {}
  /\ MaxResident \in Nat \ {0}
  /\ IsFiniteSet(Callers)
  /\ IsFiniteSet(Workers) /\ Cardinality(Workers) >= MaxResident + Cardinality(Callers)
  /\ NoWorker \notin Workers
  /\ PoolFaults \subseteq {"net", "time", "worker", "crash"}

VARIABLES
  disk,      \* disk[v]: the file of a version in data/solc-cache
  tmp,       \* tmp[v]: the file it is written to first
  cache,     \* compilerCache, least recently used first
  worker,    \* worker[w]: a runner, or the load that is to become one
  compile    \* compile[h]: where a request stands

poolVars == <<disk, tmp, cache, worker, compile>>

Content == {"none", "partial", "whole"}

\* thread is the worker thread, dead the flag terminated, disposing disposeRequested, victim an
\* eviction that waits for the load. Two fields are history: ended says what ended the thread,
\* lost that the entry in the cache was deleted by a request of another worker.
Worker == [version : Versions,
           pc : {"none", "read", "fetch", "write", "rename", "boot", "ready", "failed"},
           thread : {"none", "up", "ending", "gone"},
           dead : BOOLEAN, disposing : BOOLEAN, victim : BOOLEAN,
           ended : {"", "timeout", "crash", "dispose"}, lost : BOOLEAN]

Compile == [pc : {"idle", "loading", "loaded", "compiling"}, on : Workers \cup {NoWorker}]

AnyVersion == CHOOSE v \in Versions : TRUE

NoLoad == [version |-> AnyVersion, pc |-> "none", thread |-> "none", dead |-> FALSE, disposing |-> FALSE,
           victim |-> FALSE, ended |-> "", lost |-> FALSE]

NoCompile == [pc |-> "idle", on |-> NoWorker]

PoolTypeOK ==
  /\ disk \in [Versions -> Content] /\ tmp \in [Versions -> Content]
  /\ cache \in Seq(Workers) /\ Len(cache) <= MaxResident /\ IsInjective(cache)
  /\ worker \in [Workers -> Worker]
  /\ compile \in [Callers -> Compile]

-----------------------------------------------------------------------------
(* Helpers.                                                                 *)

Waits(w, pc) == {h \in Callers : compile[h] = [pc |-> pc, on |-> w]}

\* A worker that nothing refers to leaves no trace, unless its thread goes on.
Settled(ws, cs, cp) ==
  [w \in Workers |->
     IF \/ w \in ToSet(cs) \/ \E h \in Callers : cp[h].on = w
        \/ ws[w].thread = "up" /\ ~ws[w].lost
     THEN ws[w] ELSE NoLoad]

Crowded(cs) == Len(cs) > MaxResident

Becomes(ws, cs, cp) ==
  /\ cache' = cs /\ compile' = cp
  /\ worker' = Settled(ws, cs, cp)

\* The requests hs are answered.
Answered(hs) == [h \in Callers |-> IF h \in hs THEN NoCompile ELSE compile[h]]

\* compilerCache.delete(version): whichever runner the entry of the version holds by now
WithoutVersion(ws, cs, v) ==
  IF \E i \in DOMAIN cs : ws[cs[i]].version = v
  THEN RemoveAt(cs, CHOOSE i \in DOMAIN cs : ws[cs[i]].version = v)
  ELSE cs

\* The runner the entry of v holds is lost, unless it is w itself.
Orphaned(ws, cs, v, w) ==
  [x \in Workers |-> [ws[x] EXCEPT !.lost = @ \/ (x \in ToSet(cs) /\ x # w /\ ws[x].version = v)]]

\* The entry of the version of w is deleted, and the requests hs hear of it.
Deletes(ws, cs, w, hs) ==
  LET v == ws[w].version IN
  Becomes(Orphaned(ws, cs, v, w), WithoutVersion(ws, cs, v), Answered(hs))

\* PoolFaulty: a thread that compiles is ended at once.
DisposedAtOnce(r, busy) ==
  [r EXCEPT !.disposing = TRUE, !.dead = TRUE,
            !.thread = IF @ = "up" THEN "ending" ELSE @,
            !.ended = IF @ = "" THEN "dispose" ELSE @]

\* dispose: at once when idle, else when the last compile has settled
Disposed(r, busy) ==
  IF busy \/ r.dead THEN [r EXCEPT !.disposing = TRUE]
  ELSE [r EXCEPT !.disposing = TRUE, !.dead = TRUE,
                 !.thread = IF @ = "up" THEN "ending" ELSE @,
                 !.ended = IF @ = "" THEN "dispose" ELSE @]

\* The finally of a compile: a dispose that waited for the last one
Idle(r, busy) == IF r.disposing THEN Disposed(r, busy) ELSE r

-----------------------------------------------------------------------------
(* A request up to its compile.                                             *)

Joins(h, w, pc) == [compile EXCEPT ![h] = [pc |-> pc, on |-> w]]

\* loadCompiler, of a version that is resident or loading: it is now the one used last.
Shares(h, v) ==
  /\ compile[h].pc = "idle"
  /\ \E w \in ToSet(cache) :
       /\ worker[w].version = v
       /\ Becomes(worker, Append(WithoutVersion(worker, cache, v), w),
                  Joins(h, w, IF worker[w].pc = "ready" THEN "loaded" ELSE "loading"))
  /\ UNCHANGED <<disk, tmp>>

Fresh == CHOOSE w \in Workers : worker[w] = NoLoad

Busy(w) == Waits(w, "compiling") # {}

\* PoolFaulty: a victim that still loads is forgotten.
EvictedResident(ws, w) == [ws EXCEPT ![w] = IF @.pc = "ready" THEN Disposed(@, Busy(w)) ELSE @]

\* evictLeastRecentlyUsed: a victim that still loads is disposed when it is loaded.
Evicted(ws, w) ==
  [ws EXCEPT ![w] = IF @.pc = "ready" THEN Disposed(@, Busy(w)) ELSE [@ EXCEPT !.victim = TRUE]]

\* loadCompiler, of any other version
Loads(h, v) ==
  LET ws == [worker EXCEPT ![Fresh] = [NoLoad EXCEPT !.version = v, !.pc = "read"]]
      cs == Append(cache, Fresh)
      cp == Joins(h, Fresh, "loading")
  IN
  /\ compile[h].pc = "idle"
  /\ \A w \in ToSet(cache) : worker[w].version # v
  /\ IF Crowded(cs) THEN Becomes(Evicted(ws, Head(cs)), Tail(cs), cp) ELSE Becomes(ws, cs, cp)
  /\ UNCHANGED <<disk, tmp>>

-----------------------------------------------------------------------------
(* downloadAndLoad and WorkerSolcRunner.start.                              *)

Moves(w, pc) == worker' = [worker EXCEPT ![w].pc = pc]

Boots(w) == worker' = [worker EXCEPT ![w].pc = "boot", ![w].thread = "up"]

\* A load fails: its requests hear of it, and whatever the cache has of the version is deleted.
Fails(w) ==
  Deletes([worker EXCEPT ![w].pc = "failed", ![w].thread = IF @ = "up" THEN "ending" ELSE @], cache, w,
          Waits(w, "loading"))

\* A file that is there is taken as it is.
ReadFile(w) ==
  /\ worker[w].pc = "read"
  /\ IF disk[worker[w].version] # "none" THEN Boots(w) ELSE Moves(w, "fetch")
  /\ UNCHANGED <<disk, tmp, cache, compile>>

\* The build is downloaded and its checksum right; opening the temporary file empties it.
Download(w) ==
  /\ worker[w].pc = "fetch"
  /\ Moves(w, "write")
  /\ tmp' = [tmp EXCEPT ![worker[w].version] = "partial"]
  /\ UNCHANGED <<disk, cache, compile>>

\* Out of reach, a wrong checksum, or a list without one
DownloadFails(w) ==
  /\ "net" \in PoolFaults
  /\ worker[w].pc = "fetch"
  /\ Fails(w)
  /\ UNCHANGED <<disk, tmp>>

\* The bytes are written, to the file that was opened: another load of the version may have
\* renamed it since, and may still be writing to it.
Written(w) ==
  LET v == worker[w].version
      content == IF \E x \in Workers \ {w} : worker[x].version = v /\ worker[x].pc = "write"
                 THEN "partial" ELSE "whole"
  IN
  /\ worker[w].pc = "write"
  /\ Moves(w, "rename")
  /\ IF tmp[v] # "none" THEN tmp' = [tmp EXCEPT ![v] = content] /\ UNCHANGED disk
     ELSE disk' = [disk EXCEPT ![v] = content] /\ UNCHANGED tmp
  /\ UNCHANGED <<cache, compile>>

Rename(w) ==
  LET v == worker[w].version IN
  /\ worker[w].pc = "rename"
  /\ IF tmp[v] # "none"
     THEN /\ disk' = [disk EXCEPT ![v] = tmp[v]]
          /\ tmp' = [tmp EXCEPT ![v] = "none"]
          /\ Boots(w) /\ UNCHANGED <<cache, compile>>
     ELSE Fails(w) /\ UNCHANGED <<disk, tmp>>

\* The build is up. A victim is disposed before the requests that wait for it go on.
Ready(w) ==
  LET ready == [worker[w] EXCEPT !.pc = "ready"] IN
  /\ worker[w].pc = "boot" /\ disk[worker[w].version] = "whole"
  /\ Becomes([worker EXCEPT ![w] = IF ready.victim THEN Disposed(ready, FALSE) ELSE ready], cache,
             [h \in Callers |-> IF h \in Waits(w, "loading") THEN [pc |-> "loaded", on |-> w]
                                 ELSE compile[h]])
  /\ UNCHANGED <<disk, tmp>>

\* The build does not start, or its thread ends, or takes too long.
BootFails(w) ==
  /\ worker[w].pc = "boot"
  /\ disk[worker[w].version] = "partial" \/ "worker" \in PoolFaults
  /\ Fails(w)
  /\ UNCHANGED <<disk, tmp>>

-----------------------------------------------------------------------------
(* A compile in its worker.                                                 *)

\* PoolFaulty: the runner stays resident.
Keeps(ws, cs, w, hs) == Becomes(ws, cs, Answered(hs))

\* The requests hs have heard an error of w: a dead runner is dropped from the cache.
Drops(ws, cs, w, hs) ==
  IF ws[w].dead /\ hs # {} THEN Deletes(ws, cs, w, hs) ELSE Becomes(ws, cs, Answered(hs))

\* WorkerSolcRunner.compile, with the message on its way to the thread
Begin(h) ==
  LET w == compile[h].on IN
  /\ compile[h].pc = "loaded"
  /\ IF worker[w].dead THEN Drops(worker, cache, w, {h})
     ELSE compile' = [compile EXCEPT ![h].pc = "compiling"] /\ UNCHANGED <<cache, worker>>
  /\ UNCHANGED <<disk, tmp>>

\* The runner after the compile of h has settled
After(h) ==
  LET w == compile[h].on IN
  [worker EXCEPT ![w] = Idle(@, Waits(w, "compiling") # {h})]

\* The thread answers: with what solc says, errors in the sources included.
Compiled(h) ==
  /\ compile[h].pc = "compiling" /\ worker[compile[h].on].thread = "up"
  /\ Becomes(After(h), cache, Answered({h}))
  /\ UNCHANGED <<disk, tmp>>

\* solc itself throws; the thread goes on.
Throws(h) ==
  /\ "worker" \in PoolFaults
  /\ compile[h].pc = "compiling" /\ worker[compile[h].on].thread = "up"
  /\ Drops(After(h), cache, compile[h].on, {h})
  /\ UNCHANGED <<disk, tmp>>

Expire(h) ==
  LET w == compile[h].on IN
  /\ Drops([worker EXCEPT ![w].dead = TRUE, ![w].thread = IF @ = "up" THEN "ending" ELSE @,
                          ![w].ended = IF @ = "" THEN "timeout" ELSE @], cache, w, {h})
  /\ UNCHANGED <<disk, tmp>>

\* The hard timeout of a compile whose thread is up
TimesOut(h) ==
  /\ "time" \in PoolFaults
  /\ compile[h].pc = "compiling" /\ worker[compile[h].on].thread = "up"
  /\ Expire(h)

\* PoolFaulty: no timer is left for a compile whose thread has ended.
GivenUpLive(h) == TimesOut(h)

\* The same, of a thread that is no more: the only answer such a compile gets
GivenUp(h) ==
  /\ compile[h].pc = "compiling" /\ worker[compile[h].on].thread = "gone"
  /\ Expire(h)

\* A thread ends by itself: out of memory, say.
Crash(w) ==
  /\ "worker" \in PoolFaults
  /\ worker[w].pc = "ready" /\ worker[w].thread = "up"
  /\ worker' = [worker EXCEPT ![w].thread = "ending", ![w].ended = "crash"]
  /\ UNCHANGED <<disk, tmp, cache, compile>>

\* The exit event of a thread rejects what it was compiling, and does not mark the runner dead.
Exit(w) ==
  LET hs == Waits(w, "compiling") IN
  /\ worker[w].thread = "ending"
  /\ Drops([worker EXCEPT ![w] = IF hs = {} THEN [@ EXCEPT !.thread = "gone"]
                                 ELSE Idle([@ EXCEPT !.thread = "gone"], FALSE)], cache, w, hs)
  /\ UNCHANGED <<disk, tmp>>

PoolInit ==
  /\ disk = [v \in Versions |-> "none"] /\ tmp = [v \in Versions |-> "none"]
  /\ cache = <<>>
  /\ worker = [w \in Workers |-> NoLoad]
  /\ compile = [h \in Callers |-> NoCompile]

LoadStep(w) ==
  \/ ReadFile(w) \/ Download(w) \/ DownloadFails(w) \/ Written(w) \/ Rename(w) \/ Ready(w) \/ BootFails(w)
  \/ Exit(w)

CompileStep(h) == Begin(h) \/ Compiled(h) \/ Throws(h) \/ TimesOut(h) \/ GivenUp(h)

\* The process ends and starts again: the files are what is left.
Restart ==
  /\ "crash" \in PoolFaults
  /\ cache' = <<>>
  /\ worker' = [w \in Workers |-> NoLoad]
  /\ compile' = [h \in Callers |-> NoCompile]
  /\ UNCHANGED <<disk, tmp>>

AsksFor(v) == \E h \in Callers : Shares(h, v) \/ Loads(h, v)

PoolNext ==
  \/ \E v \in Versions : AsksFor(v)
  \/ \E h \in Callers : CompileStep(h)
  \/ \E w \in Workers : LoadStep(w) \/ Crash(w)
  \/ Restart

PoolSpec == PoolInit /\ [][PoolNext]_poolVars

\* A load has a budget and a compile a hard timeout; the thread's events are delivered.
PoolFairSpec ==
  /\ PoolSpec
  /\ \A w \in Workers : WF_poolVars(LoadStep(w))
  /\ \A h \in Callers : WF_poolVars(CompileStep(h))

-----------------------------------------------------------------------------
(* Properties.                                                              *)

\* The types hold, and no runner that is known to be dead stays resident.
\* Every live thread is resident, or is an evicted one that still loads or still compiles, or
\* its entry in the cache was deleted by a request of another worker: none is left over.
Owned ==
  /\ PoolTypeOK
  /\ \A w \in ToSet(cache) : ~worker[w].dead
  /\ \A w \in Workers :
       worker[w].thread = "up" =>
         \/ w \in ToSet(cache) \/ worker[w].lost
         \/ worker[w].victim /\ worker[w].pc = "boot"
         \/ worker[w].disposing /\ Busy(w)

\* No compile in flight is cut off by an eviction: what ends its thread is a timeout or a crash.
InFlightSpared == \A h \in Callers : compile[h].pc = "compiling" => worker[compile[h].on].ended # "dispose"

\* Every request is answered, the one whose worker has died under it included.
RequestsEnd == \A h \in Callers : compile[h] # NoCompile ~> compile[h] = NoCompile

PoolFaulty ==
  \/ Restart
  \/ \E w \in Workers : Crash(w) \/ DownloadFails(w) \/ BootFails(w)
  \/ \E h \in Callers : (Throws(h) /\ ~Compiled(h)) \/ TimesOut(h)

\* A worker that has died does not block its version for good: once nothing fails any more, a
\* version that is asked for again and again, and alone, is compiled again and again.
Recovers ==
  \A v \in Versions :
    /\ <>[][~PoolFaulty /\ \A u \in Versions \ {v} : ~AsksFor(u)]_poolVars
    /\ []<><<AsksFor(v)>>_poolVars
    => []<><<\E h \in Callers : Compiled(h)>>_poolVars
=============================================================================
