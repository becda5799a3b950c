-------------------------------- MODULE Feed --------------------------------
(***************************************************************************)
(* What a watch subscription promises (src/src/services/WatchService.ts,   *)
(* "Honesty rules"): from the block at which watching starts, every block  *)
(* is told, as its logs or as unchecked, before the cursor of the          *)
(* subscription passes it.                                                 *)
(***************************************************************************)
EXTENDS Integers

CONSTANTS Addrs, MaxBlock

Blocks  == 0..MaxBlock
None    == -1
Cursors == Blocks \cup {None}

VARIABLES
  cursor,  \* cursor[a]: the last block a's subscription is done with
  since,   \* since[a]: the block at which watching a started
  told     \* told[a]: blocks told since then

vars == <<cursor, since, told>>

Init ==
  /\ cursor = [a \in Addrs |-> None]
  /\ since = [a \in Addrs |-> None]
  /\ told = [a \in Addrs |-> {}]

\* Blocks are told, any number of times.
Tell(a, S) ==
  /\ told' = [told EXCEPT ![a] = @ \cup S]
  /\ UNCHANGED <<cursor, since>>

\* Watching starts, never with history.
Begin(a, c) ==
  /\ cursor[a] = None
  /\ cursor' = [cursor EXCEPT ![a] = c]
  /\ since' = [since EXCEPT ![a] = c]
  /\ UNCHANGED told

\* The cursor moves over blocks that were told, or back when the chain shrinks.
Pass(a, c) ==
  /\ cursor[a] # None
  /\ (since[a] + 1)..c \subseteq told[a]
  /\ cursor' = [cursor EXCEPT ![a] = c]
  /\ UNCHANGED <<since, told>>

\* The subscription is removed.
End(a) ==
  /\ cursor' = [cursor EXCEPT ![a] = None]
  /\ since' = [since EXCEPT ![a] = None]
  /\ told' = [told EXCEPT ![a] = {}]

Next ==
  \E a \in Addrs :
    \/ \E S \in SUBSET Blocks : Tell(a, S)
    \/ \E c \in Blocks : Begin(a, c) \/ Pass(a, c)
    \/ End(a)

Spec == Init /\ [][Next]_vars
=============================================================================
