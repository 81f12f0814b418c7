----------------------------- MODULE BlockPool -----------------------------
(***************************************************************************)
(* What the block allocator promises its callers, with no groups, bitmaps, *)
(* counters or search order: a pool of free fragments and a table of what  *)
(* is handed out.  A caller gets the first n fragments of some wholly free *)
(* block and gives back exactly what it holds.                             *)
(***************************************************************************)
EXTENDS Integers

CONSTANTS
  Blocks,        \* the addresses of the whole blocks
  BlockLen,      \* fragments per block
  Usable         \* fragments that can be free at the start

VARIABLES
  avail,         \* fragments nobody holds
  held           \* [Blocks -> 0..BlockLen]: what is handed out of each block

poolVars == <<avail, held>>

Fragments(b, n) == b .. b + n - 1

WhollyFree == {b \in Blocks : Fragments(b, BlockLen) \subseteq avail}

PoolInit ==
  /\ held \in [Blocks -> 0 .. BlockLen]
  /\ avail \subseteq Usable
  /\ \A b \in Blocks : Fragments(b, held[b]) \cap avail = {}

Take(b, n) ==
  /\ b \in WhollyFree
  /\ avail' = avail \ Fragments(b, n)
  /\ held' = [held EXCEPT ![b] = n]

Give(b) ==
  /\ avail' = avail \cup Fragments(b, held[b])
  /\ held' = [held EXCEPT ![b] = 0]

PoolNext ==
  \/ \E b \in Blocks, n \in 1 .. BlockLen : Take(b, n)
  \/ \E b \in Blocks : Give(b)

PoolSpec == PoolInit /\ [][PoolNext]_poolVars

============================================================================
