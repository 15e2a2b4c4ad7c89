------------------------------ MODULE TileStream ------------------------------
(***************************************************************************)
(* What the pipelined kernels promise, whatever keeps the steps apart: the *)
(* blocks of every operand reach shared memory at most depth ahead of the  *)
(* slowest reader, a reader uses the blocks in order, each after all its   *)
(* operands are there, and a tile starts when every reader is done with    *)
(* the one before.  Blocks are numbered through all the tiles.             *)
(***************************************************************************)
EXTENDS Integers, FiniteSets

CONSTANT Readers

VARIABLES
  job,    \* what is streamed: operands, depth, blocks per tile, tiles
  landed, \* <<operand, block>> that reached shared memory
  used    \* blocks each reader is done with

streamVars == <<job, landed, used>>

TotalBlocks == job.tiles * job.blocks

Init == landed = {} /\ used = [r \in Readers |-> 0]

\* The buffer of the block is free, and its tile has begun.
Free(n) ==
  \A r \in Readers : used[r] + job.depth > n /\ used[r] >= (n \div job.blocks) * job.blocks

Land(o, n) ==
  /\ <<o, n>> \notin landed /\ Free(n)
  /\ landed' = landed \cup {<<o, n>>}
  /\ UNCHANGED <<job, used>>

Use(r) ==
  /\ used[r] < TotalBlocks
  /\ \A o \in job.operands : <<o, used[r]>> \in landed
  /\ used' = [used EXCEPT ![r] = @ + 1]
  /\ UNCHANGED <<job, landed>>

\* Only a block some reader is near can be free.
Near ==
  {n \in 0 .. TotalBlocks - 1 : \E r \in Readers : used[r] <= n /\ n < used[r] + job.depth}

Next ==
  \/ \E n \in Near, o \in job.operands : Land(o, n)
  \/ \E r \in Readers : Use(r)

Spec == Init /\ [][Next]_streamVars

=============================================================================
