------------------------------- MODULE SplitK --------------------------------
(***************************************************************************)
(* How the split-K kernels divide K products among the shards of a launch: *)
(* k_shard on the host, the range of one shard in the kernel.              *)
(***************************************************************************)
EXTENDS Integers

CONSTANT Word   \* a register holds 0 .. Word - 1: 2^32

ASSUME WordOK == Word \in Nat \ {0}

DivCeil(a, b) == (a + b - 1) \div b

Lower(a, b) == IF a <= b THEN a ELSE b

KShard(K, shards) == DivCeil(K, shards)

KStart(K, shards, s) == (s * KShard(K, shards)) % Word

KEnd(K, shards, s) == Lower((KStart(K, shards, s) + KShard(K, shards)) % Word, K)

\* sub.u32: a shard that starts behind K gets a length close to Word.
ShardLen(K, shards, s) == (KEnd(K, shards, s) - KStart(K, shards, s)) % Word

\* What one partial sum adds up: the products start .. start + len - 1.
ShardProducts(K, shards, s) ==
  [start |-> KStart(K, shards, s), len |-> ShardLen(K, shards, s)]

Covers(part, k) == part.start <= k /\ k < part.start + part.len

=============================================================================
