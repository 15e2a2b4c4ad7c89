----------------------------- MODULE SplitKProofs -----------------------------
(* What the shards of a split-K launch cover, for every K and shard count. *)
EXTENDS SplitK, TLAPS

\* Rounding up: b shares of DivCeil(a, b) suffice for a, shares one smaller do not.
LEMMA DivCeilBounds ==
  ASSUME NEW a \in Nat \ {0}, NEW b \in Nat \ {0}
  PROVE  /\ DivCeil(a, b) \in Nat \ {0}
         /\ a <= DivCeil(a, b) * b
         /\ (DivCeil(a, b) - 1) * b < a
<1> DEFINE x == a + b - 1
           q == DivCeil(a, b)
<1>1. /\ q \in Int
      /\ b * q <= x /\ x < b * q + b
  BY DEF DivCeil
<1>2. q > 0
  <2>1. SUFFICES ASSUME q <= 0 PROVE FALSE
    BY <1>1
  <2>2. b * q <= 0
    BY <1>1, <2>1
  <2>3. QED BY <1>1, <2>2
<1>3. QED BY <1>1, <1>2

\* No register wraps and every shard starts within K.
Fits(K, shards) ==
  /\ (shards - 1) * KShard(K, shards) <= K
  /\ K + KShard(K, shards) < Word

\* Then a shard has the products from its start to the next shard's, or to K.
LEMMA ShardRange ==
  ASSUME NEW K \in Nat \ {0}, NEW shards \in Nat \ {0}, Fits(K, shards),
         NEW s \in 0 .. shards - 1
  PROVE  LET ks == KShard(K, shards) IN
           /\ KStart(K, shards, s) = s * ks
           /\ s * ks <= K
           /\ ShardLen(K, shards, s) = Lower(s * ks + ks, K) - s * ks
<1> DEFINE ks == KShard(K, shards)
<1>1. ks \in Nat \ {0}
  BY DivCeilBounds DEF KShard
<1>2. s * ks \in Nat /\ s * ks <= (shards - 1) * ks
  <2>1. (shards - 1) - s \in Nat
    OBVIOUS
  <2>2. ((shards - 1) - s) * ks >= 0
    BY <1>1, <2>1
  <2>3. QED BY <1>1, <2>2
<1>3. (shards - 1) * ks <= K /\ K + ks < Word
  BY DEF Fits
<1> DEFINE start == s * ks
           last == (shards - 1) * ks
<1> HIDE DEF ks, start, last
<1>4. start \in Nat /\ start + ks < Word /\ start <= K /\ Word \in Nat
  <2>1. last \in Int /\ start \in Nat /\ start <= last
    BY <1>1, <1>2 DEF start, last
  <2>2. last <= K /\ K + ks < Word
    BY <1>3 DEF last
  <2>3. QED BY <1>1, <2>1, <2>2, WordOK
<1>5. start % Word = start /\ (start + ks) % Word = start + ks
  BY <1>1, <1>4
<1>6. KStart(K, shards, s) = start
  BY <1>5 DEF KStart, start, ks
<1>7. KEnd(K, shards, s) = Lower(start + ks, K)
  BY <1>5, <1>6 DEF KEnd, ks
<1>8. Lower(start + ks, K) - start \in 0 .. Word - 1
  BY <1>1, <1>4 DEF Lower
<1>9. ShardLen(K, shards, s) = Lower(start + ks, K) - start
  BY <1>6, <1>7, <1>8, WordOK DEF ShardLen
<1>10. QED BY <1>4, <1>6, <1>9 DEF ks, start

\* The shards divide the K products among them: every product is added up by one
\* shard and by no other, and no shard reads beyond K.
THEOREM ShardsPartition ==
  ASSUME NEW K \in Nat \ {0}, NEW shards \in Nat \ {0}, Fits(K, shards)
  PROVE  /\ \A k \in 0 .. K - 1 : \E s \in 0 .. shards - 1 :
              /\ Covers(ShardProducts(K, shards, s), k)
              /\ \A t \in 0 .. shards - 1 : Covers(ShardProducts(K, shards, t), k) => t = s
         /\ \A s \in 0 .. shards - 1 :
              KStart(K, shards, s) + ShardLen(K, shards, s) <= K
<1> DEFINE ks == KShard(K, shards)
<1>1. ks \in Nat \ {0} /\ K <= ks * shards
  BY DivCeilBounds DEF KShard
<1>2. \A s \in 0 .. shards - 1 :
        /\ KStart(K, shards, s) = s * ks
        /\ s * ks <= K
        /\ ShardLen(K, shards, s) = Lower(s * ks + ks, K) - s * ks
  BY ShardRange
<1> HIDE DEF ks
<1>3. \A s \in 0 .. shards - 1 : s * ks \in Nat
  BY <1>1
<1>4. \A s \in 0 .. shards - 1, k \in 0 .. K - 1 :
        Covers(ShardProducts(K, shards, s), k) <=> s * ks <= k /\ k < s * ks + ks
  BY <1>1, <1>2, <1>3 DEF Covers, ShardProducts, Lower
<1>5. ASSUME NEW k \in 0 .. K - 1
      PROVE  \E s \in 0 .. shards - 1 :
               /\ Covers(ShardProducts(K, shards, s), k)
               /\ \A t \in 0 .. shards - 1 : Covers(ShardProducts(K, shards, t), k) => t = s
  <2> DEFINE s == k \div ks
  <2>1. s \in Nat /\ ks * s <= k /\ k < ks * s + ks
    BY <1>1
  <2>2. s < shards
    <3>1. SUFFICES ASSUME s >= shards PROVE FALSE
      BY <2>1
    <3>2. ks * (s - shards) >= 0
      BY <1>1, <2>1, <3>1
    <3>3. QED BY <1>1, <2>1, <3>2
  <2>3. ASSUME NEW t \in 0 .. shards - 1, Covers(ShardProducts(K, shards, t), k)
        PROVE  t = s
    <3>1. t * ks <= k /\ k < t * ks + ks
      BY <1>4, <2>3
    <3>2. CASE t < s
      <4>1. ks * (s - t - 1) >= 0
        BY <1>1, <2>1, <3>2
      <4>2. QED BY <1>1, <2>1, <3>1, <4>1
    <3>3. CASE s < t
      <4>1. ks * (t - s - 1) >= 0
        BY <1>1, <2>1, <3>3
      <4>2. QED BY <1>1, <2>1, <3>1, <4>1
    <3>4. QED BY <2>1, <3>2, <3>3
  <2>4. s \in 0 .. shards - 1 /\ Covers(ShardProducts(K, shards, s), k)
    BY <1>1, <1>4, <2>1, <2>2
  <2>5. QED BY <2>3, <2>4
<1>6. \A s \in 0 .. shards - 1 : KStart(K, shards, s) + ShardLen(K, shards, s) <= K
  BY <1>1, <1>2, <1>3 DEF Lower
<1>7. QED BY <1>5, <1>6

=============================================================================
