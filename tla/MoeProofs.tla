------------------------------ MODULE MoeProofs ------------------------------
(***************************************************************************)
(* The layers of MoeDispatch and MoeDecode are exact, for every number of  *)
(* tokens, experts, devices and shards, every TopK and tile height,        *)
(* whatever the logits and however the blocks and threads of their kernels *)
(* interleave.  First the layer of a batch: IInv is its inductive          *)
(* invariant, one lemma per action shows that the action preserves it.     *)
(***************************************************************************)
EXTENDS MoeDispatch, MoeDecode, SplitKProofs, Induction, FiniteSetTheorems, TLAPS

GroupOf(i) == PlaceKey(ids[i])

At(g)    == {i \in Entries : GroupOf(i) = g}
Below(s) == {i \in Entries : GroupOf(i) < s}

NumGroups == IF path = "expert" THEN NumExperts ELSE NumDevices

\* The stages in which entries have rows.
Placing == {"permute", "compact", "product", "unpermute"}

\* The experts pass j of token t chooses from.
Open(t, j) ==
  {e \in Experts : logits[t][e] # NegInf /\ \A m \in 0 .. j - 1 : ids[t * TopK + m] # e}

RoutingExact ==
  \A t \in Tokens : \A j \in 0 .. passes[t] - 1 :
    ids[t * TopK + j] = Argmax(logits[t], Open(t, j))

AllPlaced == \A i \in Entries : dst[i] # Stale /\ permuted[dst[i]] = TokenOf(i)

Stages ==
  /\ stage # "route" => \A t \in Tokens : passes[t] = TopK
  /\ stage = "route" => counted = {}
  /\ stage \notin {"route", "histogram"} => counted = Entries
  /\ stage \in Placing => summed \notin Groups
  /\ stage \notin Placing => \A i \in Entries : dst[i] = Stale
  /\ stage \in Placing \ {"permute"} => AllPlaced
  /\ stage \in {"compact", "product"} => path = "expert"
  /\ stage # "unpermute" => \A t \in Tokens : out[t] = {}

HistExact == \A g \in Groups : hist[g] = Cardinality({i \in counted : GroupOf(i) = g})

OffsetsExact ==
  stage \notin {"route", "histogram"} =>
    \A s \in 0 .. summed : offsets[s] = Cardinality(Below(s))

CursorExact ==
  \A g \in Groups : cursor[g] = Cardinality({i \in Entries : dst[i] # Stale /\ GroupOf(i) = g})

\* A row that is claimed leads back to its entry and is one of those its group's
\* cursor has passed.
Placed ==
  \A i \in Entries : dst[i] # Stale =>
    /\ inverse[dst[i]] = i
    /\ offsets[GroupOf(i)] <= dst[i] /\ dst[i] < offsets[GroupOf(i)] + cursor[GroupOf(i)]

\* The grid covers every expert's rows.
Launched ==
  stage = "product" =>
    /\ Compacted
    /\ launch.tiles \in Nat /\ launch.z \in {"expert", "active"}
    /\ \A e \in Experts : hist[e] <= launch.tiles * BM

\* What the row of an entry has to be: its token, through its expert.
Value(r) == <<TokenOf(inverse[r]), ids[inverse[r]]>>

ComputedExact ==
  /\ stage \notin {"product", "unpermute"} => \A r \in Entries : Uncomputed(r)
  /\ stage = "product" => \A r \in Entries : Uncomputed(r) \/ computed[r] = Value(r)
  /\ stage = "unpermute" => \A r \in Entries : computed[r] = Value(r)

OutExact ==
  \A t \in Tokens : \A x \in out[t] :
    /\ x.row \in Entries /\ TokenOf(inverse[x.row]) = t
    /\ x = [row |-> x.row, weight |-> inverse[x.row], value |-> computed[x.row]]

IInv == /\ TypeOK /\ Stages /\ RoutingExact
        /\ HistExact /\ OffsetsExact /\ CursorExact /\ Placed
        /\ Launched /\ ComputedExact /\ OutExact

-----------------------------------------------------------------------------
(* Entries and groups.                                                     *)

LEMMA Params ==
  /\ NumTokens \in Nat \ {0} /\ NumExperts \in Nat \ {0} /\ TopK \in Nat \ {0}
  /\ NumDevices \in Nat \ {0} /\ ExpertsPerNode \in Nat \ {0}
  /\ BM \in Nat \ {0} /\ TopK <= NumExperts
  /\ NumTokens * TopK \in Nat
BY MoeOK, TileOK DEF RoutingAccepts

\* Entry t*TopK + j is the j-th of token t.
LEMMA EntryOf ==
  ASSUME NEW t \in Tokens, NEW j \in 0 .. TopK - 1
  PROVE  t * TopK + j \in Entries /\ TokenOf(t * TopK + j) = t
<1> USE Params
<1>1. t \in Nat /\ (NumTokens - 1) - t \in Nat
  BY DEF Tokens
<1>2. ((NumTokens - 1) - t) * TopK >= 0 /\ t * TopK \in Nat
  BY <1>1
<1>3. t * TopK + TopK <= NumTokens * TopK
  BY <1>1, <1>2
<1>4. t * TopK + j \in Entries
  BY <1>2, <1>3 DEF Entries
<1>5. (t * TopK + j) \div TopK = t
  <2> DEFINE q == (t * TopK + j) \div TopK
             p == t * TopK
  <2>1. q \in Int /\ TopK * q <= p + j /\ p + j < TopK * q + TopK
    BY <1>1, <1>2
  <2>2. CASE q < t
    <3>1. t - q - 1 \in Nat
      BY <2>1, <2>2, <1>1
    <3>2. TopK * (t - q - 1) >= 0
      BY <3>1
    <3> QED BY <3>2, <2>1, <1>1
  <2>3. CASE q > t
    <3>1. q - t - 1 \in Nat
      BY <2>1, <2>3, <1>1
    <3>2. TopK * (q - t - 1) >= 0
      BY <3>1
    <3> QED BY <3>2, <2>1, <1>1
  <2> QED BY <2>1, <2>2, <2>3, <1>1
<1> QED BY <1>4, <1>5 DEF TokenOf

LEMMA EntrySplit ==
  ASSUME NEW i \in Entries
  PROVE  /\ TokenOf(i) \in Tokens
         /\ i - TokenOf(i) * TopK \in 0 .. TopK - 1
         /\ i = TokenOf(i) * TopK + (i - TokenOf(i) * TopK)
<1> USE Params
<1> DEFINE q == i \div TopK
<1>1. i \in Nat /\ i < NumTokens * TopK
  BY DEF Entries
<1>2. q \in Int /\ TopK * q <= i /\ i < TopK * q + TopK
  BY <1>1
<1>3. q >= 0
  <2>1. SUFFICES ASSUME q <= -1 PROVE FALSE
    BY <1>2
  <2>2. TopK * (-1 - q) >= 0
    BY <2>1, <1>2
  <2> QED BY <2>2, <1>1, <1>2
<1>4. q < NumTokens
  <2>1. SUFFICES ASSUME q >= NumTokens PROVE FALSE
    BY <1>2
  <2>2. TopK * (q - NumTokens) >= 0
    BY <2>1, <1>2
  <2> QED BY <2>2, <1>1, <1>2
<1>5. q * TopK = TopK * q
  BY <1>2
<1> QED BY <1>1, <1>2, <1>3, <1>4, <1>5 DEF TokenOf, Tokens

LEMMA EntriesFinite ==
  /\ IsFiniteSet(Entries) /\ Cardinality(Entries) = NumTokens * TopK
  /\ \A S \in SUBSET Entries :
       IsFiniteSet(S) /\ Cardinality(S) \in Nat /\ Cardinality(S) <= NumTokens * TopK
<1>1. IsFiniteSet(Entries) /\ Cardinality(Entries) = NumTokens * TopK
  <2> DEFINE n == NumTokens * TopK
  <2>1. n \in Nat /\ Entries = 0 .. n - 1
    BY Params DEF Entries
  <2> HIDE DEF n
  <2>2. IsFiniteSet(Entries) /\ Cardinality(Entries) = n
    BY <2>1, FS_Interval
  <2> QED BY <2>2 DEF n
<1> QED BY <1>1, FS_Subset, FS_CardinalityType

LEMMA GroupsAre ==
  /\ NumGroups \in Nat \ {0}
  /\ Groups = 0 .. NumGroups - 1 /\ GroupsUpTo = 0 .. NumGroups
BY Params DEF NumGroups, Groups, GroupsUpTo, Experts, Devices

\* The counter an entry bumps is the segment it is placed in.
LEMMA KeyInGroups ==
  ASSUME NEW e \in Experts
  PROVE  PlaceKey(e) \in Groups /\ CountKey(e) = PlaceKey(e)
BY MoeOK, PlacementOK DEF PlaceKey, CountKey, Groups

LEMMA GroupInGroups ==
  ASSUME TypeOK, NEW i \in Entries
  PROVE  GroupOf(i) \in Groups /\ CountKey(ids[i]) = GroupOf(i)
BY KeyInGroups DEF TypeOK, GroupOf

LEMMA BelowCounts ==
  /\ \A s \in Nat : Below(s) \in SUBSET Entries /\ Cardinality(Below(s)) \in Nat
                    /\ Cardinality(Below(s)) <= NumTokens * TopK
  /\ TypeOK => \A g \in Groups :
       Cardinality(Below(g + 1)) = Cardinality(Below(g)) + Cardinality(At(g))
<1>1. \A s : Below(s) \in SUBSET Entries
  BY DEF Below
<1>2. ASSUME TypeOK, NEW g \in Groups
      PROVE  Cardinality(Below(g + 1)) = Cardinality(Below(g)) + Cardinality(At(g))
  <2>1. \A i \in Entries : GroupOf(i) \in Int
    BY <1>2, GroupInGroups, GroupsAre
  <2>2. g \in Nat
    BY GroupsAre
  <2>3. Below(g + 1) = Below(g) \cup At(g) /\ Below(g) \cap At(g) = {}
    BY <2>1, <2>2 DEF Below, At
  <2>4. Below(g) \in SUBSET Entries /\ At(g) \in SUBSET Entries
    BY DEF Below, At
  <2>5. /\ IsFiniteSet(Below(g)) /\ IsFiniteSet(At(g))
        /\ Cardinality(Below(g)) \in Nat /\ Cardinality(At(g)) \in Nat
    BY <2>4, EntriesFinite
  <2> QED BY <2>3, <2>5, FS_Union, FS_EmptySet
<1> QED BY <1>1, <1>2, EntriesFinite

\* Once summed, the segments of the groups lie one behind the other.
LEMMA Segments ==
  ASSUME TypeOK, Stages, HistExact, OffsetsExact, stage \in Placing
  PROVE  /\ \A g \in Groups : /\ g + 1 \in GroupsUpTo /\ g \in GroupsUpTo
                              /\ offsets[g + 1] = offsets[g] + hist[g]
                              /\ hist[g] = Cardinality(At(g))
         /\ \A s, u \in GroupsUpTo : s <= u => offsets[s] <= offsets[u]
         /\ \A s \in GroupsUpTo : offsets[s] \in Nat /\ offsets[s] <= NumTokens * TopK
<1>1. summed = NumGroups
  BY GroupsAre DEF TypeOK, Stages
<1>2. \A s \in GroupsUpTo : offsets[s] = Cardinality(Below(s)) /\ s \in Nat
  BY <1>1, GroupsAre DEF OffsetsExact, Placing
<1>3. counted = Entries
  BY DEF Stages, Placing
<1>4. \A g \in Groups : hist[g] = Cardinality(At(g))
  BY <1>3 DEF HistExact, At
<1>5. \A g \in Groups : g + 1 \in GroupsUpTo /\ g \in GroupsUpTo
  BY GroupsAre
<1>6. ASSUME NEW s \in GroupsUpTo, NEW u \in GroupsUpTo, s <= u
      PROVE  offsets[s] <= offsets[u]
  <2>1. s \in Nat /\ u \in Nat
    BY GroupsAre
  <2>2. \A i \in Entries : GroupOf(i) \in Int
    BY GroupInGroups, GroupsAre
  <2>3. Below(s) \in SUBSET Below(u)
    BY <2>1, <2>2, <1>6 DEF Below
  <2>4. IsFiniteSet(Below(u))
    BY <2>1, BelowCounts, EntriesFinite
  <2> QED BY <2>3, <2>4, <1>2, FS_Subset
<1> QED BY <1>2, <1>4, <1>5, <1>6, BelowCounts

\* A group has claimed at most as many rows as it has entries ...
LEMMA CursorInSegment ==
  ASSUME TypeOK, Stages, HistExact, OffsetsExact, CursorExact, stage \in Placing
  PROVE  \A g \in Groups : cursor[g] \in Nat /\ hist[g] \in Nat /\ cursor[g] <= hist[g]
<1> TAKE g \in Groups
<1> DEFINE C == {i \in Entries : dst[i] # Stale /\ GroupOf(i) = g}
<1>1. C \in SUBSET At(g) /\ At(g) \in SUBSET Entries /\ cursor[g] = Cardinality(C)
  BY DEF At, CursorExact
<1> HIDE DEF C
<1>2. IsFiniteSet(At(g)) /\ Cardinality(C) \in Nat /\ Cardinality(C) <= Cardinality(At(g))
      /\ Cardinality(At(g)) \in Nat
  BY <1>1, EntriesFinite, FS_Subset
<1> QED BY <1>1, <1>2, Segments

\* ... so that a claimed row lies in the segment of its entry's group, and in no other.
LEMMA SegmentOfRow ==
  ASSUME TypeOK, Stages, HistExact, OffsetsExact, CursorExact, Placed, stage \in Placing,
         NEW i \in Entries, dst[i] # Stale
  PROVE  /\ dst[i] \in Entries
         /\ offsets[GroupOf(i)] <= dst[i] /\ dst[i] < offsets[GroupOf(i) + 1]
         /\ \A g \in Groups : offsets[g] <= dst[i] /\ dst[i] < offsets[g + 1] => g = GroupOf(i)
<1> DEFINE h == GroupOf(i)
<1>1. dst[i] \in Entries
  BY DEF TypeOK
<1>2. dst[i] \in Nat
  BY <1>1 DEF Entries
<1>3. /\ h \in Groups /\ h + 1 \in GroupsUpTo /\ offsets[h] \in Nat
      /\ offsets[h + 1] = offsets[h] + hist[h]
      /\ cursor[h] \in Nat /\ hist[h] \in Nat /\ cursor[h] <= hist[h]
  BY GroupInGroups, Segments, CursorInSegment
<1>4. offsets[h] <= dst[i] /\ dst[i] < offsets[h] + cursor[h]
  BY DEF Placed
<1>5. offsets[h + 1] \in Nat /\ dst[i] < offsets[h + 1]
  BY <1>2, <1>3, <1>4
<1>6. ASSUME NEW g \in Groups, offsets[g] <= dst[i], dst[i] < offsets[g + 1]
      PROVE  g = h
  <2>1. /\ g \in Nat /\ h \in Nat
        /\ g \in GroupsUpTo /\ g + 1 \in GroupsUpTo /\ h \in GroupsUpTo
        /\ offsets[g] \in Nat /\ offsets[g + 1] \in Nat
    BY <1>3, Segments, GroupsAre
  <2>2. CASE g < h
    <3>1. offsets[g + 1] <= offsets[h]
      BY <2>1, <2>2, Segments
    <3> QED BY <1>2, <1>3, <1>4, <1>6, <2>1, <3>1
  <2>3. CASE h < g
    <3>1. offsets[h + 1] <= offsets[g]
      BY <1>3, <2>1, <2>3, Segments
    <3> QED BY <1>2, <1>5, <1>6, <2>1, <3>1
  <2> QED BY <2>1, <2>2, <2>3
<1> QED BY <1>1, <1>4, <1>5, <1>6

\* When every entry has its row, every row has its entry.
LEMMA RowsFull ==
  ASSUME TypeOK, Placed, AllPlaced, NEW r \in Entries
  PROVE  /\ inverse[r] \in Entries /\ dst[inverse[r]] = r
         /\ permuted[r] = TokenOf(inverse[r])
<1>1. dst \in [Entries -> Entries]
  <2>1. \A i \in Entries : dst[i] \in Entries
    BY DEF TypeOK, AllPlaced
  <2>2. dst \in [Entries -> Entries \cup {Stale}]
    BY DEF TypeOK
  <2> QED BY <2>1, <2>2
<1>2. dst \in Injection(Entries, Entries)
  BY <1>1 DEF Injection, IsInjective, Placed, AllPlaced
<1>3. dst \in Surjection(Entries, Entries)
  BY <1>2, EntriesFinite, FS_Injection
<1>4. PICK i \in Entries : dst[i] = r
  BY <1>3 DEF Surjection
<1> QED BY <1>4 DEF Placed, AllPlaced

LEMMA ValueType ==
  ASSUME TypeOK, Placed, AllPlaced, NEW r \in Entries
  PROVE  Value(r) \in Tokens \X Experts
<1>1. inverse[r] \in Entries
  BY RowsFull
<1> QED BY <1>1, EntrySplit DEF TypeOK, Value

-----------------------------------------------------------------------------
(* The argmax.                                                             *)

\* The greatest of the open experts, the first among equals: there is one.
LEMMA ArgmaxIs ==
  ASSUME NEW l \in [Experts -> Nat], NEW open \in SUBSET Experts, open # {}
  PROVE  /\ Argmax(l, open) \in open
         /\ \A f \in open : f = Argmax(l, open) \/ Before(l, Argmax(l, open), f)
<1> DEFINE Best(e) == \A f \in open : l[f] < l[e] \/ (l[f] = l[e] /\ e <= f)
<1>1. Experts \in SUBSET Nat /\ IsFiniteSet(Experts)
  BY Params, FS_Interval DEF Experts
<1>2. IsFiniteSet(open) /\ open \in SUBSET Nat
  BY <1>1, FS_Subset
<1>3. PICK g \in open : \A f \in open : l[f] <= l[g]
  <2> DEFINE h == [e \in open |-> l[e]]
  <2>1. h \in [open -> Nat]
    OBVIOUS
  <2>2. \E g \in open : \A f \in open : h[f] <= h[g]
    <3> HIDE DEF h
    <3> QED BY <1>2, <2>1, GreatestAt
  <2> QED BY <2>2
<1>4. PICK e \in {x \in open : l[x] = l[g]} : \A m \in {x \in open : l[x] = l[g]} : e <= m
  <2> DEFINE T == {x \in open : l[x] = l[g]}
  <2>1. T \in SUBSET Nat /\ T # {}
    BY <1>2
  <2>2. \E n \in T : \A m \in T : n <= m
    <3> HIDE DEF T
    <3> QED BY <2>1, LeastNat
  <2> QED BY <2>2
<1>5. \A f \in open : l[f] \in Nat /\ f \in Nat
  BY <1>2
<1>6. e \in open /\ Best(e)
  BY <1>3, <1>4, <1>5
<1>7. Argmax(l, open) = CHOOSE x \in open : Best(x)
  BY DEF Argmax
<1>8. Argmax(l, open) \in open /\ Best(Argmax(l, open))
  <2> HIDE DEF Best
  <2> QED BY <1>6, <1>7
<1> QED BY <1>5, <1>8 DEF Before

LEMMA ArgmaxInExperts ==
  ASSUME NEW l \in [Experts -> Nat], NEW open \in SUBSET Experts
  PROVE  Argmax(l, open) \in Experts
<1>1. CASE open = {}
  BY <1>1, Params DEF Argmax, Experts
<1>2. CASE open # {}
  BY <1>2, ArgmaxIs
<1> QED BY <1>1, <1>2

LEMMA LogitsAre ==
  ASSUME TypeOK, NEW t \in Tokens
  PROVE  logits[t] \in [Experts -> Nat]
BY MoeOK DEF TypeOK, Experts

\* The TopK passes choose TopK experts in order, if there are as many to choose.
LEMMA RoutingFollows ==
  ASSUME TypeOK, RoutingExact
  PROVE  RoutingIsTopK
<1> USE Params
<1> SUFFICES ASSUME NEW t \in Tokens,
                    Cardinality({e \in Experts : logits[t][e] # NegInf}) >= TopK,
                    NEW j \in 0 .. passes[t] - 1, NEW e \in Experts,
                    \A m \in 0 .. j : e # ids[t * TopK + m]
             PROVE  Before(logits[t], ids[t * TopK + j], e)
  BY DEF RoutingIsTopK
<1> DEFINE l == logits[t]
           finite == {f \in Experts : l[f] # NegInf}
           earlier == {ids[t * TopK + m] : m \in 0 .. j - 1}
           best == ids[t * TopK + j]
<1>1. j \in Nat /\ j < TopK
  BY DEF TypeOK
<1>2. Open(t, j) # {}
  <2>1. IsFiniteSet(Experts) /\ IsFiniteSet(finite)
    <3>1. IsFiniteSet(Experts) /\ finite \in SUBSET Experts
      BY FS_Interval DEF Experts
    <3> HIDE DEF finite
    <3> QED BY <3>1, FS_Subset
  <2>2. SUFFICES ASSUME finite \in SUBSET earlier PROVE FALSE
    BY DEF Open
  <2>3. IsFiniteSet(earlier) /\ Cardinality(earlier) <= j
    <3> DEFINE idx == 0 .. j - 1
               f == [m \in idx |-> ids[t * TopK + m]]
    <3>1. IsFiniteSet(idx) /\ Cardinality(idx) = j
      BY <1>1, FS_Interval
    <3>2. f \in Surjection(idx, earlier)
      BY DEF Surjection
    <3> HIDE DEF f, idx, earlier
    <3> QED BY <3>1, <3>2, FS_Surjection
  <2>4. Cardinality(finite) <= Cardinality(earlier) /\ Cardinality(earlier) \in Nat
        /\ Cardinality(finite) \in Nat
    BY <2>1, <2>2, <2>3, FS_Subset, FS_CardinalityType
  <2> QED BY <2>3, <2>4, <1>1
<1>3. l \in [Experts -> Nat] /\ Open(t, j) \in SUBSET Experts
  BY LogitsAre DEF Open
<1>4. best = Argmax(l, Open(t, j))
  BY DEF RoutingExact
<1>5. best \in Open(t, j) /\ \A f \in Open(t, j) : f = best \/ Before(l, best, f)
  BY <1>2, <1>3, <1>4, ArgmaxIs
<1>6. CASE e \in Open(t, j)
  BY <1>5, <1>6, <1>1
<1>7. CASE e \notin Open(t, j)
  <2>1. l[e] = 0 /\ l[best] # 0
    BY <1>5, <1>7, <1>1 DEF Open, NegInf
  <2>2. best \in Experts
    BY <1>5 DEF Open
  <2> QED BY <2>1, <2>2, <1>3 DEF Before
<1> QED BY <1>6, <1>7

\* A format's choosing wrapper and its kernels agree about every call they take.
LEMMA ChoiceFollows ==
  ASSUME NEW format, NEW c, NEW l \in Kernels(format, c), l.accepted
  PROVE  l = Chosen(format, c)
<1> USE DEF Chosen, Launch, Refused
<1>1. CASE format = "bf16"
  <2>1. l \in {gemm_bf16_grouped(c), gemm_bf16_grouped_mma(c)}
    BY <1>1 DEF Kernels
  <2> QED BY <1>1, <2>1
         DEF gemm_bf16_grouped, gemm_bf16_grouped_mma, gemm_bf16_grouped_auto
<1>2. CASE format = "bf16_sparse"
  <2>1. l \in {gemm_bf16_grouped_sparse(c), gemm_bf16_grouped_mma_sparse(c)}
    BY <1>2 DEF Kernels
  <2> QED BY <1>2, <2>1 DEF gemm_bf16_grouped_sparse, gemm_bf16_grouped_mma_sparse,
                            gemm_bf16_grouped_sparse_auto
<1>3. CASE format = "fp8_block128"
  <2>1. l \in {gemm_fp8_block128_grouped(c), gemm_fp8_block128_grouped_mma(c)}
    BY <1>3 DEF Kernels
  <2> QED BY <1>3, <2>1 DEF gemm_fp8_block128_grouped, gemm_fp8_block128_grouped_mma,
                            gemm_fp8_block128_grouped_auto
<1>4. CASE format = "fp8_block128_mma"
  <2>1. l \in {gemm_fp8_block128_grouped_mma(c), gemm_fp8_block128_grouped_mma_v2(c)}
    BY <1>4 DEF Kernels
  <2> QED BY <1>4, <2>1 DEF gemm_fp8_block128_grouped_mma,
            gemm_fp8_block128_grouped_mma_v2, gemm_fp8_block128_grouped_mma_auto
<1>5. CASE format = "mxfp8"
  <2>1. l \in {gemm_mxfp8_grouped_mma(c), gemm_mxfp8_grouped_mma_v2(c)}
    BY <1>5 DEF Kernels
  <2> QED BY <1>5, <2>1 DEF gemm_mxfp8_grouped_mma, gemm_mxfp8_grouped_mma_v2,
                            gemm_mxfp8_grouped_mma_auto
<1>6. CASE format = "fp8"
  <2>1. l \in {gemm_fp8_grouped_mma(c), gemm_fp8_grouped_mma_v2(c)}
    BY <1>6 DEF Kernels
  <2> QED BY <1>6, <2>1 DEF gemm_fp8_grouped_mma, gemm_fp8_grouped_mma_v2,
                            gemm_fp8_grouped_mma_auto
<1>7. CASE format = "mxfp4"
  <2>1. l \in {gemm_mxfp4_grouped_mma(c), gemm_mxfp4_grouped_mma_v2(c)}
    BY <1>7 DEF Kernels
  <2> QED BY <1>7, <2>1 DEF gemm_mxfp4_grouped_mma, gemm_mxfp4_grouped_mma_v2,
                            gemm_mxfp4_grouped_mma_auto
<1>8. CASE format = "nvfp4_fp8scale"
  <2>1. l \in {gemm_nvfp4_fp8scale_grouped_mma(c), gemm_nvfp4_fp8scale_grouped_mma_v2(c)}
    BY <1>8 DEF Kernels
  <2> QED BY <1>8, <2>1 DEF gemm_nvfp4_fp8scale_grouped_mma,
            gemm_nvfp4_fp8scale_grouped_mma_v2, gemm_nvfp4_fp8scale_grouped_mma_auto
<1>9. CASE format \notin {"bf16", "bf16_sparse", "fp8_block128", "fp8_block128_mma",
                        "mxfp8", "fp8", "mxfp4", "nvfp4_fp8scale"}
  BY <1>9 DEF Kernels
<1> QED BY <1>1, <1>2, <1>3, <1>4, <1>5, <1>6, <1>7, <1>8, <1>9

\* An accepted product has a tile for every BM rows of m_max.
LEMMA ChosenCovers ==
  ASSUME NEW format \in Formats, NEW c, c.m_max \in Nat, Chosen(format, c).accepted
  PROVE  /\ Chosen(format, c) \in [accepted : {TRUE}, tiles : Nat, z : {"expert", "active"}]
         /\ c.m_max <= Chosen(format, c).tiles * BM
<1> DEFINE x == c.m_max + BM - 1
           q == DivUp(c.m_max, BM)
<1>1. q \in Nat /\ c.m_max <= q * BM
  <2>1. x \in Nat /\ BM \in Nat \ {0}
    BY Params
  <2>2. q \in Int /\ BM * q <= x /\ x < BM * q + BM
    BY <2>1 DEF DivUp
  <2>3. q >= 0
    <3>1. SUFFICES ASSUME q <= -1 PROVE FALSE
      BY <2>2
    <3>2. BM * (-1 - q) >= 0
      BY <3>1, <2>1, <2>2
    <3> QED BY <3>2, <2>1, <2>2
  <2> QED BY <2>1, <2>2, <2>3
<1>2. Chosen(format, c) \in {DenseGrid(c), SparseGrid(c)}
  <2> USE DEF Launch, Refused
  <2>1. CASE format \in {"bf16", "bf16_sparse", "fp8_block128"}
    BY <2>1 DEF Chosen, gemm_bf16_grouped, gemm_bf16_grouped_mma, gemm_bf16_grouped_auto,
      gemm_bf16_grouped_sparse, gemm_bf16_grouped_mma_sparse,
      gemm_bf16_grouped_sparse_auto, gemm_fp8_block128_grouped,
      gemm_fp8_block128_grouped_mma, gemm_fp8_block128_grouped_auto
  <2>2. CASE format \in {"fp8_block128_mma", "mxfp8", "fp8"}
    BY <2>2 DEF Chosen, gemm_fp8_block128_grouped_mma, gemm_fp8_block128_grouped_mma_v2,
      gemm_fp8_block128_grouped_mma_auto, gemm_mxfp8_grouped_mma,
      gemm_mxfp8_grouped_mma_v2, gemm_mxfp8_grouped_mma_auto, gemm_fp8_grouped_mma,
      gemm_fp8_grouped_mma_v2, gemm_fp8_grouped_mma_auto
  <2>3. CASE format \in {"mxfp4", "nvfp4_fp8scale", "nvfp4", "w8a16"}
    BY <2>3 DEF Chosen, gemm_mxfp4_grouped_mma, gemm_mxfp4_grouped_mma_v2,
      gemm_mxfp4_grouped_mma_auto, gemm_nvfp4_fp8scale_grouped_mma,
      gemm_nvfp4_fp8scale_grouped_mma_v2, gemm_nvfp4_fp8scale_grouped_mma_auto,
      gemm_nvfp4_grouped_mma, gemm_w8a16_grouped_mma
  <2> QED BY <2>1, <2>2, <2>3 DEF Formats
<1> HIDE DEF q
<1>3. MTiles(c) = q
  BY DEF MTiles, q
<1> DEFINE grid == Chosen(format, c)
<1>4. /\ grid = [accepted |-> TRUE, tiles |-> grid.tiles, z |-> grid.z]
      /\ grid.tiles = q /\ grid.z \in {"expert", "active"}
  BY <1>2, <1>3 DEF DenseGrid, SparseGrid
<1> HIDE DEF grid
<1> QED BY <1>1, <1>4 DEF grid

-----------------------------------------------------------------------------
(* Each step.  What a step leaves alone keeps the groups of the entries and *)
(* with them most of the invariant.                                         *)

LEMMA SameGroups ==
  ASSUME path' = path, ids' = ids
  PROVE  /\ Groups' = Groups /\ GroupsUpTo' = GroupsUpTo /\ NumGroups' = NumGroups
         /\ \A i \in Entries : GroupOf(i)' = GroupOf(i)
         /\ \A g : At(g)' = At(g) /\ Below(g)' = Below(g)
BY DEF Groups, GroupsUpTo, NumGroups, GroupOf, At, Below, PlaceKey

LEMMA InitHolds == Init => IInv
<1> SUFFICES ASSUME Init PROVE IInv
  OBVIOUS
<1> USE Params
<1>1. TypeOK
  <2>1. 0 \in Experts /\ 0 \in GroupsUpTo
    BY GroupsAre DEF Experts
  <2> QED BY <2>1 DEF Init, TypeOK
<1>2. Stages
  BY DEF Init, Stages, Placing
<1>3. RoutingExact
  BY DEF Init, RoutingExact
<1>4. HistExact /\ CursorExact
  <2>1. \A g \in Groups : hist[g] = 0 /\ cursor[g] = 0
    BY DEF Init
  <2>2. \A g : /\ {i \in counted : GroupOf(i) = g} = {}
               /\ {i \in Entries : dst[i] # Stale /\ GroupOf(i) = g} = {}
    BY DEF Init
  <2> QED BY <2>1, <2>2, FS_EmptySet DEF HistExact, CursorExact
<1>5. OffsetsExact /\ Placed /\ Launched /\ ComputedExact /\ OutExact
  BY DEF Init, OffsetsExact, Placed, Launched, ComputedExact, Uncomputed, OutExact
<1> QED BY <1>1, <1>2, <1>3, <1>4, <1>5 DEF IInv

LEMMA RoutePassStep ==
  ASSUME IInv, NEW t \in Tokens, RoutePass(t)
  PROVE  IInv'
<1> USE Params DEF IInv
<1> DEFINE p == passes[t]
           n == t * TopK + p
<1>1. /\ stage = "route" /\ p < TopK /\ p \in Nat
      /\ ids' = [ids EXCEPT ![n] = Argmax(logits[t], Unmasked(t))]
      /\ passes' = [passes EXCEPT ![t] = @ + 1]
  BY DEF RoutePass, TypeOK
<1>2. /\ path' = path /\ stage' = stage /\ logits' = logits /\ counted' = counted
      /\ hist' = hist /\ offsets' = offsets /\ summed' = summed /\ cursor' = cursor
      /\ dst' = dst /\ inverse' = inverse /\ permuted' = permuted /\ active' = active
      /\ launch' = launch /\ computed' = computed /\ out' = out
  BY DEF RoutePass
<1>3. n \in Entries /\ Argmax(logits[t], Unmasked(t)) \in Experts
  <2>1. Unmasked(t) \in SUBSET Experts
    BY DEF Unmasked
  <2> QED BY <1>1, <2>1, EntryOf, ArgmaxInExperts, LogitsAre
<1>4. TypeOK'
  <2>1. ids' \in [Entries -> Experts]
    BY <1>1, <1>3 DEF TypeOK
  <2>2. passes' \in [Tokens -> 0 .. TopK]
    BY <1>1 DEF TypeOK
  <2>3. Groups' = Groups /\ GroupsUpTo' = GroupsUpTo
    BY <1>2 DEF Groups, GroupsUpTo
  <2> QED BY <1>2, <2>1, <2>2, <2>3 DEF TypeOK
<1>5. \A u \in Tokens : \A j \in 0 .. TopK - 1 :
        ~(u = t /\ j = p) => ids'[u * TopK + j] = ids[u * TopK + j]
  <2>1. SUFFICES ASSUME NEW u \in Tokens, NEW j \in 0 .. TopK - 1,
                        ~(u = t /\ j = p)
                 PROVE  u * TopK + j # n
    BY <1>1, EntryOf DEF TypeOK
  <2>2. TokenOf(u * TopK + j) = u /\ TokenOf(n) = t
    BY <1>1, EntryOf
  <2>3. CASE u # t
    BY <2>2, <2>3
  <2>4. CASE u = t
    <3>1. t * TopK \in Int
      BY DEF Tokens
    <3> QED BY <3>1, <2>1, <2>4, <1>1
  <2> QED BY <2>3, <2>4
<1>6. RoutingExact'
  <2> SUFFICES ASSUME NEW u \in Tokens, NEW j \in 0 .. passes'[u] - 1
               PROVE  ids'[u * TopK + j] = Argmax(logits[u], Open(u, j)')
    BY <1>2 DEF RoutingExact
  <2>1. j \in 0 .. TopK - 1 /\ \A m \in 0 .. j - 1 : m \in 0 .. TopK - 1
    BY <1>4 DEF TypeOK
  <2>2. u = t => j <= p
    BY <1>1 DEF TypeOK
  <2>3. \A m \in 0 .. j - 1 : ids'[u * TopK + m] = ids[u * TopK + m]
    BY <1>5, <2>1, <2>2
  <2>4. Open(u, j)' = Open(u, j)
    BY <1>2, <2>3 DEF Open
  <2>5. CASE u = t /\ j = p
    <3>1. Open(t, p) = Unmasked(t)
      BY DEF Open, Unmasked
    <3>2. ids'[n] = Argmax(logits[t], Unmasked(t))
      BY <1>1, <1>3 DEF TypeOK
    <3> QED BY <2>4, <2>5, <3>1, <3>2
  <2>6. CASE ~(u = t /\ j = p)
    <3>1. j \in 0 .. passes[u] - 1
      BY <1>1, <2>2, <2>6 DEF TypeOK
    <3> QED BY <1>5, <2>1, <2>4, <2>6, <3>1 DEF RoutingExact
  <2> QED BY <2>5, <2>6
<1>7. Stages'
  BY <1>1, <1>2 DEF Stages, Placing
<1>8. HistExact' /\ CursorExact'
  <2>1. Groups' = Groups
    BY <1>2 DEF Groups
  <2>2. counted = {} /\ \A i \in Entries : dst[i] = Stale
    BY <1>1 DEF Stages, Placing
  <2>3. \A g : /\ {i \in counted : GroupOf(i)' = g} = {} /\ {i \in counted : GroupOf(i) = g} = {}
               /\ {i \in Entries : dst[i] # Stale /\ GroupOf(i)' = g} = {}
               /\ {i \in Entries : dst[i] # Stale /\ GroupOf(i) = g} = {}
    BY <2>2
  <2> QED BY <1>2, <2>1, <2>3 DEF HistExact, CursorExact
<1>9. OffsetsExact' /\ ComputedExact'
  BY <1>1, <1>2 DEF OffsetsExact, ComputedExact, Uncomputed
<1>10. Placed'
  BY <1>1, <1>2 DEF Placed, Stages, Placing
<1>11. Launched' /\ OutExact'
  BY <1>1, <1>2 DEF Launched, OutExact, Stages
<1> QED BY <1>4, <1>6, <1>7, <1>8, <1>9, <1>10, <1>11

\* After routing the invariant is about these; what is left alone stays true.
LEMMA Kept ==
  ASSUME IInv, path' = path, logits' = logits, passes' = passes, ids' = ids
  PROVE  /\ RoutingExact'
         /\ counted' = counted /\ hist' = hist => HistExact'
         /\ dst' = dst /\ cursor' = cursor => CursorExact'
         /\ dst' = dst /\ cursor' = cursor /\ inverse' = inverse /\ offsets' = offsets => Placed'
         /\ computed' = computed /\ inverse' = inverse /\ out' = out => OutExact'
<1> USE DEF IInv
<1>1. RoutingExact'
  BY DEF RoutingExact, Open
<1>2. ASSUME counted' = counted, hist' = hist PROVE HistExact'
  <2>1. counted' \subseteq Entries
    BY <1>2 DEF TypeOK
  <2>2. \A g : {i \in counted : GroupOf(i)' = g} = {i \in counted : GroupOf(i) = g}
    BY <1>2, <2>1, SameGroups
  <2> QED BY <1>2, <2>2, SameGroups DEF HistExact
<1>3. ASSUME dst' = dst, cursor' = cursor PROVE CursorExact'
  BY <1>3, SameGroups DEF CursorExact
<1>4. ASSUME dst' = dst, cursor' = cursor, inverse' = inverse, offsets' = offsets PROVE Placed'
  BY <1>4, SameGroups DEF Placed
<1>5. ASSUME computed' = computed, inverse' = inverse, out' = out PROVE OutExact'
  BY <1>5 DEF OutExact
<1> QED BY <1>1, <1>2, <1>3, <1>4, <1>5

LEMMA StartCountingStep ==
  ASSUME IInv, StartCounting
  PROVE  IInv'
<1> USE DEF IInv
<1>1. /\ stage = "route" /\ stage' = "histogram" /\ \A t \in Tokens : passes[t] = TopK
      /\ path' = path /\ logits' = logits /\ passes' = passes /\ ids' = ids
      /\ counted' = counted /\ hist' = hist /\ offsets' = offsets /\ summed' = summed
      /\ cursor' = cursor /\ dst' = dst /\ inverse' = inverse /\ permuted' = permuted
      /\ active' = active /\ launch' = launch /\ computed' = computed /\ out' = out
  BY DEF StartCounting, Routed
<1>2. TypeOK'
  BY <1>1, SameGroups DEF TypeOK
<1>3. Stages'
  BY <1>1 DEF Stages, Placing
<1>4. OffsetsExact' /\ ComputedExact' /\ Launched'
  BY <1>1 DEF OffsetsExact, ComputedExact, Uncomputed, Launched
<1> QED BY <1>1, <1>2, <1>3, <1>4, Kept

LEMMA CountEntryStep ==
  ASSUME IInv, NEW i \in Entries, CountEntry(i)
  PROVE  IInv'
<1> USE DEF IInv
<1> DEFINE g == GroupOf(i)
<1>1. /\ stage = "histogram" /\ i \notin counted /\ counted' = counted \cup {i}
      /\ path' = path /\ stage' = stage /\ logits' = logits /\ passes' = passes
      /\ ids' = ids /\ offsets' = offsets /\ summed' = summed
      /\ cursor' = cursor /\ dst' = dst /\ inverse' = inverse /\ permuted' = permuted
      /\ active' = active /\ launch' = launch /\ computed' = computed /\ out' = out
  BY DEF CountEntry
<1>2. g \in Groups /\ hist' = [hist EXCEPT ![g] = @ + 1]
  BY GroupInGroups DEF CountEntry, TypeOK
<1>3. TypeOK'
  <2>1. hist' \in [Groups -> Nat]
    BY <1>2 DEF TypeOK
  <2>2. counted' \subseteq Entries
    BY <1>1 DEF TypeOK
  <2> QED BY <1>1, <2>1, <2>2, SameGroups DEF TypeOK
<1>4. Stages'
  <2>1. \A t \in Tokens : passes'[t] = TopK
    BY <1>1 DEF Stages
  <2> QED BY <1>1, <2>1 DEF Stages, Placing
<1>5. HistExact'
  <2> SUFFICES ASSUME NEW h \in Groups
               PROVE  hist'[h] = Cardinality({x \in counted' : GroupOf(x)' = h})
    BY <1>1, SameGroups DEF HistExact
  <2> DEFINE C == {x \in counted : GroupOf(x) = h}
             D == {x \in counted' : GroupOf(x)' = h}
  <2>1. counted \in SUBSET Entries /\ C \in SUBSET Entries /\ hist[h] = Cardinality(C)
    BY DEF TypeOK, HistExact
  <2>2. D = IF h = g THEN C \cup {i} ELSE C
    BY <1>1, <2>1, SameGroups
  <2>3. IsFiniteSet(C) /\ i \notin C /\ Cardinality(C) \in Nat
    BY <1>1, <2>1, EntriesFinite
  <2> HIDE DEF C, D, g
  <2>4. Cardinality(D) = IF h = g THEN Cardinality(C) + 1 ELSE Cardinality(C)
    BY <2>2, <2>3, FS_AddElement
  <2>5. hist'[h] = IF h = g THEN hist[h] + 1 ELSE hist[h]
    BY <1>2 DEF TypeOK
  <2>6. hist'[h] = Cardinality(D)
    BY <2>1, <2>4, <2>5
  <2> QED BY <2>6 DEF D
<1>6. OffsetsExact' /\ ComputedExact' /\ Launched'
  BY <1>1 DEF OffsetsExact, ComputedExact, Uncomputed, Launched
<1> QED BY <1>1, <1>3, <1>4, <1>5, <1>6, Kept

LEMMA StartSummingStep ==
  ASSUME IInv, StartSumming
  PROVE  IInv'
<1> USE DEF IInv
<1>1. /\ stage = "histogram" /\ counted = Entries /\ stage' = "offsets"
      /\ offsets' = [offsets EXCEPT ![0] = 0] /\ summed' = 0
      /\ path' = path /\ logits' = logits /\ passes' = passes /\ ids' = ids
      /\ counted' = counted /\ hist' = hist
      /\ cursor' = cursor /\ dst' = dst /\ inverse' = inverse /\ permuted' = permuted
      /\ active' = active /\ launch' = launch /\ computed' = computed /\ out' = out
  BY DEF StartSumming
<1>2. TypeOK'
  <2>1. offsets' \in [GroupsUpTo -> Nat] /\ summed' \in GroupsUpTo
    BY <1>1, GroupsAre DEF TypeOK
  <2> QED BY <1>1, <2>1, SameGroups DEF TypeOK
<1>3. Stages'
  BY <1>1 DEF Stages, Placing
<1>4. OffsetsExact'
  <2>1. offsets'[0] = 0
    BY <1>1, GroupsAre DEF TypeOK
  <2>2. Below(0) = {}
    BY GroupInGroups, GroupsAre DEF Below
  <2>3. \A s \in 0 .. summed' : s = 0
    BY <1>1
  <2> QED BY <1>1, <2>1, <2>2, <2>3, FS_EmptySet, SameGroups DEF OffsetsExact
<1>5. Placed'
  BY <1>1 DEF Placed, Stages, Placing
<1>6. ComputedExact' /\ Launched'
  BY <1>1 DEF ComputedExact, Uncomputed, Launched
<1> QED BY <1>1, <1>2, <1>3, <1>4, <1>5, <1>6, Kept

LEMMA SumGroupStep ==
  ASSUME IInv, SumGroup
  PROVE  IInv'
<1> USE DEF IInv
<1>1. /\ stage = "offsets" /\ summed \in Groups /\ stage' = "offsets"
      /\ offsets' = [offsets EXCEPT ![summed + 1] = offsets[summed] + hist[summed]]
      /\ summed' = summed + 1
      /\ path' = path /\ logits' = logits /\ passes' = passes /\ ids' = ids
      /\ counted' = counted /\ hist' = hist
      /\ cursor' = cursor /\ dst' = dst /\ inverse' = inverse /\ permuted' = permuted
      /\ active' = active /\ launch' = launch /\ computed' = computed /\ out' = out
  BY DEF SumGroup
<1>2. summed \in Nat /\ summed \in GroupsUpTo /\ summed + 1 \in GroupsUpTo
  BY <1>1, GroupsAre
<1>3. offsets[summed] \in Nat /\ hist[summed] \in Nat
  BY <1>1, <1>2 DEF TypeOK
<1>4. TypeOK'
  <2>1. offsets' \in [GroupsUpTo -> Nat]
    BY <1>1, <1>2, <1>3 DEF TypeOK
  <2> QED BY <1>1, <1>2, <2>1, SameGroups DEF TypeOK
<1>5. Stages'
  BY <1>1 DEF Stages, Placing
<1>6. OffsetsExact'
  <2> SUFFICES ASSUME NEW s \in 0 .. summed + 1
               PROVE  offsets'[s] = Cardinality(Below(s))
    BY <1>1, SameGroups DEF OffsetsExact
  <2>1. CASE s = summed + 1
    <3>1. offsets'[s] = offsets[summed] + hist[summed]
      BY <1>1, <1>2, <2>1 DEF TypeOK
    <3>2. offsets[summed] = Cardinality(Below(summed))
      BY <1>1, <1>2 DEF OffsetsExact
    <3>3. hist[summed] = Cardinality(At(summed))
      BY <1>1 DEF HistExact, At, Stages
    <3> QED BY <1>1, <2>1, <3>1, <3>2, <3>3, BelowCounts
  <2>2. CASE s # summed + 1
    <3>1. s \in 0 .. summed /\ s \in GroupsUpTo
      BY <1>2, <2>2, GroupsAre
    <3>2. offsets'[s] = offsets[s]
      BY <1>1, <2>2, <3>1 DEF TypeOK
    <3> QED BY <1>1, <3>1, <3>2 DEF OffsetsExact
  <2> QED BY <2>1, <2>2
<1>7. Placed'
  BY <1>1 DEF Placed, Stages, Placing
<1>8. ComputedExact' /\ Launched'
  BY <1>1 DEF ComputedExact, Uncomputed, Launched
<1> QED BY <1>1, <1>4, <1>5, <1>6, <1>7, <1>8, Kept

LEMMA StartPlacingStep ==
  ASSUME IInv, StartPlacing
  PROVE  IInv'
<1> USE DEF IInv
<1>1. /\ stage = "offsets" /\ summed \notin Groups /\ stage' = "permute"
      /\ path' = path /\ logits' = logits /\ passes' = passes /\ ids' = ids
      /\ counted' = counted /\ hist' = hist /\ offsets' = offsets /\ summed' = summed
      /\ cursor' = cursor /\ dst' = dst /\ inverse' = inverse /\ permuted' = permuted
      /\ active' = active /\ launch' = launch /\ computed' = computed /\ out' = out
  BY DEF StartPlacing
<1>2. TypeOK'
  BY <1>1, SameGroups DEF TypeOK
<1>3. Stages'
  BY <1>1, SameGroups DEF Stages, Placing
<1>4. OffsetsExact'
  BY <1>1, SameGroups DEF OffsetsExact
<1>5. ComputedExact' /\ Launched'
  BY <1>1 DEF ComputedExact, Uncomputed, Launched
<1> QED BY <1>1, <1>2, <1>3, <1>4, <1>5, Kept

LEMMA ClaimRowStep ==
  ASSUME IInv, NEW i \in Entries, ClaimRow(i)
  PROVE  IInv'
<1> USE DEF IInv
<1> DEFINE g == GroupOf(i)
           r == offsets[g] + cursor[g]
<1>1. /\ stage = "permute" /\ dst[i] = Stale
      /\ cursor' = [cursor EXCEPT ![g] = @ + 1]
      /\ dst' = [dst EXCEPT ![i] = r]
      /\ inverse' = [inverse EXCEPT ![r] = i]
      /\ path' = path /\ stage' = stage /\ logits' = logits /\ passes' = passes
      /\ ids' = ids /\ counted' = counted /\ hist' = hist /\ offsets' = offsets
      /\ summed' = summed /\ permuted' = permuted
      /\ active' = active /\ launch' = launch /\ computed' = computed /\ out' = out
  BY DEF ClaimRow, GroupOf
<1>2. g \in Groups /\ \A j \in Entries : GroupOf(j) \in Groups
  BY GroupInGroups
<1>3. /\ \A h \in Groups : /\ h + 1 \in GroupsUpTo /\ h \in GroupsUpTo
                           /\ offsets[h + 1] = offsets[h] + hist[h]
                           /\ hist[h] = Cardinality(At(h))
      /\ \A s, u \in GroupsUpTo : s <= u => offsets[s] <= offsets[u]
      /\ \A s \in GroupsUpTo : offsets[s] \in Nat /\ offsets[s] <= NumTokens * TopK
  BY <1>1, Segments DEF Placing
<1>4. \A h \in Groups : cursor[h] \in Nat /\ hist[h] \in Nat /\ cursor[h] <= hist[h]
  BY <1>1, CursorInSegment DEF Placing
<1>5. cursor[g] < hist[g]
  <2> DEFINE C == {j \in Entries : dst[j] # Stale /\ GroupOf(j) = g}
  <2>1. C \in SUBSET At(g) /\ At(g) \in SUBSET Entries /\ cursor[g] = Cardinality(C)
    BY <1>2 DEF At, CursorExact
  <2>2. i \in At(g) /\ i \notin C
    BY <1>1 DEF At
  <2> HIDE DEF C, g
  <2>3. Cardinality(C) # Cardinality(At(g))
    BY <2>1, <2>2, EntriesFinite, FS_Subset
  <2> QED BY <1>2, <1>3, <1>4, <2>1, <2>3
<1>6. r \in Entries /\ r \in Nat /\ r < offsets[g + 1]
  <2>1. offsets[g] \in Nat /\ cursor[g] \in Nat /\ hist[g] \in Nat /\ g + 1 \in GroupsUpTo
    BY <1>2, <1>3, <1>4
  <2>2. r < offsets[g + 1]
    BY <1>2, <1>3, <1>5, <2>1
  <2>3. offsets[g + 1] <= NumTokens * TopK /\ offsets[g + 1] \in Nat
    BY <1>3, <2>1
  <2> QED BY <2>1, <2>2, <2>3, Params DEF Entries
<1>7. ASSUME NEW j \in Entries, dst[j] # Stale PROVE dst[j] # r
  <2>1. SUFFICES ASSUME dst[j] = r PROVE FALSE
    OBVIOUS
  <2>2. offsets[g] \in Nat /\ cursor[g] \in Nat
    BY <1>2, <1>3, <1>4
  <2>3. offsets[g] <= dst[j] /\ dst[j] < offsets[g + 1]
    BY <1>6, <2>1, <2>2
  <2>4. GroupOf(j) = g
    BY <1>1, <1>2, <1>7, <2>3, SegmentOfRow DEF Placing
  <2> QED BY <1>7, <2>1, <2>2, <2>4 DEF Placed
<1>8. r # Stale
  BY <1>6 DEF Stale
<1>9. /\ \A j \in Entries : dst'[j] = IF j = i THEN r ELSE dst[j]
      /\ \A x \in Entries : inverse'[x] = IF x = r THEN i ELSE inverse[x]
      /\ \A h \in Groups : cursor'[h] = IF h = g THEN cursor[h] + 1 ELSE cursor[h]
  BY <1>1, <1>6, <1>2 DEF TypeOK
<1>10. TypeOK'
  <2>1. dst' \in [Entries -> Entries \cup {Stale}]
    BY <1>1, <1>6 DEF TypeOK
  <2>2. inverse' \in [Entries -> Entries \cup {Stale}]
    BY <1>1, <1>6 DEF TypeOK
  <2>3. cursor' \in [Groups -> Nat]
    BY <1>1, <1>2, <1>4 DEF TypeOK
  <2> QED BY <1>1, <2>1, <2>2, <2>3, SameGroups DEF TypeOK
<1>11. Stages'
  BY <1>1, SameGroups DEF Stages, Placing
<1>12. CursorExact'
  <2> SUFFICES ASSUME NEW h \in Groups
               PROVE  cursor'[h] = Cardinality({j \in Entries : dst'[j] # Stale /\ GroupOf(j)' = h})
    BY <1>1, SameGroups DEF CursorExact
  <2> DEFINE C == {j \in Entries : dst[j] # Stale /\ GroupOf(j) = h}
             D == {j \in Entries : dst'[j] # Stale /\ GroupOf(j)' = h}
  <2>1. C \in SUBSET Entries /\ cursor[h] = Cardinality(C)
    BY DEF CursorExact
  <2>2. D = IF h = g THEN C \cup {i} ELSE C
    <3> HIDE DEF r
    <3> QED BY <1>1, <1>8, <1>9, SameGroups
  <2>3. IsFiniteSet(C) /\ i \notin C /\ Cardinality(C) \in Nat
    BY <1>1, <2>1, EntriesFinite
  <2> HIDE DEF C, D, g
  <2>4. Cardinality(D) = IF h = g THEN Cardinality(C) + 1 ELSE Cardinality(C)
    BY <2>2, <2>3, FS_AddElement
  <2>5. cursor'[h] = Cardinality(D)
    BY <1>9, <2>1, <2>4
  <2> QED BY <2>5 DEF D
<1>13. Placed'
  <2> SUFFICES ASSUME NEW j \in Entries, dst'[j] # Stale
               PROVE  /\ inverse'[dst'[j]] = j
                      /\ offsets[GroupOf(j)] <= dst'[j]
                      /\ dst'[j] < offsets[GroupOf(j)] + cursor'[GroupOf(j)]
    BY <1>1, SameGroups DEF Placed
  <2>1. CASE j = i
    <3>1. offsets[g] \in Nat /\ cursor[g] \in Nat /\ cursor'[g] = cursor[g] + 1
      BY <1>2, <1>3, <1>4, <1>9
    <3> QED BY <1>6, <1>9, <2>1, <3>1
  <2>2. CASE j # i
    <3> DEFINE h == GroupOf(j)
    <3>1. dst'[j] = dst[j] /\ dst[j] # Stale /\ dst[j] \in Entries /\ dst[j] # r
      <4> HIDE DEF r
      <4> QED BY <1>7, <1>9, <2>2 DEF TypeOK
    <3>2. /\ inverse[dst[j]] = j
          /\ offsets[h] <= dst[j] /\ dst[j] < offsets[h] + cursor[h]
      BY <3>1 DEF Placed
    <3>3. h \in Groups /\ offsets[h] \in Nat /\ cursor[h] \in Nat /\ dst[j] \in Nat
      BY <1>2, <1>3, <1>4, <3>1 DEF Entries
    <3>4. cursor'[h] \in Nat /\ cursor[h] <= cursor'[h]
      BY <1>9, <3>3
    <3>5. inverse'[dst[j]] = j
      BY <1>9, <3>1, <3>2
    <3> QED BY <3>1, <3>2, <3>3, <3>4, <3>5
  <2> QED BY <2>1, <2>2
<1>14. OffsetsExact'
  BY <1>1, SameGroups DEF OffsetsExact
<1>15. ComputedExact' /\ Launched'
  BY <1>1 DEF ComputedExact, Uncomputed, Launched
<1>16. HistExact' /\ RoutingExact'
  BY <1>1, Kept
<1>17. OutExact'
  BY <1>1 DEF OutExact, Stages
<1> QED BY <1>10, <1>11, <1>12, <1>13, <1>14, <1>15, <1>16, <1>17

LEMMA CopyRowStep ==
  ASSUME IInv, NEW i \in Entries, CopyRow(i)
  PROVE  IInv'
<1> USE DEF IInv
<1>1. /\ stage = "permute" /\ dst[i] # Stale
      /\ permuted' = [permuted EXCEPT ![dst[i]] = TokenOf(i)]
      /\ path' = path /\ stage' = stage /\ logits' = logits /\ passes' = passes
      /\ ids' = ids /\ counted' = counted /\ hist' = hist /\ offsets' = offsets
      /\ summed' = summed /\ cursor' = cursor /\ dst' = dst /\ inverse' = inverse
      /\ active' = active /\ launch' = launch /\ computed' = computed /\ out' = out
  BY DEF CopyRow
<1>2. TypeOK'
  <2>1. permuted' \in [Entries -> Tokens \cup {Stale}]
    BY <1>1, EntrySplit DEF TypeOK
  <2> QED BY <1>1, <2>1, SameGroups DEF TypeOK
<1>3. Stages'
  BY <1>1, SameGroups DEF Stages, Placing
<1>4. OffsetsExact'
  BY <1>1, SameGroups DEF OffsetsExact
<1>5. ComputedExact' /\ Launched'
  BY <1>1 DEF ComputedExact, Uncomputed, Launched
<1> QED BY <1>1, <1>2, <1>3, <1>4, <1>5, Kept

LEMMA StartCompactStep ==
  ASSUME IInv, StartCompact
  PROVE  IInv'
<1> USE DEF IInv
<1>1. /\ stage = "permute" /\ stage' = "compact" /\ path = "expert" /\ AllPlaced
      /\ path' = path /\ logits' = logits /\ passes' = passes /\ ids' = ids
      /\ counted' = counted /\ hist' = hist /\ offsets' = offsets /\ summed' = summed
      /\ cursor' = cursor /\ dst' = dst /\ inverse' = inverse /\ permuted' = permuted
      /\ active' = active /\ launch' = launch /\ computed' = computed /\ out' = out
  BY DEF StartCompact, Permuted, AllPlaced
<1>2. TypeOK'
  BY <1>1, SameGroups DEF TypeOK
<1>3. Stages'
  BY <1>1, SameGroups DEF Stages, Placing, AllPlaced
<1>4. OffsetsExact'
  BY <1>1, SameGroups DEF OffsetsExact
<1>5. ComputedExact' /\ Launched'
  BY <1>1 DEF ComputedExact, Uncomputed, Launched
<1> QED BY <1>1, <1>2, <1>3, <1>4, <1>5, Kept

LEMMA CompactExpertStep ==
  ASSUME IInv, NEW e \in Experts, CompactExpert(e)
  PROVE  IInv'
<1> USE DEF IInv
<1>1. /\ stage = "compact" /\ active' = Append(active, e)
      /\ path' = path /\ stage' = stage /\ logits' = logits /\ passes' = passes
      /\ ids' = ids /\ counted' = counted /\ hist' = hist /\ offsets' = offsets
      /\ summed' = summed /\ cursor' = cursor /\ dst' = dst /\ inverse' = inverse
      /\ permuted' = permuted /\ launch' = launch /\ computed' = computed /\ out' = out
  BY DEF CompactExpert
<1>2. TypeOK'
  <2>1. active' \in Seq(Experts)
    BY <1>1 DEF TypeOK
  <2> QED BY <1>1, <2>1, SameGroups DEF TypeOK
<1>3. Stages'
  BY <1>1, SameGroups DEF Stages, Placing, AllPlaced
<1>4. OffsetsExact'
  BY <1>1, SameGroups DEF OffsetsExact
<1>5. ComputedExact' /\ Launched'
  BY <1>1 DEF ComputedExact, Uncomputed, Launched
<1> QED BY <1>1, <1>2, <1>3, <1>4, <1>5, Kept

\* An accepted product: every expert with rows has tiles for all of them.
LEMMA StartProductStep ==
  ASSUME IInv, NEW c \in Calls, StartProduct(c)
  PROVE  IInv'
<1> USE DEF IInv
<1> DEFINE a == Actual(c)
<1>1. /\ stage = "compact" /\ stage' = "product" /\ Compacted
      /\ Chosen(c.format, a).accepted /\ launch' = Chosen(c.format, a)
      /\ path' = path /\ logits' = logits /\ passes' = passes /\ ids' = ids
      /\ counted' = counted /\ hist' = hist /\ offsets' = offsets /\ summed' = summed
      /\ cursor' = cursor /\ dst' = dst /\ inverse' = inverse /\ permuted' = permuted
      /\ active' = active /\ computed' = computed /\ out' = out
  BY DEF StartProduct
<1>2. path = "expert"
  BY <1>1 DEF Stages
<1>3. a.m_max \in Nat /\ \A e \in Experts : hist[e] \in Nat /\ hist[e] <= a.m_max
  <2>1. /\ c.m_max \in {"max", "all"}
        /\ a.m_max = IF c.m_max = "max" THEN MaxTokensPerExpert ELSE NumTokens * TopK
    BY CallsOK DEF Actual
  <2>2. hist \in [Experts -> Nat]
    BY <1>2 DEF TypeOK, Groups
  <2>3. CASE c.m_max = "max"
    <3>1. IsFiniteSet(Experts) /\ 0 \in Experts
      BY Params, FS_Interval DEF Experts
    <3>2. PICK e \in Experts : \A f \in Experts : hist[f] <= hist[e]
      BY <2>2, <3>1, GreatestAt
    <3> DEFINE H == {hist[x] : x \in Experts}
               Bound(h) == \A f \in Experts : hist[f] <= h
    <3>3. \E h \in H : Bound(h)
      BY <3>2
    <3>4. MaxTokensPerExpert = CHOOSE h \in H : Bound(h)
      BY DEF MaxTokensPerExpert
    <3>5. MaxTokensPerExpert \in H /\ Bound(MaxTokensPerExpert)
      <4> HIDE DEF H, Bound
      <4> QED BY <3>3, <3>4
    <3> QED BY <2>1, <2>2, <2>3, <3>5
  <2>4. CASE c.m_max = "all"
    <3>1. \A e \in Experts : hist[e] <= NumTokens * TopK
      <4> TAKE e \in Experts
      <4>1. hist[e] = Cardinality(At(e)) /\ At(e) \in SUBSET Entries
        <5>1. e \in Groups /\ counted = Entries
          BY <1>1, <1>2 DEF Stages, Groups
        <5> QED BY <5>1 DEF HistExact, At
      <4> QED BY <4>1, EntriesFinite
    <3> QED BY <2>1, <2>2, <2>4, <3>1, Params
  <2> QED BY <2>1, <2>3, <2>4
<1>4. c.format \in Formats
  BY CallsOK
<1>5. /\ launch' \in [accepted : {TRUE}, tiles : Nat, z : {"expert", "active"}]
      /\ a.m_max <= launch'.tiles * BM
  <2> HIDE DEF a
  <2> QED BY <1>1, <1>3, <1>4, ChosenCovers
<1>6. Launched'
  <2>1. \A e \in Experts : hist[e] <= launch'.tiles * BM
    <3> DEFINE w == launch'.tiles * BM
    <3>1. w \in Nat /\ a.m_max <= w
      BY <1>5, Params
    <3> HIDE DEF w, a
    <3>2. \A e \in Experts : hist[e] <= w
      BY <3>1, <1>3
    <3> QED BY <3>2 DEF w
  <2>2. Compacted'
    BY <1>1 DEF Compacted
  <2> QED BY <1>1, <1>5, <2>1, <2>2 DEF Launched
<1>7. TypeOK'
  <2>1. launch' \in [accepted : {TRUE}, tiles : Nat, z : {"expert", "active"}]
    BY <1>5
  <2> QED BY <1>1, <2>1, SameGroups DEF TypeOK
<1>8. Stages'
  BY <1>1, SameGroups DEF Stages, Placing, AllPlaced
<1>9. OffsetsExact'
  BY <1>1, SameGroups DEF OffsetsExact
<1>10. ComputedExact'
  BY <1>1 DEF ComputedExact, Uncomputed
<1> QED BY <1>1, <1>6, <1>7, <1>8, <1>9, <1>10, Kept

\* A block computes rows of its own expert's segment, which are the rows of the
\* entries sent to that expert.
LEMMA ProductTileStep ==
  ASSUME IInv, NEW z, NEW m \in Nat, ProductTile(z, m)
  PROVE  IInv'
<1> USE DEF IInv
<1> DEFINE e == ExpertAt(z)
<1>1. /\ stage = "product" /\ <<z, m>> \in Blocks
      /\ computed' = [r \in Entries |-> IF r \in TileRows(z, m)
                                         THEN <<permuted[r], e>> ELSE computed[r]]
      /\ path' = path /\ stage' = stage /\ logits' = logits /\ passes' = passes
      /\ ids' = ids /\ counted' = counted /\ hist' = hist /\ offsets' = offsets
      /\ summed' = summed /\ cursor' = cursor /\ dst' = dst /\ inverse' = inverse
      /\ permuted' = permuted /\ active' = active /\ launch' = launch /\ out' = out
  BY DEF ProductTile
<1>2. path = "expert" /\ AllPlaced /\ Groups = Experts
  BY <1>1 DEF Stages, Placing, Groups
<1>3. e \in Experts
  <2>1. CASE launch.z = "expert"
    BY <1>1, <2>1 DEF Blocks, ExpertAt
  <2>2. CASE launch.z # "expert"
    <3>1. z \in 0 .. Len(active) - 1 /\ active \in Seq(Experts)
      BY <1>1, <2>2 DEF Blocks, TypeOK
    <3>2. z + 1 \in 1 .. Len(active)
      BY <3>1
    <3> QED BY <2>2, <3>1, <3>2 DEF ExpertAt
  <2> QED BY <2>1, <2>2
<1>4. ASSUME NEW r \in TileRows(z, m)
      PROVE  r \in Entries /\ <<permuted[r], e>> = Value(r)
  <2>1. r \in Entries /\ offsets[e] + m * BM <= r /\ r < offsets[e + 1]
    BY DEF TileRows
  <2>2. offsets[e] \in Nat /\ m * BM \in Nat /\ r \in Nat
    BY <1>1, <1>2, <1>3, <2>1, Segments, Params DEF Placing, Entries
  <2>3. offsets[e] <= r
    BY <2>1, <2>2
  <2>4. inverse[r] \in Entries /\ dst[inverse[r]] = r /\ permuted[r] = TokenOf(inverse[r])
    BY <1>2, <2>1, RowsFull
  <2>5. e = GroupOf(inverse[r])
    <3> DEFINE i == inverse[r]
    <3>1. i \in Entries /\ dst[i] = r /\ dst[i] # Stale
      BY <1>2, <2>4 DEF AllPlaced
    <3>2. stage \in Placing
      BY <1>1 DEF Placing
    <3> HIDE DEF i, e
    <3> QED BY <1>2, <1>3, <2>1, <2>3, <3>1, <3>2, SegmentOfRow DEF i
  <2> QED BY <1>2, <2>1, <2>4, <2>5 DEF Value, GroupOf, PlaceKey
<1>5. ComputedExact'
  <2> SUFFICES ASSUME NEW r \in Entries
               PROVE  computed'[r] = <<Stale, Stale>> \/ computed'[r] = Value(r)
    BY <1>1 DEF ComputedExact, Uncomputed, Value
  <2>1. CASE r \in TileRows(z, m)
    BY <1>1, <1>4, <2>1
  <2>2. CASE r \notin TileRows(z, m)
    BY <1>1, <2>2 DEF ComputedExact, Uncomputed
  <2> QED BY <2>1, <2>2
<1>6. TypeOK'
  <2>1. \A r \in Entries : computed'[r] \in (Tokens \cup {Stale}) \X (Experts \cup {Stale})
    <3> TAKE r \in Entries
    <3>1. CASE r \in TileRows(z, m)
      BY <1>1, <1>2, <1>4, <3>1, ValueType
    <3>2. CASE r \notin TileRows(z, m)
      BY <1>1, <3>2 DEF TypeOK
    <3> QED BY <3>1, <3>2
  <2>2. computed' \in [Entries -> (Tokens \cup {Stale}) \X (Experts \cup {Stale})]
    BY <1>1, <2>1
  <2> QED BY <1>1, <2>2, SameGroups DEF TypeOK
<1>7. Stages'
  BY <1>1, SameGroups DEF Stages, Placing, AllPlaced
<1>8. OffsetsExact'
  BY <1>1, SameGroups DEF OffsetsExact
<1>9. Launched'
  BY <1>1 DEF Launched, Compacted
<1>10. OutExact'
  BY <1>1 DEF OutExact, Stages
<1> QED BY <1>1, <1>5, <1>6, <1>7, <1>8, <1>9, <1>10, Kept

\* Every row is in the segment of one device, which is its entry's.
LEMMA ExchangeStep ==
  ASSUME IInv, Exchange
  PROVE  IInv'
<1> USE DEF IInv
<1>1. /\ stage = "permute" /\ stage' = "unpermute" /\ path = "device" /\ AllPlaced
      /\ path' = path /\ logits' = logits /\ passes' = passes /\ ids' = ids
      /\ counted' = counted /\ hist' = hist /\ offsets' = offsets /\ summed' = summed
      /\ cursor' = cursor /\ dst' = dst /\ inverse' = inverse /\ permuted' = permuted
      /\ active' = active /\ launch' = launch /\ out' = out
  BY DEF Exchange, Permuted, AllPlaced
<1>2. ASSUME NEW r \in Entries PROVE computed'[r] = Value(r)
  <2> DEFINE i == inverse[r]
             d == GroupOf(i)
  <2>1. i \in Entries /\ dst[i] = r /\ permuted[r] = TokenOf(i)
    BY <1>1, RowsFull
  <2>2. dst[i] # Stale /\ i # Stale
    BY <1>1, <2>1 DEF AllPlaced, Entries, Stale
  <2>3. d \in Devices /\ ExpertToDevice[ids[i]] = d
    BY <1>1, <2>1, GroupInGroups DEF Groups, GroupOf, PlaceKey
  <2>4. offsets[d] <= r /\ r < offsets[d + 1]
    <3>1. stage \in Placing
      BY <1>1 DEF Placing
    <3> HIDE DEF i
    <3> QED BY <2>1, <2>2, <3>1, SegmentOfRow
  <2>5. computed'[r] = <<permuted[r], ids[i]>>
    <3> HIDE DEF d
    <3> QED BY <2>2, <2>3, <2>4 DEF Exchange
  <2> QED BY <2>1, <2>5 DEF Value
<1>3. ComputedExact'
  BY <1>1, <1>2 DEF ComputedExact, Value
<1>4. TypeOK'
  <2>1. computed' = [r \in Entries |-> computed'[r]]
    BY DEF Exchange
  <2>2. \A r \in Entries : computed'[r] \in (Tokens \cup {Stale}) \X (Experts \cup {Stale})
    BY <1>1, <1>2, ValueType
  <2>3. computed' \in [Entries -> (Tokens \cup {Stale}) \X (Experts \cup {Stale})]
    BY <2>1, <2>2
  <2> QED BY <1>1, <2>3, SameGroups DEF TypeOK
<1>5. Stages'
  BY <1>1, SameGroups DEF Stages, Placing, AllPlaced
<1>6. OffsetsExact'
  BY <1>1, SameGroups DEF OffsetsExact
<1>7. Launched'
  BY <1>1 DEF Launched
<1>8. OutExact'
  BY <1>1 DEF OutExact, Stages
<1> QED BY <1>1, <1>3, <1>4, <1>5, <1>6, <1>7, <1>8, Kept

\* When no block has a row left to compute, no row is left: the tile of each row is
\* in the grid.
LEMMA StartUnpermuteStep ==
  ASSUME IInv, StartUnpermute
  PROVE  IInv'
<1> USE DEF IInv
<1>1. /\ stage = "product" /\ stage' = "unpermute" /\ ProductDone
      /\ path' = path /\ logits' = logits /\ passes' = passes /\ ids' = ids
      /\ counted' = counted /\ hist' = hist /\ offsets' = offsets /\ summed' = summed
      /\ cursor' = cursor /\ dst' = dst /\ inverse' = inverse /\ permuted' = permuted
      /\ active' = active /\ launch' = launch /\ computed' = computed /\ out' = out
  BY DEF StartUnpermute, ProductDone
<1>2. path = "expert" /\ AllPlaced /\ Groups = Experts /\ stage \in Placing
  BY <1>1 DEF Stages, Placing, Groups
<1>3. ASSUME NEW r \in Entries PROVE computed[r] = Value(r)
  <2> DEFINE i == inverse[r]
             e == ids[i]
             q == r - offsets[e]
             m == q \div BM
  <2>1. i \in Entries /\ dst[i] = r
    BY <1>2, RowsFull
  <2>2. e \in Experts /\ e = GroupOf(i)
    BY <1>2, <2>1 DEF TypeOK, GroupOf, PlaceKey
  <2>3. offsets[e] <= r /\ r < offsets[e + 1]
    <3>1. dst[i] # Stale
      BY <1>2, <2>1 DEF AllPlaced
    <3> HIDE DEF i, e
    <3> QED BY <1>2, <2>1, <2>2, <3>1, SegmentOfRow
  <2>4. /\ offsets[e] \in Nat /\ hist[e] \in Nat /\ offsets[e + 1] = offsets[e] + hist[e]
        /\ r \in Nat /\ BM \in Nat \ {0}
    BY <1>2, <2>2, Segments, CursorInSegment, Params DEF Entries
  <2>5. q \in Nat /\ q < hist[e]
    BY <2>3, <2>4
  <2>6. m \in Nat /\ BM * m <= q /\ q < BM * m + BM
    <3> HIDE DEF q
    <3>1. m \in Int /\ BM * m <= q /\ q < BM * m + BM
      BY <2>4, <2>5
    <3>2. m >= 0
      <4>1. SUFFICES ASSUME m <= -1 PROVE FALSE
        BY <3>1
      <4>2. BM * (-1 - m) >= 0
        BY <4>1, <3>1, <2>4
      <4> QED BY <4>2, <3>1, <2>4, <2>5
    <3> QED BY <3>1, <3>2
  <2>7. m \in 0 .. launch.tiles - 1
    <3> DEFINE w == launch.tiles
    <3>1. w \in Nat /\ hist[e] <= w * BM
      BY <1>1, <2>2 DEF Launched
    <3> HIDE DEF w, e, q, m
    <3>2. SUFFICES ASSUME w <= m PROVE FALSE
      BY <3>1, <2>6 DEF w
    <3>3. BM * (m - w) >= 0
      BY <3>1, <3>2, <2>4, <2>6
    <3>4. BM * w <= BM * m /\ w * BM = BM * w
      BY <3>1, <3>3, <2>4, <2>6
    <3>5. BM * w \in Nat /\ BM * m \in Nat
      BY <3>1, <2>4, <2>6
    <3> QED BY <3>1, <3>4, <3>5, <2>4, <2>5, <2>6
  <2>8. PICK z : <<z, m>> \in Blocks /\ ExpertAt(z) = e
    <3>1. CASE launch.z = "expert"
      BY <2>2, <2>7, <3>1 DEF Blocks, ExpertAt
    <3>2. CASE launch.z # "expert"
      <4>1. hist[e] # 0
        BY <2>4, <2>5
      <4>2. PICK y \in DOMAIN active : active[y] = e
        BY <1>1, <2>2, <4>1 DEF Launched, Compacted
      <4>3. active \in Seq(Experts)
        BY DEF TypeOK
      <4>4. y \in 1 .. Len(active) /\ Len(active) \in Nat
        BY <4>2, <4>3
      <4>5. y - 1 \in 0 .. Len(active) - 1 /\ (y - 1) + 1 = y
        BY <4>4
      <4>6. <<y - 1, m>> \in Blocks /\ ExpertAt(y - 1) = e
        <5> HIDE DEF e, m
        <5> QED BY <2>7, <3>2, <4>2, <4>5 DEF Blocks, ExpertAt
      <4> QED BY <4>6
    <3> QED BY <3>1, <3>2
  <2>9. r \in TileRows(z, m)
    <3>1. m * BM = BM * m /\ (m + 1) * BM = BM * m + BM /\ BM * m \in Nat
      BY <2>4, <2>6
    <3> HIDE DEF m, e
    <3>2. offsets[e] + BM * m <= r /\ r < offsets[e] + (BM * m + BM)
      BY <2>4, <2>6, <3>1
    <3> QED BY <2>3, <2>8, <3>1, <3>2 DEF TileRows
  <2>10. ~Uncomputed(r)
    <3> DEFINE b == <<z, m>>
    <3>1. b \in Blocks /\ r \in TileRows(b[1], b[2])
      BY <2>8, <2>9
    <3> HIDE DEF b
    <3> QED BY <1>1, <3>1 DEF ProductDone
  <2> QED BY <1>1, <2>10 DEF ComputedExact
<1>4. ComputedExact'
  BY <1>1, <1>3 DEF ComputedExact, Value
<1>5. TypeOK'
  BY <1>1, SameGroups DEF TypeOK
<1>6. Stages'
  BY <1>1, <1>2, SameGroups DEF Stages, Placing, AllPlaced
<1>7. OffsetsExact'
  BY <1>1, SameGroups DEF OffsetsExact
<1>8. Launched'
  BY <1>1 DEF Launched
<1> QED BY <1>1, <1>4, <1>5, <1>6, <1>7, <1>8, Kept

LEMMA UnpermuteRowStep ==
  ASSUME IInv, NEW r \in Entries, UnpermuteRow(r)
  PROVE  IInv'
<1> USE DEF IInv
<1> DEFINE u == TokenOf(inverse[r])
           new == [row |-> r, weight |-> inverse[r], value |-> computed[r]]
<1>1. /\ stage = "unpermute" /\ out' = [out EXCEPT ![u] = @ \cup {new}]
      /\ path' = path /\ stage' = stage /\ logits' = logits /\ passes' = passes
      /\ ids' = ids /\ counted' = counted /\ hist' = hist /\ offsets' = offsets
      /\ summed' = summed /\ cursor' = cursor /\ dst' = dst /\ inverse' = inverse
      /\ permuted' = permuted /\ active' = active /\ launch' = launch
      /\ computed' = computed
  BY DEF UnpermuteRow
<1>2. OutExact'
  <2> SUFFICES ASSUME NEW t \in Tokens, NEW x \in out'[t]
               PROVE  /\ x.row \in Entries /\ TokenOf(inverse[x.row]) = t
                      /\ x = [row |-> x.row, weight |-> inverse[x.row], value |-> computed[x.row]]
    BY <1>1 DEF OutExact, TokenOf
  <2>1. x \in out[t] \/ (t = u /\ x = new)
    BY <1>1 DEF TypeOK
  <2>2. CASE x \in out[t]
    BY <2>2 DEF OutExact
  <2>3. CASE t = u /\ x = new
    BY <2>3
  <2> QED BY <2>1, <2>2, <2>3
<1>3. TypeOK'
  <2> DEFINE X == [row : Entries, weight : Entries, value : Tokens \X Experts]
  <2>1. new \in X
    <3>1. AllPlaced /\ computed[r] = Value(r)
      BY <1>1 DEF Stages, Placing, ComputedExact
    <3> QED BY <3>1, RowsFull, ValueType
  <2>2. out' \in [Tokens -> SUBSET X]
    <3> HIDE DEF new, u
    <3>1. out \in [Tokens -> SUBSET X]
      BY DEF TypeOK
    <3> HIDE DEF X
    <3> QED BY <1>1, <2>1, <3>1
  <2> QED BY <1>1, <2>2, SameGroups DEF TypeOK
<1>4. Stages'
  BY <1>1, SameGroups DEF Stages, Placing, AllPlaced
<1>5. OffsetsExact'
  BY <1>1, SameGroups DEF OffsetsExact
<1>6. ComputedExact' /\ Launched'
  BY <1>1 DEF ComputedExact, Launched, Value
<1> QED BY <1>1, <1>2, <1>3, <1>4, <1>5, <1>6, Kept

LEMMA NextStep ==
  ASSUME IInv, [Next]_vars
  PROVE  IInv'
<1>1. ASSUME NEW t \in Tokens, RoutePass(t) PROVE IInv'
  BY <1>1, RoutePassStep
<1>2. CASE StartHistogram \/ StartDeviceCounts
  BY <1>2, StartCountingStep DEF StartHistogram, StartDeviceCounts
<1>3. ASSUME NEW i \in Entries, CountEntry(i) PROVE IInv'
  BY <1>3, CountEntryStep
<1>4. CASE StartOffsets \/ StartDeviceOffsets
  BY <1>4, StartSummingStep DEF StartOffsets, StartDeviceOffsets
<1>5. CASE SumGroup
  BY <1>5, SumGroupStep
<1>6. CASE StartPermute \/ StartDevicePermute
  BY <1>6, StartPlacingStep DEF StartPermute, StartDevicePermute
<1>7. ASSUME NEW i \in Entries, ClaimRow(i) PROVE IInv'
  BY <1>7, ClaimRowStep
<1>8. ASSUME NEW i \in Entries, CopyRow(i) PROVE IInv'
  BY <1>8, CopyRowStep
<1>9. CASE StartCompact
  BY <1>9, StartCompactStep
<1>10. ASSUME NEW e \in Experts, CompactExpert(e) PROVE IInv'
  BY <1>10, CompactExpertStep
<1>11. ASSUME NEW c \in Calls, StartProduct(c) PROVE IInv'
  BY <1>11, StartProductStep
<1>12. ASSUME NEW z \in Experts, NEW m \in Entries, ProductTile(z, m) PROVE IInv'
  <2>1. m \in Nat
    BY DEF Entries
  <2> QED BY <1>12, <2>1, ProductTileStep
<1>13. CASE Exchange
  BY <1>13, ExchangeStep
<1>14. CASE StartUnpermute
  BY <1>14, StartUnpermuteStep
<1>15. ASSUME NEW r \in Entries, UnpermuteRow(r) PROVE IInv'
  BY <1>15, UnpermuteRowStep
<1>16. CASE UNCHANGED vars
  <2>1. /\ path' = path /\ stage' = stage /\ logits' = logits /\ passes' = passes
        /\ ids' = ids /\ counted' = counted /\ hist' = hist /\ offsets' = offsets
        /\ summed' = summed /\ cursor' = cursor /\ dst' = dst /\ inverse' = inverse
        /\ permuted' = permuted /\ active' = active /\ launch' = launch
        /\ computed' = computed /\ out' = out
    BY <1>16 DEF vars
  <2> USE DEF IInv
  <2>2. TypeOK'
    BY <2>1, SameGroups DEF TypeOK
  <2>3. Stages'
    BY <2>1, SameGroups DEF Stages, AllPlaced
  <2>4. OffsetsExact'
    BY <2>1, SameGroups DEF OffsetsExact
  <2>5. ComputedExact' /\ Launched'
    BY <2>1 DEF ComputedExact, Uncomputed, Value, Launched, Compacted
  <2> QED BY <2>1, <2>2, <2>3, <2>4, <2>5, Kept
<1>17. CASE Finished
  BY <1>16, <1>17 DEF Finished
<1> QED
  BY <1>1, <1>2, <1>3, <1>4, <1>5, <1>6, <1>7, <1>8, <1>9, <1>10, <1>11, <1>12, <1>13,
     <1>14, <1>15, <1>16, <1>17 DEF Next

-----------------------------------------------------------------------------
(* What follows from the invariant.                                        *)

LEMMA RowsDisjointFollows == IInv => RowsDisjoint
<1> SUFFICES ASSUME IInv, NEW i \in Entries, dst[i] # Stale
             PROVE  /\ inverse[dst[i]] = i
                    /\ offsets[GroupOf(i)] <= dst[i]
                    /\ dst[i] < offsets[GroupOf(i) + 1]
                    /\ \A j \in Entries : dst[j] = dst[i] => j = i
  BY DEF RowsDisjoint, GroupOf
<1> USE DEF IInv
<1>1. stage \in Placing
  BY DEF Stages
<1>2. offsets[GroupOf(i)] <= dst[i] /\ dst[i] < offsets[GroupOf(i) + 1]
  BY <1>1, SegmentOfRow
<1>3. inverse[dst[i]] = i /\ \A j \in Entries : dst[j] = dst[i] => j = i
  BY DEF Placed
<1> QED BY <1>2, <1>3

\* A token has TopK entries.
LEMMA EntriesOfToken ==
  ASSUME NEW t \in Tokens
  PROVE  LET E == {n \in Entries : TokenOf(n) = t} IN IsFiniteSet(E) /\ Cardinality(E) = TopK
<1> DEFINE E == {n \in Entries : TokenOf(n) = t}
           J == 0 .. TopK - 1
           f == [j \in J |-> t * TopK + j]
<1>1. IsFiniteSet(J) /\ Cardinality(J) = TopK
  BY Params, FS_Interval
<1>2. t * TopK \in Int
  BY Params DEF Tokens
<1>3. \A j \in J : f[j] \in E
  BY EntryOf
<1>4. \A j, k \in J : f[j] = f[k] => j = k
  BY <1>2
<1>5. \A n \in E : \E j \in J : f[j] = n
  BY EntrySplit
<1>6. f \in Bijection(J, E)
  <2>1. f \in [J -> E]
    BY <1>3
  <2> HIDE DEF f, E, J
  <2> QED BY <1>4, <1>5, <2>1 DEF Bijection, Injection, IsInjective, Surjection
<1> HIDE DEF f, E, J
<1>7. IsFiniteSet(E) /\ Cardinality(E) = TopK
  BY <1>1, <1>6, FS_Bijection DEF ExistsBijection
<1> QED BY <1>7 DEF E

LEMMA LayerFollows == IInv => LayerExact
<1> SUFFICES ASSUME IInv, LayerDone, NEW t \in Tokens
             PROVE  /\ Cardinality(out[t]) = TopK
                    /\ {<<x.weight, x.value>> : x \in out[t]} =
                         {<<i, <<t, ids[i]>>>> : i \in {n \in Entries : TokenOf(n) = t}}
  BY DEF LayerExact
<1> USE DEF IInv
<1> DEFINE E == {n \in Entries : TokenOf(n) = t}
           part(i) == [row |-> dst[i], weight |-> i, value |-> <<t, ids[i]>>]
<1>1. stage = "unpermute" /\ AllPlaced
  BY DEF LayerDone, Stages, Placing
<1>2. ASSUME NEW x \in out[t]
      PROVE  inverse[x.row] \in E /\ x = part(inverse[x.row])
  <2>1. /\ x.row \in Entries /\ TokenOf(inverse[x.row]) = t
        /\ x = [row |-> x.row, weight |-> inverse[x.row], value |-> computed[x.row]]
    BY DEF OutExact
  <2>2. inverse[x.row] \in Entries /\ dst[inverse[x.row]] = x.row
    BY <1>1, <2>1, RowsFull
  <2>3. computed[x.row] = <<t, ids[inverse[x.row]]>>
    BY <1>1, <2>1 DEF ComputedExact, Value
  <2> QED BY <2>1, <2>2, <2>3
<1>3. ASSUME NEW i \in E
      PROVE  part(i) \in out[t]
  <2>1. dst[i] \in Entries /\ inverse[dst[i]] = i
    BY <1>1 DEF AllPlaced, TypeOK, Placed
  <2>2. PICK u \in Tokens : \E x \in out[u] : x.row = dst[i]
    BY <2>1 DEF LayerDone
  <2>3. PICK x \in out[u] : x.row = dst[i]
    BY <2>2
  <2>4. u = t
    BY <2>1, <2>3 DEF OutExact
  <2> QED BY <1>2, <2>1, <2>3, <2>4
<1>4. out[t] = {part(i) : i \in E}
  <2> HIDE DEF part, E
  <2> QED BY <1>2, <1>3
<1>5. {<<x.weight, x.value>> : x \in out[t]} = {<<i, <<t, ids[i]>>>> : i \in E}
  <2>1. \A i \in E : part(i).weight = i /\ part(i).value = <<t, ids[i]>>
    OBVIOUS
  <2> HIDE DEF part, E
  <2> QED BY <1>4, <2>1
<1>6. Cardinality(out[t]) = TopK
  <2> DEFINE f == [i \in E |-> part(i)]
             O == out[t]
  <2>1. \A i, k \in E : f[i] = f[k] => i = k
    <3>1. \A i \in E : f[i].weight = i
      OBVIOUS
    <3> HIDE DEF f
    <3> QED BY <3>1
  <2>2. f \in [E -> O] /\ \A x \in O : \E i \in E : f[i] = x
    <3> HIDE DEF part, E
    <3> QED BY <1>4
  <2>3. IsFiniteSet(E) /\ Cardinality(E) = TopK
    BY EntriesOfToken
  <2> HIDE DEF f, E, O
  <2>4. f \in Bijection(E, O)
    BY <2>1, <2>2 DEF Bijection, Injection, IsInjective, Surjection
  <2> QED BY <2>3, <2>4, FS_Bijection DEF ExistsBijection, O
<1> QED BY <1>5, <1>6

LEMMA ChoiceHolds == ChoiceLosesNothing
BY ChoiceFollows DEF ChoiceLosesNothing

-----------------------------------------------------------------------------
\* The invariant is inductive, and holds in every reachable state.
THEOREM Inductive == Spec => []IInv
<1>1. Init => IInv
  BY InitHolds
<1>2. IInv /\ [Next]_vars => IInv'
  BY NextStep
<1> QED BY <1>1, <1>2, PTL DEF Spec

\* Every buffer keeps its shape: ids are experts, rows are entries, and a contribution
\* is a token's row computed by an expert.
THEOREM TypeCorrect == Spec => []TypeOK
<1>1. IInv => TypeOK
  BY DEF IInv
<1> QED BY <1>1, Inductive, PTL

\* Whatever the order in which the blocks of moe_permute and moe_device_permute claim
\* rows, two entries never get the same one, each row lies in its group's segment, and
\* inverse_index leads back.
THEOREM RowsCorrect == Spec => []RowsDisjoint
BY RowsDisjointFollows, Inductive, PTL

\* The passes of the routing kernel select the TopK greatest logits in order, the lower
\* index first among equals, whenever as many are finite.
THEOREM RoutingCorrect == Spec => []RoutingIsTopK
<1>1. IInv => RoutingIsTopK
  BY RoutingFollows DEF IInv
<1> QED BY <1>1, Inductive, PTL

\* When the layer is done every token has exactly its TopK contributions, on both paths
\* and for every accepted product: no row is lost, computed by another expert or
\* weighted by another entry.
THEOREM LayerCorrect == Spec => []LayerExact
BY LayerFollows, Inductive, PTL

\* The wrappers that choose a kernel accept every call that one of their kernels would
\* accept, and launch its grid.
THEOREM ChoiceCorrect == Spec => []ChoiceLosesNothing
BY ChoiceHolds, PTL

-----------------------------------------------------------------------------
(* The layer of one token.                                                 *)

\* What has been added up so far is the parts of different shards.
PartsOf(acc, k, x_stride) ==
  \A z \in Slots : \A p \in acc[z] : \E s \in Shards : p = Part(z, s, k, x_stride)

\* A product is whole before the next one starts.
DecodeInv ==
  /\ step \in {"route", "dual", "gate", "up", "down"}
  /\ shards \in ShardCounts
  /\ gate = [z \in Slots |-> gate[z]] /\ up = [z \in Slots |-> up[z]]
  /\ down = [z \in Slots |-> down[z]]
  /\ step = "route" => \A z \in Slots : gate[z] = {} /\ up[z] = {} /\ down[z] = {}
  /\ PartsOf(gate, Hidden, 0) /\ PartsOf(up, Hidden, 0) /\ PartsOf(down, Inter, Inter)
  /\ step = "dual" => \A z \in Slots : gate[z] = up[z]
  /\ step \in {"up", "down"} => AllRan(gate)
  /\ step = "down" => AllRan(up)

LEMMA DecodeStarts == DecodeInit => DecodeInv
BY DEF DecodeInit, DecodeInv, PartsOf

\* A part added to the sum of a slot is one of its shard's, and nothing is taken away.
LEMMA PartAdded ==
  ASSUME NEW acc, acc = [y \in Slots |-> acc[y]], NEW k, NEW x, PartsOf(acc, k, x),
         NEW z \in Slots, NEW s \in Shards, NEW new,
         new = [acc EXCEPT ![z] = @ \cup {Part(z, s, k, x)}]
  PROVE  /\ new = [y \in Slots |-> new[y]] /\ PartsOf(new, k, x)
         /\ AllRan(acc) => AllRan(new)
<1>1. \A y \in Slots : new[y] = IF y = z THEN acc[y] \cup {Part(z, s, k, x)} ELSE acc[y]
  OBVIOUS
<1>2. new = [y \in Slots |-> new[y]]
  OBVIOUS
<1>3. PartsOf(new, k, x)
  BY <1>1 DEF PartsOf
<1>4. \A y \in Slots : acc[y] \subseteq new[y]
  BY <1>1
<1>5. AllRan(acc) => AllRan(new)
  BY <1>4 DEF AllRan, Ran
<1> QED BY <1>2, <1>3, <1>5

\* The experts are chosen before anything is added up.
LEMMA PartsKept ==
  ASSUME shards' = shards, expert_ids' = expert_ids
  PROVE  /\ PartsOf(gate, Hidden, 0)' <=> PartsOf(gate', Hidden, 0)
         /\ PartsOf(up, Hidden, 0)' <=> PartsOf(up', Hidden, 0)
         /\ PartsOf(down, Inter, Inter)' <=> PartsOf(down', Inter, Inter)
         /\ AllRan(gate)' <=> AllRan(gate')
         /\ AllRan(up)' <=> AllRan(up')
         /\ AllRan(down)' <=> AllRan(down')
BY DEF PartsOf, Part, Shards, AllRan, Ran, InputRow

LEMMA DecodeRouteStep == DecodeInv /\ moe_route_decode_full => DecodeInv'
<1> SUFFICES ASSUME DecodeInv, moe_route_decode_full PROVE DecodeInv'
  OBVIOUS
<1>1. step = "route" /\ step' = step /\ shards' = shards /\ gate' = gate /\ up' = up /\ down' = down
  BY DEF moe_route_decode_full
<1>2. \A z \in Slots : gate[z] = {} /\ up[z] = {} /\ down[z] = {}
  BY <1>1 DEF DecodeInv
<1> QED BY <1>1, <1>2 DEF DecodeInv, PartsOf

\* Steps that start another product.
LEMMA DecodeStartStep ==
  ASSUME DecodeInv, StartGateUp \/ StartUp \/ StartDown
  PROVE  DecodeInv'
<1>1. shards' = shards /\ expert_ids' = expert_ids /\ gate' = gate /\ up' = up /\ down' = down
  BY DEF StartGateUp, StartUp, StartDown
<1>2. /\ PartsOf(gate, Hidden, 0)' /\ PartsOf(up, Hidden, 0)' /\ PartsOf(down, Inter, Inter)'
      /\ AllRan(gate)' <=> AllRan(gate)
      /\ AllRan(up)' <=> AllRan(up)
  BY <1>1, PartsKept DEF DecodeInv
<1>3. CASE StartGateUp
  BY <1>1, <1>2, <1>3 DEF StartGateUp, DecodeInv
<1>4. CASE StartUp
  BY <1>1, <1>2, <1>4 DEF StartUp, DecodeInv
<1>5. CASE StartDown
  <2>1. AllRan(gate)
    <3>1. CASE step = "dual"
      <4>1. \A z \in Slots : gate[z] = up[z]
        BY <3>1 DEF DecodeInv
      <4> QED BY <1>5, <4>1 DEF StartDown, AllRan, Ran
    <3>2. CASE step = "up"
      BY <3>2 DEF DecodeInv
    <3> QED BY <1>5, <3>1, <3>2 DEF StartDown
  <2> QED BY <1>1, <1>2, <1>5, <2>1 DEF StartDown, DecodeInv
<1> QED BY <1>3, <1>4, <1>5

LEMMA DecodeDualStep ==
  ASSUME DecodeInv, NEW z \in Slots, NEW s \in Shards, gemv_bf16_grouped_split_k_dual(z, s)
  PROVE  DecodeInv'
<1>1. /\ step = "dual" /\ step' = step /\ shards' = shards /\ expert_ids' = expert_ids
      /\ down' = down
      /\ gate' = [gate EXCEPT ![z] = @ \cup {Part(z, s, Hidden, 0)}]
      /\ up' = [up EXCEPT ![z] = @ \cup {Part(z, s, Hidden, 0)}]
  BY DEF gemv_bf16_grouped_split_k_dual
<1>2. /\ gate' = [y \in Slots |-> gate'[y]] /\ PartsOf(gate', Hidden, 0)
      /\ up' = [y \in Slots |-> up'[y]] /\ PartsOf(up', Hidden, 0)
  BY <1>1, PartAdded DEF DecodeInv
<1>3. \A y \in Slots : gate'[y] = up'[y]
  BY <1>1 DEF DecodeInv
<1> QED BY <1>1, <1>2, <1>3, PartsKept DEF DecodeInv

LEMMA DecodeGemvStep ==
  ASSUME DecodeInv, NEW z \in Slots, NEW s \in Shards, gemv_bf16_grouped_split_k(z, s)
  PROVE  DecodeInv'
<1>1. /\ step' = step /\ shards' = shards /\ expert_ids' = expert_ids /\ down' = down
  BY DEF gemv_bf16_grouped_split_k
<1>2. CASE /\ step = "gate" /\ up' = up
           /\ gate' = [gate EXCEPT ![z] = @ \cup {Part(z, s, Hidden, 0)}]
  <2>1. gate' = [y \in Slots |-> gate'[y]] /\ PartsOf(gate', Hidden, 0)
    BY <1>2, PartAdded DEF DecodeInv
  <2> QED BY <1>1, <1>2, <2>1, PartsKept DEF DecodeInv
<1>3. CASE /\ step = "up" /\ gate' = gate
           /\ up' = [up EXCEPT ![z] = @ \cup {Part(z, s, Hidden, 0)}]
  <2>1. up' = [y \in Slots |-> up'[y]] /\ PartsOf(up', Hidden, 0)
    BY <1>3, PartAdded DEF DecodeInv
  <2> QED BY <1>1, <1>3, <2>1, PartsKept DEF DecodeInv
<1> QED BY <1>2, <1>3 DEF gemv_bf16_grouped_split_k

LEMMA DecodeDownStep ==
  ASSUME DecodeInv, NEW z \in Slots, NEW s \in Shards, gemv_w8a16_grouped_split_k(z, s)
  PROVE  DecodeInv'
<1>1. /\ step = "down" /\ step' = step /\ shards' = shards /\ expert_ids' = expert_ids
      /\ gate' = gate /\ up' = up
      /\ down' = [down EXCEPT ![z] = @ \cup {Part(z, s, Inter, Inter)}]
  BY DEF gemv_w8a16_grouped_split_k
<1>2. down' = [y \in Slots |-> down'[y]] /\ PartsOf(down', Inter, Inter)
  BY <1>1, PartAdded DEF DecodeInv
<1> QED BY <1>1, <1>2, PartsKept DEF DecodeInv

\* Whatever the order in which the shards of the two products add up, each output holds
\* the parts of just the shards that have run.
THEOREM DecodeInductive == DecodeSpec => []DecodeInv
<1>1. DecodeInit => DecodeInv
  BY DecodeStarts
<1>2. DecodeInv /\ [DecodeNext]_decodeVars => DecodeInv'
  <2> SUFFICES ASSUME DecodeInv, [DecodeNext]_decodeVars PROVE DecodeInv'
    OBVIOUS
  <2>1. CASE UNCHANGED decodeVars
    <3>1. /\ step' = step /\ shards' = shards /\ expert_ids' = expert_ids
          /\ gate' = gate /\ up' = up /\ down' = down
      BY <2>1 DEF decodeVars
    <3> QED BY <3>1, PartsKept DEF DecodeInv
  <2>2. CASE DecodeNext
    BY <2>2, DecodeRouteStep, DecodeStartStep, DecodeDualStep, DecodeGemvStep, DecodeDownStep
       DEF DecodeNext
  <2> QED BY <2>1, <2>2
<1> QED BY <1>1, <1>2, PTL DEF DecodeSpec

\* A whole sum has one part for every product.
LEMMA SumExact ==
  ASSUME NEW k \in {Hidden, Inter}, NEW x, NEW acc, PartsOf(acc, k, x), AllRan(acc),
         shards \in ShardCounts, NEW z \in Slots
  PROVE  Adds(acc[z], k, z, InputRow(z, x))
<1>1. k \in Nat \ {0} /\ shards \in Nat \ {0} /\ Fits(k, shards)
  BY DecodeOK DEF AllRan, Fits
<1>2. /\ \A i \in 0 .. k - 1 : \E s \in Shards :
           /\ Covers(ShardProducts(k, shards, s), i)
           /\ \A t \in Shards : Covers(ShardProducts(k, shards, t), i) => t = s
      /\ \A s \in Shards : KStart(k, shards, s) + ShardLen(k, shards, s) <= k
  BY <1>1, ShardsPartition DEF Shards
<1>3. \A p \in acc[z] : \E s \in Shards : p = Part(z, s, k, x)
  BY DEF PartsOf
<1>4. \A s \in Shards : Part(z, s, k, x) \in acc[z]
  <2> TAKE s \in Shards
  <2>1. PICK p \in acc[z] : p.shard = s
    BY DEF AllRan, Ran
  <2>2. PICK t \in Shards : p = Part(z, t, k, x)
    BY <1>3
  <2>3. t = s
    BY <2>1, <2>2 DEF Part
  <2> QED BY <2>2, <2>3
<1>5. \A p \in acc[z] : p.expert = expert_ids[z] /\ p.row = InputRow(z, x)
  BY <1>3 DEF Part
<1>6. \A p \in acc[z] : p.products.start + p.products.len <= k
  BY <1>2, <1>3 DEF Part, ShardProducts
<1>7. ASSUME NEW i \in 0 .. k - 1
      PROVE  Cardinality({p \in acc[z] : Covers(p.products, i)}) = 1
  <2>1. PICK s \in Shards :
          /\ Covers(ShardProducts(k, shards, s), i)
          /\ \A t \in Shards : Covers(ShardProducts(k, shards, t), i) => t = s
    BY <1>2
  <2>2. \A t : Part(z, t, k, x).products = ShardProducts(k, shards, t)
    BY DEF Part
  <2>3. {p \in acc[z] : Covers(p.products, i)} = {Part(z, s, k, x)}
    BY <1>3, <1>4, <2>1, <2>2
  <2> QED BY <2>3, FS_Singleton
<1> QED BY <1>5, <1>6, <1>7 DEF Adds

\* Whichever shards run first, and whether or not gate and up share a launch, every slot
\* adds up each product of its expert's three matrices exactly once, over the right row.
THEOREM DecodeCorrect == DecodeSpec => []DecodeExact
<1>1. DecodeInv => DecodeExact
  <2> SUFFICES ASSUME DecodeInv, step = "down", AllRan(down), NEW z \in Slots
               PROVE  /\ Adds(gate[z], Hidden, z, 0) /\ Adds(up[z], Hidden, z, 0)
                      /\ Adds(down[z], Inter, z, z)
    BY DEF DecodeExact
  <2>1. AllRan(gate) /\ AllRan(up) /\ shards \in ShardCounts
    BY DEF DecodeInv
  <2>2. PartsOf(gate, Hidden, 0) /\ PartsOf(up, Hidden, 0) /\ PartsOf(down, Inter, Inter)
    BY DEF DecodeInv
  <2>3. /\ Adds(gate[z], Hidden, z, InputRow(z, 0)) /\ Adds(up[z], Hidden, z, InputRow(z, 0))
        /\ Adds(down[z], Inter, z, InputRow(z, Inter))
    BY <2>1, <2>2, SumExact
  <2>4. InputRow(z, 0) = 0 /\ InputRow(z, Inter) = z
    BY DecodeOK DEF InputRow
  <2> QED BY <2>3, <2>4
<1> QED BY <1>1, DecodeInductive, PTL
=============================================================================
