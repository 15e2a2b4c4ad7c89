----------------------------- MODULE MoeDispatch -----------------------------
(***************************************************************************)
(* One mixture-of-experts layer as moe/mod.rs runs it for a batch of       *)
(* tokens: route each token to TopK experts, count the entries of each     *)
(* expert, turn the counts into offsets, copy each token's row once per    *)
(* expert into expert order, multiply each expert's rows by its weights,   *)
(* and add the weighted results up per token.  Entry t*TopK + j is the     *)
(* j-th expert of token t.                                                 *)
(*                                                                         *)
(* The caller calls the wrappers in this order on one stream, so a kernel  *)
(* starts when the one before it has finished; the blocks and threads of a *)
(* kernel run in any order.  On the "device" path entries are grouped by   *)
(* the device that holds their expert and travel there and back.           *)
(* A row of activations is the token it belongs to, a computed row the     *)
(* token and the expert that computed it.                                  *)
(***************************************************************************)
EXTENDS GroupedGemm, Integers, Sequences, FiniteSets

CONSTANTS
  NumTokens, NumExperts, TopK,
  LogitRows,       \* what a token's logits can be: larger is greater, 0 is -inf
  ExpertsPerNode, NumDevices,
  ExpertToDevice,  \* the placement table of moe_device_permute
  Calls            \* calls of a grouped product: format and dimensions

Tokens  == 0 .. NumTokens - 1
Experts == 0 .. NumExperts - 1
Entries == 0 .. NumTokens * TopK - 1
Devices == 0 .. NumDevices - 1
NegInf  == 0
Stale   == -1      \* what an earlier batch left in a buffer nobody clears

RoutingAccepts ==
  /\ NumTokens > 0 /\ NumExperts > 0 /\ TopK > 0
  /\ TopK <= NumExperts /\ TopK <= 8 /\ NumExperts <= 256

ASSUME MoeOK ==
  /\ NumTokens \in Nat /\ NumExperts \in Nat /\ TopK \in Nat
  /\ LogitRows \subseteq [0 .. NumExperts - 1 -> Nat]
  /\ RoutingAccepts
  /\ ExpertsPerNode \in Nat \ {0} /\ NumDevices \in Nat \ {0}
  /\ ExpertToDevice \in [Experts -> Devices]

\* The device kernels count by division and place by table: the caller's table
\* has to be the division.
ASSUME PlacementOK == \A e \in Experts : ExpertToDevice[e] = e \div ExpertsPerNode

\* The arguments of a call are unsigned; the caller sizes m_max by the histogram or
\* by the batch.
ASSUME CallsOK ==
  Calls \subseteq [format : Formats, m_max : {"max", "all"}, experts : Nat, n : Nat, k : Nat,
                  b : Nat, scales : Nat, offsets : Nat, active : Nat]

VARIABLES
  path,      \* "expert" or "device": what entries are grouped by
  stage,     \* the kernel that runs
  logits,    \* of each token for each expert
  passes,    \* argmax passes made for each token
  ids,       \* expert_ids
  counted,   \* entries the histogram kernel has counted
  hist,      \* histogram, or device_counts
  offsets,   \* expert_offsets, or device_offsets
  summed,    \* loop counter of moe_expert_offsets
  cursor,    \* cursor, or device_cursor
  dst,       \* the row each entry's block has claimed
  inverse,   \* inverse_index
  permuted,  \* permuted_activations
  active,    \* active_experts as far as compacted
  launch,    \* the accepted grouped product
  computed,  \* c_permuted
  out        \* of each token: the contributions added up

vars == <<path, stage, logits, passes, ids, counted, hist, offsets, summed, cursor,
          dst, inverse, permuted, active, launch, computed, out>>

TokenOf(i) == i \div TopK

Groups   == IF path = "expert" THEN Experts ELSE Devices
GroupsUpTo == IF path = "expert" THEN 0 .. NumExperts ELSE 0 .. NumDevices

\* The counter an entry bumps, and the segment it is placed in.
CountKey(e) == IF path = "expert" THEN e ELSE e \div ExpertsPerNode
PlaceKey(e) == IF path = "expert" THEN e ELSE ExpertToDevice[e]

Init ==
  /\ path \in {"expert", "device"}
  /\ stage = "route"
  /\ logits \in [Tokens -> LogitRows]
  /\ passes = [t \in Tokens |-> 0]
  /\ ids = [i \in Entries |-> 0]
  /\ counted = {}
  /\ hist = [g \in Groups |-> 0] /\ cursor = [g \in Groups |-> 0]
  /\ offsets = [g \in GroupsUpTo |-> 0]
  /\ summed = 0
  /\ dst = [i \in Entries |-> Stale]
  /\ inverse = [r \in Entries |-> Stale] /\ permuted = [r \in Entries |-> Stale]
  /\ active = <<>>
  /\ launch = Refused
  /\ computed = [r \in Entries |-> <<Stale, Stale>>]
  /\ out = [t \in Tokens |-> {}]

-----------------------------------------------------------------------------
(* Routing: TopK argmax passes over a copy of the logits in shared memory, *)
(* in which an expert once chosen becomes -inf.                            *)

\* Mutant: the last of equal logits wins.
ArgmaxLast(l, open) ==
  IF open = {} THEN 0
  ELSE CHOOSE e \in open : \A f \in open : l[f] < l[e] \/ (l[f] = l[e] /\ f <= e)

\* The scan starts with -inf at index 0 and takes what is greater.
Argmax(l, open) ==
  IF open = {} THEN 0
  ELSE CHOOSE e \in open : \A f \in open : l[f] < l[e] \/ (l[f] = l[e] /\ e <= f)

Unmasked(t) ==
  {e \in Experts : logits[t][e] # NegInf
                   /\ \A j \in 0 .. passes[t] - 1 : ids[t * TopK + j] # e}

RoutePass(t) ==
  /\ stage = "route" /\ passes[t] < TopK
  /\ ids' = [ids EXCEPT ![t * TopK + passes[t]] = Argmax(logits[t], Unmasked(t))]
  /\ passes' = [passes EXCEPT ![t] = @ + 1]
  /\ UNCHANGED <<path, stage, logits, counted, hist, offsets, summed, cursor, dst,
                 inverse, permuted, active, launch, computed, out>>

Routed == stage = "route" /\ \A t \in Tokens : passes[t] = TopK

-----------------------------------------------------------------------------
(* Grouping: histogram, offsets, permutation.                              *)

StartCounting ==
  /\ Routed
  /\ stage' = "histogram"
  /\ UNCHANGED <<path, logits, passes, ids, counted, hist, offsets, summed, cursor,
                 dst, inverse, permuted, active, launch, computed, out>>

\* The dimensions are positive and the buffers, which the caller has allocated for
\* them, as long as the wrappers ask.
StartHistogram == path = "expert" /\ StartCounting
StartDeviceCounts == path = "device" /\ ExpertsPerNode > 0 /\ StartCounting

\* A thread skips an expert out of range, which routing never produces.
CountEntry(i) ==
  /\ stage = "histogram" /\ i \notin counted
  /\ counted' = counted \cup {i}
  /\ hist' = IF ids[i] \in Experts THEN [hist EXCEPT ![CountKey(ids[i])] = @ + 1] ELSE hist
  /\ UNCHANGED <<path, stage, logits, passes, ids, offsets, summed, cursor, dst,
                 inverse, permuted, active, launch, computed, out>>

StartSumming ==
  /\ stage = "histogram" /\ counted = Entries
  /\ stage' = "offsets"
  /\ offsets' = [offsets EXCEPT ![0] = 0]
  /\ summed' = 0
  /\ UNCHANGED <<path, logits, passes, ids, counted, hist, cursor, dst, inverse,
                 permuted, active, launch, computed, out>>

StartOffsets == path = "expert" /\ StartSumming

\* Device offsets are expert offsets over devices.
StartDeviceOffsets == path = "device" /\ StartSumming

\* Mutant: an inclusive sum written one place too early.
SumGroupInclusive ==
  /\ stage = "offsets" /\ summed \in Groups
  /\ offsets' = [offsets EXCEPT ![summed] = offsets[summed] + hist[summed],
                                ![summed + 1] = offsets[summed] + hist[summed]]
  /\ summed' = summed + 1
  /\ UNCHANGED <<path, stage, logits, passes, ids, counted, hist, cursor, dst,
                 inverse, permuted, active, launch, computed, out>>

\* One iteration of thread 0: the running sum is the offset written last.
SumGroup ==
  /\ stage = "offsets" /\ summed \in Groups
  /\ offsets' = [offsets EXCEPT ![summed + 1] = offsets[summed] + hist[summed]]
  /\ summed' = summed + 1
  /\ UNCHANGED <<path, stage, logits, passes, ids, counted, hist, cursor, dst,
                 inverse, permuted, active, launch, computed, out>>

StartPlacing ==
  /\ stage = "offsets" /\ summed \notin Groups
  /\ stage' = "permute"
  /\ UNCHANGED <<path, logits, passes, ids, counted, hist, offsets, summed, cursor,
                 dst, inverse, permuted, active, launch, computed, out>>

StartPermute == path = "expert" /\ StartPlacing
StartDevicePermute == path = "device" /\ StartPlacing

\* Mutant: the cursor is read and written back, so that a block may not see it moved.
ClaimRowNotAtomic(i) ==
  /\ stage = "permute" /\ dst[i] = Stale
  /\ LET g == PlaceKey(ids[i])  r == offsets[g] + cursor[g] IN
       /\ cursor' \in {cursor, [cursor EXCEPT ![g] = @ + 1]}
       /\ dst' = [dst EXCEPT ![i] = r]
       /\ inverse' = [inverse EXCEPT ![r] = i]
  /\ UNCHANGED <<path, stage, logits, passes, ids, counted, hist, offsets, summed,
                 permuted, active, launch, computed, out>>

\* Thread 0 of the block of entry i takes the next row of its group.
ClaimRow(i) ==
  /\ stage = "permute" /\ dst[i] = Stale
  /\ LET g == PlaceKey(ids[i])  r == offsets[g] + cursor[g] IN
       /\ cursor' = [cursor EXCEPT ![g] = @ + 1]
       /\ dst' = [dst EXCEPT ![i] = r]
       /\ inverse' = [inverse EXCEPT ![r] = i]
  /\ UNCHANGED <<path, stage, logits, passes, ids, counted, hist, offsets, summed,
                 permuted, active, launch, computed, out>>

\* Behind the barrier the whole block copies the row.
CopyRow(i) ==
  /\ stage = "permute" /\ dst[i] # Stale /\ permuted[dst[i]] # TokenOf(i)
  /\ permuted' = [permuted EXCEPT ![dst[i]] = TokenOf(i)]
  /\ UNCHANGED <<path, stage, logits, passes, ids, counted, hist, offsets, summed,
                 cursor, dst, inverse, active, launch, computed, out>>

Permuted ==
  stage = "permute" /\ \A i \in Entries : dst[i] # Stale /\ permuted[dst[i]] = TokenOf(i)

-----------------------------------------------------------------------------
(* The grouped product.                                                    *)

StartCompact ==
  /\ Permuted /\ path = "expert"
  /\ stage' = "compact"
  /\ UNCHANGED <<path, logits, passes, ids, counted, hist, offsets, summed, cursor,
                 dst, inverse, permuted, active, launch, computed, out>>

\* The lanes take slots of the list with an atomic counter, in any order.
CompactExpert(e) ==
  /\ stage = "compact" /\ hist[e] # 0 /\ \A z \in DOMAIN active : active[z] # e
  /\ active' = Append(active, e)
  /\ UNCHANGED <<path, stage, logits, passes, ids, counted, hist, offsets, summed,
                 cursor, dst, inverse, permuted, launch, computed, out>>

Compacted == \A e \in Experts : hist[e] # 0 => \E z \in DOMAIN active : active[z] = e

MaxTokensPerExpert == CHOOSE h \in {hist[e] : e \in Experts} : \A f \in Experts : hist[f] <= h

\* The call a caller makes: m_max from the histogram, experts all or the active.
Actual(c) ==
  [c EXCEPT !.m_max = IF c.m_max = "max" THEN MaxTokensPerExpert ELSE NumTokens * TopK,
            !.experts = IF c.format = "bf16_sparse" THEN Len(active) ELSE NumExperts]

\* A refused call leaves the layer where it is: the wrapper returned an error.
StartProduct(c) ==
  /\ stage = "compact" /\ Compacted
  /\ LET chosen == Chosen(c.format, Actual(c)) IN
       /\ chosen.accepted
       /\ launch' = chosen
  /\ stage' = "product"
  /\ UNCHANGED <<path, logits, passes, ids, counted, hist, offsets, summed, cursor,
                 dst, inverse, permuted, active, computed, out>>

\* The expert of the blocks with z coordinate z.
ExpertAt(z) == IF launch.z = "expert" THEN z ELSE active[z + 1]

\* The rows the block (z, m) computes: a tile of the rows of its expert.
TileRows(z, m) ==
  LET e == ExpertAt(z) IN
    {r \in Entries : /\ offsets[e] + m * BM <= r /\ r < offsets[e] + (m + 1) * BM
                     /\ r < offsets[e + 1]}

Blocks == (IF launch.z = "expert" THEN Experts ELSE 0 .. Len(active) - 1)
            \X (0 .. launch.tiles - 1)

Uncomputed(r) == computed[r] = <<Stale, Stale>>

ProductTile(z, m) ==
  /\ stage = "product"
  /\ <<z, m>> \in Blocks
  /\ \E r \in TileRows(z, m) : Uncomputed(r)
  /\ computed' = [r \in Entries |-> IF r \in TileRows(z, m)
                                      THEN <<permuted[r], ExpertAt(z)>> ELSE computed[r]]
  /\ UNCHANGED <<path, stage, logits, passes, ids, counted, hist, offsets, summed,
                 cursor, dst, inverse, permuted, active, launch, out>>

ProductDone ==
  /\ stage = "product"
  /\ \A b \in Blocks : \A r \in TileRows(b[1], b[2]) : ~Uncomputed(r)

\* On the device path each row goes to the device whose segment it is in, is
\* computed by the expert it was sent for, and comes back to the same row.
Exchange ==
  /\ Permuted /\ path = "device"
  /\ stage' = "unpermute"
  /\ computed' = [r \in Entries |->
        LET i == inverse[r] IN
          IF i # Stale /\ \E d \in Devices : offsets[d] <= r /\ r < offsets[d + 1]
                                             /\ ExpertToDevice[ids[i]] = d
            THEN <<permuted[r], ids[i]>> ELSE <<Stale, Stale>>]
  /\ UNCHANGED <<path, logits, passes, ids, counted, hist, offsets, summed, cursor,
                 dst, inverse, permuted, active, launch, out>>

-----------------------------------------------------------------------------
(* Weighted sum per token, into a buffer the caller has zeroed.            *)

StartUnpermute ==
  /\ ProductDone
  /\ stage' = "unpermute"
  /\ UNCHANGED <<path, logits, passes, ids, counted, hist, offsets, summed, cursor,
                 dst, inverse, permuted, active, launch, computed, out>>

\* The block of row r; its weight is that of the entry the row belongs to.
UnpermuteRow(r) ==
  /\ stage = "unpermute"
  /\ \A t \in Tokens : \A x \in out[t] : x.row # r
  /\ LET i == inverse[r] IN
       out' = [out EXCEPT ![TokenOf(i)] =
                 @ \cup {[row |-> r, weight |-> i, value |-> computed[r]]}]
  /\ UNCHANGED <<path, stage, logits, passes, ids, counted, hist, offsets, summed,
                 cursor, dst, inverse, permuted, active, launch, computed>>

LayerDone == stage = "unpermute" /\ \A r \in Entries : \E t \in Tokens : \E x \in out[t] : x.row = r

\* The caller is done with the layer.
Finished == LayerDone /\ UNCHANGED vars

Next ==
  \/ \E t \in Tokens : RoutePass(t)
  \/ StartHistogram \/ StartDeviceCounts
  \/ \E i \in Entries : CountEntry(i)
  \/ StartOffsets \/ StartDeviceOffsets
  \/ SumGroup
  \/ StartPermute \/ StartDevicePermute
  \/ \E i \in Entries : ClaimRow(i)
  \/ \E i \in Entries : CopyRow(i)
  \/ StartCompact
  \/ \E e \in Experts : CompactExpert(e)
  \/ \E c \in Calls : StartProduct(c)
  \/ \E z \in Experts, m \in Entries : ProductTile(z, m)
  \/ Exchange
  \/ StartUnpermute
  \/ \E r \in Entries : UnpermuteRow(r)
  \/ Finished

Spec == Init /\ [][Next]_vars
-----------------------------------------------------------------------------
(* What the layer promises.                                                *)

TypeOK ==
  /\ path \in {"expert", "device"}
  /\ stage \in {"route", "histogram", "offsets", "permute", "compact", "product", "unpermute"}
  /\ logits \in [Tokens -> LogitRows]
  /\ passes \in [Tokens -> 0 .. TopK]
  /\ ids \in [Entries -> Experts]
  /\ counted \subseteq Entries
  /\ hist \in [Groups -> Nat] /\ cursor \in [Groups -> Nat]
  /\ offsets \in [GroupsUpTo -> Nat]
  /\ summed \in GroupsUpTo
  /\ dst \in [Entries -> Entries \cup {Stale}]
  /\ inverse \in [Entries -> Entries \cup {Stale}]
  /\ permuted \in [Entries -> Tokens \cup {Stale}]
  /\ active \in Seq(Experts)
  /\ launch \in {Refused} \cup [accepted : {TRUE}, tiles : Nat, z : {"expert", "active"}]
  /\ computed \in [Entries -> (Tokens \cup {Stale}) \X (Experts \cup {Stale})]
  /\ out \in [Tokens -> SUBSET [row : Entries, weight : Entries, value : Tokens \X Experts]]

\* The blocks of moe_permute race for positions: two entries never get the same
\* row, each row lies in the segment of its entry's expert (or device), and
\* inverse_index leads back from it.
RowsDisjoint ==
  \A i \in Entries : dst[i] # Stale =>
    /\ inverse[dst[i]] = i
    /\ offsets[PlaceKey(ids[i])] <= dst[i]
    /\ dst[i] < offsets[PlaceKey(ids[i]) + 1]
    /\ \A j \in Entries : dst[j] = dst[i] => j = i

\* What TopK argmax passes over a row with enough finite logits select: TopK
\* different experts in descending order, none better left out, the lower index
\* first among equals.
Before(l, e, f) == l[e] > l[f] \/ (l[e] = l[f] /\ e < f)
RoutingIsTopK ==
  \A t \in Tokens :
    Cardinality({e \in Experts : logits[t][e] # NegInf}) >= TopK =>
      \A j \in 0 .. passes[t] - 1 : \A e \in Experts :
        \/ Before(logits[t], ids[t * TopK + j], e)
        \/ \E m \in 0 .. j : e = ids[t * TopK + m]

\* When the layer is done each token has the sum of exactly its own TopK
\* contributions: its row through each of its experts, each with its own weight.
LayerExact ==
  LayerDone => \A t \in Tokens :
    /\ Cardinality(out[t]) = TopK
    /\ {<<x.weight, x.value>> : x \in out[t]} =
         {<<i, <<t, ids[i]>>>> : i \in {n \in Entries : TokenOf(n) = t}}

\* Choosing a kernel loses nothing: the kernels of a format that take a call
\* launch the same grid for it, and when the chosen one refuses, all do.
ChoiceLosesNothing ==
  stage = "compact" /\ Compacted => \A c \in Calls :
    LET chosen == Chosen(c.format, Actual(c)) IN
      \A l \in Kernels(c.format, Actual(c)) : l.accepted => l = chosen
=============================================================================
