------------------------------ MODULE MoeDecode ------------------------------
(***************************************************************************)
(* The mixture-of-experts layer of one token, as the decode wrappers of    *)
(* moe/mod.rs run it: route on the device, then matrix-vector products for *)
(* all chosen experts in one launch, each divided among the shards of      *)
(* SplitK.  The caller clears the f32 outputs, applies silu(gate) * up and *)
(* feeds the result, one row per expert, to the down product.              *)
(*                                                                         *)
(* A product is abstracted to who adds what: the shard's products, the     *)
(* expert whose weights they use, and the input row they read.             *)
(***************************************************************************)
EXTENDS SplitK, FiniteSets

CONSTANTS
  NumRouted, NumSlots,    \* n_routed and top_k
  ScoreRows,              \* logits of the token: larger is greater
  Hidden, Inter,          \* K of the gate and up products, and of the down product
  ShardCounts,            \* num_shards a caller passes
  MaxShardLen             \* elements of a shard in 96 KB of shared memory

RoutedExperts == 0 .. NumRouted - 1
Slots  == 0 .. NumSlots - 1     \* active_idx

RouteAccepts == NumRouted > 0 /\ NumSlots > 0 /\ NumRouted <= 256 /\ NumSlots <= 16

\* moe_route_decode_full does not compare top_k with n_routed.
ASSUME DecodeOK ==
  /\ NumRouted \in Nat /\ NumSlots \in Nat /\ RouteAccepts /\ NumSlots <= NumRouted
  /\ ScoreRows \subseteq [RoutedExperts -> Nat]
  /\ Hidden \in Nat \ {0} /\ Inter \in Nat \ {0}
  /\ ShardCounts \subseteq Nat
  \* What SplitKProofs shows the shards to need: all start within K, no register wraps.
  /\ \A k \in {Hidden, Inter}, n \in ShardCounts \ {0} :
       (n - 1) * KShard(k, n) <= k /\ k + KShard(k, n) < Word

VARIABLES
  step,       \* the launch that runs
  scores, expert_ids, chosen,
  shards,     \* num_shards of the layer
  dual,       \* gate and up in one launch
  gate, up, down   \* of each slot: the parts added up

decodeVars == <<step, scores, expert_ids, chosen, shards, dual, gate, up, down>>

DecodeInit ==
  /\ step = "route"
  /\ scores \in ScoreRows
  /\ expert_ids = [j \in Slots |-> 0] /\ chosen = 0
  /\ shards \in ShardCounts /\ dual \in BOOLEAN
  /\ gate = [z \in Slots |-> {}] /\ up = [z \in Slots |-> {}] /\ down = [z \in Slots |-> {}]

-----------------------------------------------------------------------------
\* Probabilities are not negative, so only a chosen expert, set to -inf, is out.
Unchosen == RoutedExperts \ {expert_ids[j] : j \in 0 .. chosen - 1}

moe_route_decode_full ==
  /\ step = "route" /\ RouteAccepts /\ chosen < NumSlots
  /\ \E e \in Unchosen :
       /\ \A f \in Unchosen : scores[f] < scores[e] \/ (scores[f] = scores[e] /\ e <= f)
       /\ expert_ids' = [expert_ids EXCEPT ![chosen] = e]
  /\ chosen' = chosen + 1
  /\ UNCHANGED <<step, scores, shards, dual, gate, up, down>>

StartGateUp ==
  /\ step = "route" /\ chosen = NumSlots
  /\ step' = IF dual THEN "dual" ELSE "gate"
  /\ UNCHANGED <<scores, expert_ids, chosen, shards, dual, gate, up, down>>

-----------------------------------------------------------------------------
\* The checks of the three wrappers, n being a multiple of 8.
GemvAccepts(k) == shards > 0 /\ KShard(k, shards) <= MaxShardLen

\* Mutant: every slot reads the first row.
InputRowFirst(z, x_stride) == 0

\* x_stride = 0 broadcasts one row; otherwise slot z has its own.
InputRow(z, x_stride) == IF x_stride = 0 THEN 0 ELSE z

\* What the block of shard s and slot z adds with atomics.
Part(z, s, k, x_stride) ==
  [shard |-> s, products |-> ShardProducts(k, shards, s),
   expert |-> expert_ids[z], row |-> InputRow(z, x_stride)]

Shards == 0 .. shards - 1
Ran(z, s, acc) == \E p \in acc[z] : p.shard = s
AllRan(acc) == shards > 0 /\ \A z \in Slots, s \in Shards : Ran(z, s, acc)

gemv_bf16_grouped_split_k_dual(z, s) ==
  /\ step = "dual" /\ GemvAccepts(Hidden) /\ ~Ran(z, s, gate)
  /\ gate' = [gate EXCEPT ![z] = @ \cup {Part(z, s, Hidden, 0)}]
  /\ up' = [up EXCEPT ![z] = @ \cup {Part(z, s, Hidden, 0)}]
  /\ UNCHANGED <<step, scores, expert_ids, chosen, shards, dual, down>>

\* Gate and up one after the other.
gemv_bf16_grouped_split_k(z, s) ==
  /\ GemvAccepts(Hidden)
  /\ \/ /\ step = "gate" /\ ~Ran(z, s, gate)
        /\ gate' = [gate EXCEPT ![z] = @ \cup {Part(z, s, Hidden, 0)}]
        /\ UNCHANGED up
     \/ /\ step = "up" /\ ~Ran(z, s, up)
        /\ up' = [up EXCEPT ![z] = @ \cup {Part(z, s, Hidden, 0)}]
        /\ UNCHANGED gate
  /\ UNCHANGED <<step, scores, expert_ids, chosen, shards, dual, down>>

StartUp ==
  /\ step = "gate" /\ AllRan(gate)
  /\ step' = "up"
  /\ UNCHANGED <<scores, expert_ids, chosen, shards, dual, gate, up, down>>

\* The caller's silu_mul writes a row of Inter elements per slot.
StartDown ==
  /\ (step = "dual" \/ step = "up") /\ AllRan(up)
  /\ step' = "down"
  /\ UNCHANGED <<scores, expert_ids, chosen, shards, dual, gate, up, down>>

\* The down product, with the BF16 wrapper or this one, alike but for the weights.
gemv_w8a16_grouped_split_k(z, s) ==
  /\ step = "down" /\ GemvAccepts(Inter) /\ ~Ran(z, s, down)
  /\ down' = [down EXCEPT ![z] = @ \cup {Part(z, s, Inter, Inter)}]
  /\ UNCHANGED <<step, scores, expert_ids, chosen, shards, dual, gate, up>>

\* The layer is done, or a wrapper has refused the call.
DecodeDone == (step = "down" /\ AllRan(down)) \/ (step # "route" /\ ~GemvAccepts(Hidden))
           \/ (step = "down" /\ ~GemvAccepts(Inter))

DecodeNext ==
  \/ moe_route_decode_full
  \/ StartGateUp
  \/ \E z \in Slots, s \in Shards :
       \/ gemv_bf16_grouped_split_k_dual(z, s)
       \/ gemv_bf16_grouped_split_k(z, s)
       \/ gemv_w8a16_grouped_split_k(z, s)
  \/ StartUp
  \/ StartDown

DecodeSpec == DecodeInit /\ [][DecodeNext]_decodeVars

-----------------------------------------------------------------------------
Adds(parts, k, z, row) ==
  /\ \A p \in parts : p.expert = expert_ids[z] /\ p.row = row
  /\ \A p \in parts : p.products.start + p.products.len <= k
  /\ \A i \in 0 .. k - 1 : Cardinality({p \in parts : Covers(p.products, i)}) = 1

\* After the down product every slot has added up each product exactly once: gate and
\* up over the token's row, down over the slot's own row, all with the weights of the
\* slot's expert, whichever shards ran first and whether gate and up shared a launch.
DecodeExact ==
  step = "down" /\ AllRan(down) =>
    \A z \in Slots : /\ Adds(gate[z], Hidden, z, 0) /\ Adds(up[z], Hidden, z, 0)
                     /\ Adds(down[z], Inter, z, z)
=============================================================================
