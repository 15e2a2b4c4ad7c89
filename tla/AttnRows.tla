------------------------------- MODULE AttnRows -------------------------------
(***************************************************************************)
(* What the blocks of an attention launch do to memory: which rows of O    *)
(* they store, and for each the keys it attends, a key being its place in  *)
(* the sequence, the row of K that is fetched for it, and its split.       *)
(***************************************************************************)
EXTENDS AttnDecode, Integers

NoRow == -1   \* a row of zeros in shared memory, backed by no row of K

Chosen(c) ==
  CASE c.fn = "flash_attn_bf16_d128" -> flash_attn_bf16_d128(c)
    [] c.fn = "flash_attn_bf16_d128_causal" -> flash_attn_bf16_d128_causal(c)
    [] c.fn = "flash_attn_bf16_v3_d128" -> flash_attn_bf16_v3_d128(c)
    [] c.fn = "flash_attn_bf16_v3_d128_causal" -> flash_attn_bf16_v3_d128_causal(c)
    [] c.fn = "flash_attn_bf16_v22_db" -> flash_attn_bf16_v22_db(c)
    [] c.fn = "flash_attn_bf16_v3_d256" -> flash_attn_bf16_v3_d256(c)
    [] c.fn = "flash_attn_bf16_v3_d256_causal" -> flash_attn_bf16_v3_d256_causal(c)
    [] c.fn = "flash_attn_fp8_d128" -> flash_attn_fp8_d128(c)
    [] c.fn = "flash_attn_fp8_d128_causal" -> flash_attn_fp8_d128_causal(c)
    [] c.fn = "flash_attn_bf16_v18_4warp" -> flash_attn_bf16_v18_4warp(c)
    [] c.fn = "flash_attn_bf16_v17_bc128" -> flash_attn_bf16_v17_bc128(c)
    [] c.fn = "flash_attn_bf16_v3_d256_gqa" -> flash_attn_bf16_v3_d256_gqa(c)
    [] c.fn = "flash_attn_bf16_v3_d256_gqa_causal" -> flash_attn_bf16_v3_d256_gqa_causal(c)
    [] c.fn = "flash_attn_bf16_v3_d256_gqa_causal_with_offset" -> flash_attn_bf16_v3_d256_gqa_causal_with_offset(c)
    [] c.fn = "flash_attn_bf16_v3_d256_gqa_causal_pos_dev" -> flash_attn_bf16_v3_d256_gqa_causal_pos_dev(c)
    [] c.fn = "flash_attn_bf16_fp8kv_v3_d256_gqa_causal_pos_dev" -> flash_attn_bf16_fp8kv_v3_d256_gqa_causal_pos_dev(c)
    [] c.fn = "flash_attn_bf16_varlen_d128" -> flash_attn_bf16_varlen_d128(c)
    [] c.fn = "flash_attn_bf16_v3_paged_kv" -> flash_attn_bf16_v3_paged_kv(c)
    [] c.fn = "flash_attn_bf16_v3_paged_kv_causal" -> flash_attn_bf16_v3_paged_kv_causal(c)
    [] c.fn = "flash_attn_fp8_v3_paged_kv" -> flash_attn_fp8_v3_paged_kv(c)
    [] c.fn = "flash_attn_fp8_v3_paged_kv_causal" -> flash_attn_fp8_v3_paged_kv_causal(c)
    [] c.fn = "flash_attn_bf16_v3_split_kv" -> flash_attn_bf16_v3_split_kv(c)
    [] c.fn = "flash_attn_bf16_v3_split_kv_causal" -> flash_attn_bf16_v3_split_kv_causal(c)
    [] c.fn = "flash_attn_bf16_v3_split_paged_kv" -> flash_attn_bf16_v3_split_paged_kv(c)
    [] c.fn = "flash_attn_bf16_v3_split_paged_kv_causal" -> flash_attn_bf16_v3_split_paged_kv_causal(c)
    [] c.fn = "flash_attn_fp8_v3_split_paged_kv" -> flash_attn_fp8_v3_split_paged_kv(c)
    [] c.fn = "flash_attn_fp8_v3_split_paged_kv_causal" -> flash_attn_fp8_v3_split_paged_kv_causal(c)
    [] c.fn = "flash_attn_bf16_v8_tma_db_d128" -> flash_attn_bf16_v8_tma_db_d128(c)
    [] c.fn = "flash_attn_bf16_v11_fused_scale" -> flash_attn_bf16_v11_fused_scale(c)
    [] c.fn = "flash_attn_bf16_v13_bc32_d128" -> flash_attn_bf16_v13_bc32_d128(c)
    [] c.fn = "flash_attn_bf16_v20_tma_bc128" -> flash_attn_bf16_v20_tma_bc128(c)
    [] c.fn = "flash_attn_bf16_v21_streaming_p" -> flash_attn_bf16_v21_streaming_p(c)
    [] c.fn = "flash_attn_bf16_v11_causal" -> flash_attn_bf16_v11_causal(c)
    [] c.fn = "flash_attn_bf16_v21_causal" -> flash_attn_bf16_v21_causal(c)
    [] c.fn = "flash_attn_bf16_v12_persistent" -> flash_attn_bf16_v12_persistent(c)
    [] c.fn = "flash_attn_bf16_v21_softcap_causal" -> flash_attn_bf16_v21_softcap_causal(c)
    [] c.fn = "flash_attn_bf16_v21_swa" -> flash_attn_bf16_v21_swa(c)
    [] c.fn = "flash_attn_bf16_v21_swa_softcap" -> flash_attn_bf16_v21_swa_softcap(c)
    [] c.fn = "flash_attn_bf16_v11_gqa" -> flash_attn_bf16_v11_gqa(c)
    [] c.fn = "flash_attn_bf16_v11_gqa_causal" -> flash_attn_bf16_v11_gqa_causal(c)
    [] c.fn = "flash_attn_bf16_v21_gqa" -> flash_attn_bf16_v21_gqa(c)
    [] c.fn = "flash_attn_bf16_v21_gqa_causal" -> flash_attn_bf16_v21_gqa_causal(c)
    [] c.fn = "flash_attn_bf16_v11_varlen" -> flash_attn_bf16_v11_varlen(c)
    [] c.fn = "flash_attn_bf16_v11_varlen_causal" -> flash_attn_bf16_v11_varlen_causal(c)
    [] c.fn = "flash_attn_bf16_v11_varlen_gqa" -> flash_attn_bf16_v11_varlen_gqa(c)
    [] c.fn = "flash_attn_bf16_v11_varlen_gqa_causal" -> flash_attn_bf16_v11_varlen_gqa_causal(c)
    [] c.fn = "flash_attn_bf16_v21_varlen" -> flash_attn_bf16_v21_varlen(c)
    [] c.fn = "flash_attn_bf16_v21_varlen_causal" -> flash_attn_bf16_v21_varlen_causal(c)
    [] c.fn = "flash_attn_bf16_v21_varlen_gqa" -> flash_attn_bf16_v21_varlen_gqa(c)
    [] c.fn = "flash_attn_bf16_v21_varlen_gqa_causal" -> flash_attn_bf16_v21_varlen_gqa_causal(c)
    [] c.fn = "flash_attn_fp8_v11_tma" -> flash_attn_fp8_v11_tma(c)
    [] c.fn = "flash_attn_fp8_v12a_transpose" -> flash_attn_fp8_v12a_transpose(c)
    [] c.fn = "flash_attn_fp8_v12c_vt" -> flash_attn_fp8_v12c_vt(c)
    [] c.fn = "flash_attn_fp8_v12c_vt_causal" -> flash_attn_fp8_v12c_vt_causal(c)
    [] c.fn = "flash_attn_fp8_v12c_vt_gqa" -> flash_attn_fp8_v12c_vt_gqa(c)
    [] c.fn = "flash_attn_fp8_v12c_vt_gqa_causal" -> flash_attn_fp8_v12c_vt_gqa_causal(c)
    [] c.fn = "flash_attn_fp8_v12c_vt_varlen" -> flash_attn_fp8_v12c_vt_varlen(c)
    [] c.fn = "flash_attn_fp8_v12c_vt_varlen_causal" -> flash_attn_fp8_v12c_vt_varlen_causal(c)
    [] c.fn = "flash_attn_fp8_v12c_vt_varlen_gqa" -> flash_attn_fp8_v12c_vt_varlen_gqa(c)
    [] c.fn = "flash_attn_fp8_v12c_vt_varlen_gqa_causal" -> flash_attn_fp8_v12c_vt_varlen_gqa_causal(c)
    [] c.fn = "flash_attn_bf16_decode_d128_gqa" -> flash_attn_bf16_decode_d128_gqa(c)
    [] c.fn = "flash_attn_bf16_decode_d192_dv128_gqa" -> flash_attn_bf16_decode_d192_dv128_gqa(c)
    [] c.fn = "fa_bf16_fp8kv_decode_d128_gqa" -> fa_bf16_fp8kv_decode_d128_gqa(c)
    [] c.fn = "flash_attn_bf16_decode_d256_gqa" -> flash_attn_bf16_decode_d256_gqa(c)
    [] c.fn = "flash_attn_bf16_decode_d512_gqa" -> flash_attn_bf16_decode_d512_gqa(c)
    [] c.fn = "flash_attn_bf16_fp8kv_decode_d256_gqa_pos_dev" -> flash_attn_bf16_fp8kv_decode_d256_gqa_pos_dev(c)
    [] c.fn = "flash_attn_bf16_fp8kv_decode_d512_gqa_pos_dev" -> flash_attn_bf16_fp8kv_decode_d512_gqa_pos_dev(c)
    [] c.fn = "flash_attn_bf16_decode_d256_gqa_pos_dev" -> flash_attn_bf16_decode_d256_gqa_pos_dev(c)
    [] c.fn = "flash_attn_bf16_decode_d512_gqa_pos_dev" -> flash_attn_bf16_decode_d512_gqa_pos_dev(c)
    [] c.fn = "flash_attn_bf16_decode_d256_gqa_pos_dev_view" -> flash_attn_bf16_decode_d256_gqa_pos_dev_view(c)
    [] c.fn = "flash_attn_bf16_decode_d512_gqa_pos_dev_view" -> flash_attn_bf16_decode_d512_gqa_pos_dev_view(c)
    [] c.fn = "fa_bf16_fp8kv_decode_d128" -> fa_bf16_fp8kv_decode_d128(c)
    [] c.fn = "fa_bf16_fp8kv_decode_d128_causal" -> fa_bf16_fp8kv_decode_d128_causal(c)
    [] c.fn = "mla_decode_bf16" -> mla_decode_bf16(c)
    [] c.fn = "mla_prefill_bf16" -> mla_prefill_bf16(c)
    [] c.fn = "mla_prefill_fp8" -> mla_prefill_fp8(c)
    [] c.fn = "mla_decode_fp8" -> mla_decode_fp8(c)
    [] c.fn = "mla_decode_fp8kv_mma" -> mla_decode_fp8kv_mma(c)
    [] c.fn = "mla_decode_fp8_auto" -> mla_decode_fp8_auto(c)
    [] c.fn = "mla_decode_bf16_paged" -> mla_decode_bf16_paged(c)
    [] c.fn = "mla_decode_bf16_tma" -> mla_decode_bf16_tma(c)
    [] c.fn = "mla_decode_bf16_mma" -> mla_decode_bf16_mma(c)
    [] c.fn = "mla_decode_bf16_mma_tma" -> mla_decode_bf16_mma_tma(c)
    [] c.fn = "mla_decode_bf16_mma_tma_pq" -> mla_decode_bf16_mma_tma_pq(c)
    [] c.fn = "mla_decode_bf16_auto" -> mla_decode_bf16_auto(c)
    [] c.fn = "mla_decode_bf16_auto_with_splits" -> mla_decode_bf16_auto_with_splits(c)
    [] c.fn = "fa_fp8_mla_decode_mma_v2" -> fa_fp8_mla_decode_mma_v2(c)
    [] c.fn = "fa_fp8_mla_decode_mma_v3" -> fa_fp8_mla_decode_mma_v3(c)
    [] c.fn = "fa_fp8_mla_decode_auto" -> fa_fp8_mla_decode_auto(c)
    [] c.fn = "tree_attention_bf16" -> tree_attention_bf16(c)
    [] c.fn = "dsa_attention_bf16" -> dsa_attention_bf16(c)
    [] c.fn = "nsa_attention_bf16" -> nsa_attention_bf16(c, c.block_size)
    [] c.fn = "ring_attention_bf16" -> ring_attention_bf16(c)
    [] c.fn = "mla_decode_bf16_mma_split" -> mla_decode_bf16_mma_split(c, c.num_splits)

-----------------------------------------------------------------------------
(* The wrappers, by what their calls are like.                             *)

DenseFns ==
  {"flash_attn_bf16_d128", "flash_attn_bf16_d128_causal", "flash_attn_bf16_v3_d128",
    "flash_attn_bf16_v3_d128_causal", "flash_attn_bf16_v22_db", "flash_attn_bf16_v3_d256",
    "flash_attn_bf16_v3_d256_causal", "flash_attn_fp8_d128", "flash_attn_fp8_d128_causal",
    "flash_attn_bf16_v18_4warp", "flash_attn_bf16_v17_bc128", "flash_attn_bf16_v3_d256_gqa",
    "flash_attn_bf16_v3_d256_gqa_causal", "flash_attn_bf16_v3_d256_gqa_causal_with_offset",
    "flash_attn_bf16_v3_d256_gqa_causal_pos_dev",
    "flash_attn_bf16_fp8kv_v3_d256_gqa_causal_pos_dev", "flash_attn_bf16_v3_paged_kv",
    "flash_attn_bf16_v3_paged_kv_causal", "flash_attn_fp8_v3_paged_kv",
    "flash_attn_fp8_v3_paged_kv_causal", "ring_attention_bf16", "flash_attn_bf16_v3_split_kv",
    "flash_attn_bf16_v3_split_kv_causal", "flash_attn_bf16_v3_split_paged_kv",
    "flash_attn_bf16_v3_split_paged_kv_causal", "flash_attn_fp8_v3_split_paged_kv",
    "flash_attn_fp8_v3_split_paged_kv_causal", "flash_attn_bf16_v8_tma_db_d128",
    "flash_attn_bf16_v11_fused_scale", "flash_attn_bf16_v13_bc32_d128",
    "flash_attn_bf16_v20_tma_bc128", "flash_attn_bf16_v21_streaming_p",
    "flash_attn_bf16_v11_causal", "flash_attn_bf16_v21_causal",
    "flash_attn_bf16_v12_persistent", "flash_attn_bf16_v21_softcap_causal",
    "flash_attn_bf16_v21_swa", "flash_attn_bf16_v21_swa_softcap", "flash_attn_bf16_v11_gqa",
    "flash_attn_bf16_v11_gqa_causal", "flash_attn_bf16_v21_gqa",
    "flash_attn_bf16_v21_gqa_causal", "flash_attn_fp8_v11_tma", "flash_attn_fp8_v12a_transpose",
    "flash_attn_fp8_v12c_vt", "flash_attn_fp8_v12c_vt_causal", "flash_attn_fp8_v12c_vt_gqa",
    "flash_attn_fp8_v12c_vt_gqa_causal"}

\* Sequences of different lengths, one behind the other.
VarlenFns ==
  {"flash_attn_bf16_varlen_d128", "flash_attn_bf16_v11_varlen",
    "flash_attn_bf16_v11_varlen_causal", "flash_attn_bf16_v11_varlen_gqa",
    "flash_attn_bf16_v11_varlen_gqa_causal", "flash_attn_bf16_v21_varlen",
    "flash_attn_bf16_v21_varlen_causal", "flash_attn_bf16_v21_varlen_gqa",
    "flash_attn_bf16_v21_varlen_gqa_causal", "flash_attn_fp8_v12c_vt_varlen",
    "flash_attn_fp8_v12c_vt_varlen_causal", "flash_attn_fp8_v12c_vt_varlen_gqa",
    "flash_attn_fp8_v12c_vt_varlen_gqa_causal"}

\* The wrappers that check nothing: their caller answers for the dimensions.
UncheckedFns ==
  {"flash_attn_bf16_v18_4warp", "flash_attn_bf16_v17_bc128", "flash_attn_fp8_v3_paged_kv_causal",
   "ring_attention_bf16",
   "flash_attn_bf16_v3_split_kv", "flash_attn_bf16_v3_split_kv_causal",
   "flash_attn_bf16_v3_split_paged_kv", "flash_attn_bf16_v3_split_paged_kv_causal",
   "flash_attn_fp8_v3_split_paged_kv", "flash_attn_fp8_v3_split_paged_kv_causal"}

\* One query row for each sequence.
DecodeFns ==
  {"flash_attn_bf16_decode_d128_gqa", "flash_attn_bf16_decode_d192_dv128_gqa",
   "fa_bf16_fp8kv_decode_d128_gqa", "flash_attn_bf16_decode_d256_gqa",
   "flash_attn_bf16_decode_d512_gqa", "flash_attn_bf16_fp8kv_decode_d256_gqa_pos_dev",
   "flash_attn_bf16_fp8kv_decode_d512_gqa_pos_dev", "flash_attn_bf16_decode_d256_gqa_pos_dev",
   "flash_attn_bf16_decode_d512_gqa_pos_dev", "flash_attn_bf16_decode_d256_gqa_pos_dev_view",
   "flash_attn_bf16_decode_d512_gqa_pos_dev_view"}

\* One latent row per key.
LatentFns ==
  {"fa_bf16_fp8kv_decode_d128", "fa_bf16_fp8kv_decode_d128_causal", "mla_decode_bf16",
   "mla_prefill_bf16", "mla_prefill_fp8", "mla_decode_fp8", "mla_decode_fp8kv_mma",
   "mla_decode_fp8_auto", "mla_decode_bf16_paged", "mla_decode_bf16_tma", "mla_decode_bf16_mma",
   "mla_decode_bf16_mma_tma", "mla_decode_bf16_mma_tma_pq", "mla_decode_bf16_auto",
   "mla_decode_bf16_auto_with_splits", "mla_decode_bf16_mma_split", "fa_fp8_mla_decode_mma_v2",
   "fa_fp8_mla_decode_mma_v3", "fa_fp8_mla_decode_auto"}

\* A mask or a list of blocks of the caller's.
ExplicitFns == {"tree_attention_bf16", "nsa_attention_bf16", "dsa_attention_bf16"}

Wrappers == DenseFns \cup VarlenFns \cup DecodeFns \cup LatentFns \cup ExplicitFns

Batches(c) == 0 .. c.batch - 1

Dimensions ==
  {"batch", "heads", "kv_heads", "seq_q", "seq_kv", "max_seqlen_q", "total_q", "total_kv", "cu_len",
   "q", "k", "v", "o", "offset", "pos_len", "window", "page_size", "num_splits", "max_pages",
   "kv_stride", "mask_len", "block_size", "k_top", "idx_len"}

\* What the types of the arguments and the callers of a wrapper answer for:
\* nothing is negative; the ends of sequences laid one behind the other ascend
\* to the totals, and none is longer than the longest; a page table has a page
\* for every key; and what a wrapper that checks nothing trusts.
Callable(c) ==
  /\ c.fn \in Wrappers
  /\ Dimensions \subseteq DOMAIN c /\ \A d \in Dimensions : c[d] \in Nat
  /\ \A b \in Batches(c) : {c.pos[b], c.lens[b]} \subseteq Nat
  /\ \A b \in 0 .. c.batch : {c.cu_q[b], c.cu_k[b]} \subseteq Nat
  /\ \A i \in 0 .. c.seq_q : c.blocks[i] \subseteq Nat
  /\ c.fn \in VarlenFns =>
       /\ c.cu_q[0] = 0 /\ c.cu_q[c.batch] = c.total_q
       /\ c.cu_k[0] = 0 /\ c.cu_k[c.batch] = c.total_kv
       /\ \A b \in Batches(c) : c.cu_q[b] <= c.cu_q[b + 1] /\ c.cu_k[b] <= c.cu_k[b + 1]
       /\ c.max_seqlen_q > 0 => \A b \in Batches(c) : c.cu_q[b + 1] - c.cu_q[b] <= c.max_seqlen_q
  /\ c.page_size > 0
  /\ \A b \in Batches(c) : \A p \in 0 .. Greatest(c.seq_kv, c.lens[b]) : c.table[b][p] \in Nat
  /\ c.fn \in UncheckedFns => Divides(c) /\ c.num_splits > 0

-----------------------------------------------------------------------------
(* What a block computes, L being its launch and c the call.               *)

\* Sequences of different lengths end where cu_q and cu_k say.
Ragged(L) == L.layout \in {"varlen", "packed"}
SeqQ(L, c, b)  == IF Ragged(L) THEN c.cu_q[b + 1] - c.cu_q[b] ELSE L.rows
SeqKv(L, c, b) ==
  CASE Ragged(L)         -> c.cu_k[b + 1] - c.cu_k[b]
    [] L.bound = "first" -> c.pos[0] + 1
    [] L.bound = "each"  -> Least(c.seq_kv, c.pos[b] + 1)
    [] L.bound = "lens"  -> c.lens[b]
    [] OTHER             -> c.seq_kv

\* The head of K and V that a head of Q attends.
KvHead(L, c, h) ==
  IF L.load = "tma" THEN (h * L.kv_heads) \div c.heads
  ELSE h \div (c.heads \div L.kv_heads)

Position(L, c, b) ==
  CASE L.pos = "zero" -> 0 [] L.pos = "host" -> c.offset [] L.pos = "device" -> c.pos[b]
    [] L.pos = "first" -> c.pos[0]

\* Mutant: the persistent block stops after its first tile.
FirstTileOfBlock(L, c, x) == {x}

\* The query tiles of a block: its own, or every step-th.
TilesOfBlock(L, c, x) ==
  IF L.step = 0 THEN {x}
  ELSE {t \in 0 .. QTiles(L.rows, L.br) - 1 : t >= x /\ (t - x) % L.step = 0}

\* Mutant: the causal bound stops at the first row of the query tile.
KvTilesShort(L, c, b, qb, split) ==
  LET first == qb * L.br + Position(L, c, b)
  IN  {t \in 0 .. CeilDiv(SeqKv(L, c, b), L.bc) - 1 :
         L.mask = "causal" => t < (first + L.bc) \div L.bc}

\* The tiles of keys a block goes through.
KvTiles(L, c, b, qb, split) ==
  LET all  == CeilDiv(SeqKv(L, c, b), L.bc)
      last == qb * L.br + L.br - 1 + Position(L, c, b)
      mine == IF L.split THEN SplitBlocks(all, L.splits, split) ELSE 0 .. all - 1
  IN  {t \in mine : CASE L.mask = "causal" -> t < (last + L.bc) \div L.bc
                      [] L.mask \in {"diagonal", "window"} -> t <= qb
                      [] L.mask = "blocks" -> t \in c.blocks[qb]
                      [] OTHER             -> TRUE}

\* Whether key survives the mask for row i of query tile qb, in key tile t.
Unmasked(L, c, b, qb, i, t, key) ==
  CASE L.mask \in {"none", "blocks"} -> TRUE
    [] L.mask = "tree"     -> <<i, key>> \in c.tree
    [] L.mask = "sliding"  -> c.window = 0 \/ key + c.window > Position(L, c, b)
    [] L.mask = "causal"   -> key <= i + Position(L, c, b)
    [] L.mask = "diagonal" -> t = qb => key <= i
    [] L.mask = "window"   -> key <= i /\ i - key < c.window

\* The row of K at which the layout puts key of sequence b.
FlatKey(L, c, b, kvh, key) ==
  IF L.load = "paged"
  THEN (c.table[b][key \div c.page_size] * c.page_size + (key % c.page_size)) * L.kv_heads + kvh
  ELSE CASE L.layout = "varlen" -> kvh * c.total_kv + c.cu_k[b] + key
         [] L.layout = "packed" -> (c.cu_k[b] + key) * c.heads + kvh
         [] L.layout = "token"  -> (b * L.stride + key) * L.kv_heads + kvh
         [] L.layout = "dense"  -> (b * L.kv_heads + kvh) * L.stride + key

\* The rows the descriptor of K spans.
DescriptorRows(L, c) ==
  IF L.layout = "varlen" THEN L.kv_heads * c.total_kv ELSE KvRows(c, L.kv_heads)

\* Mutant: the threads that copy a tile do not look where the sequence ends.
FetchUnguarded(L, c, b, kvh, key) == FlatKey(L, c, b, kvh, key)

\* The row of K that lands in shared memory for key.
Fetch(L, c, b, kvh, key) ==
  IF L.load = "tma"
  THEN LET row == FlatKey(L, c, b, kvh, key)
       IN  IF row < DescriptorRows(L, c) THEN row ELSE NoRow
  ELSE IF key < SeqKv(L, c, b) THEN FlatKey(L, c, b, kvh, key) ELSE NoRow

\* What a row attends: the kernels of prefill do not mask what is behind the
\* sequence.
Attended(L, c, b, h, qb, i, split) ==
  {<<key, Fetch(L, c, b, KvHead(L, c, h), key), split>> : key \in
     UNION {{key \in t * L.bc .. t * L.bc + L.bc - 1 :
               Unmasked(L, c, b, qb, i, t, key) /\ (L.masks => key < SeqKv(L, c, b))} :
              t \in KvTiles(L, c, b, qb, split)}}

\* The row of O for row i.
OutRow(L, c, b, h, i) ==
  CASE L.layout = "varlen" -> h * c.total_q + c.cu_q[b] + i
    [] L.layout = "packed" -> (c.cu_q[b] + i) * c.heads + h
    [] L.layout = "token"  -> (b * L.rows + i) * c.heads + h
    [] OTHER               -> (b * c.heads + h) * L.rows + i

\* The heads that the blocks of a launch come to.
CoveredHeads(L, c) == 0 .. (c.heads \div L.group) * L.group - 1

\* All the rows that a launch stores: those in front of the sequence's end.
Stores(L, c, split) ==
  UNION {UNION {{[at |-> OutRow(L, c, b, h, i), tile |-> <<x, qb>>, row |-> <<b, h, i>>,
                  keys |-> Attended(L, c, b, h, qb, i, split)] :
                   i \in {i \in qb * L.br .. qb * L.br + L.br - 1 : i < SeqQ(L, c, b)}} :
                  qb \in TilesOfBlock(L, c, x)} :
           b \in Batches(c), h \in CoveredHeads(L, c), x \in 0 .. L.grid_x - 1}
=============================================================================
