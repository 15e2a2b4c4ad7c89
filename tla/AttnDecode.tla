------------------------------ MODULE AttnDecode ------------------------------
(***************************************************************************)
(* The wrappers of attention/mod.rs whose kernels work on single query     *)
(* rows: decoding against a cache [batch, kv head, kv_stride], multi-head  *)
(* latent attention (MLA), where all heads share one latent row per key,   *)
(* and attention under an explicit mask or an explicit list of blocks.     *)
(* Their launches are AttnLaunch's with                                    *)
(*   rows     query rows of a sequence: 1, or c.seq_q                      *)
(*   stride   keys between one head of the cache and the next              *)
(*   bound    where the number of keys comes from: the argument seq_kv,    *)
(*            the first position on the device, each sequence's position,  *)
(*            or its length                                                *)
(*   masks    keys behind the last one count for nothing                   *)
(*   group    heads a block computes: what heads % group leaves is dropped *)
(***************************************************************************)
EXTENDS AttnLaunch

CONSTANTS
  HeadGroup,     \* 16 heads per MMA tile
  KvChunk,       \* 8 keys per TMA chunk
  SplitFrom,     \* 64 keys at least to split
  MmaFrom,       \* 32 keys at least for the FP8 MMA kernel
  TargetCtas,    \* 48 blocks, one for each multiprocessor
  MaxSplits,     \* 16 splits at most, chosen
  CombineSplits  \* 64 splits at most, asked for

ASSUME DecodeAttnOK ==
  /\ HeadGroup \in Nat \ {0} /\ KvChunk \in Nat \ {0} /\ MaxSplits \in Nat \ {0}
  /\ TargetCtas \in Nat /\ SplitFrom \in Nat /\ MmaFrom \in Nat /\ CombineSplits \in Nat

-----------------------------------------------------------------------------
(* Decoding against a strided cache: one block per head and sequence.      *)

CacheRows(c) == c.batch * c.kv_heads * c.kv_stride

CacheDims(c) == c.batch > 0 /\ c.heads > 0 /\ c.kv_heads > 0 /\ c.kv_stride > 0
                /\ c.heads % c.kv_heads = 0

CacheBuffers(c) ==
  /\ c.q >= c.batch * c.heads /\ c.o >= c.batch * c.heads
  /\ c.k >= CacheRows(c) /\ c.v >= CacheRows(c)

\* Mutant: the keys are not compared with the cache's stride.
StridedUnbounded(c) == CacheDims(c) /\ c.seq_kv > 0 /\ CacheBuffers(c)

Strided(c) == CacheDims(c) /\ c.seq_kv > 0 /\ c.seq_kv <= c.kv_stride /\ CacheBuffers(c)

DecodeKernel(c, mask, bound) ==
  [Gqa(c, Plain(c, 1, 1, mask)) EXCEPT
     !.rows = 1, !.grid_x = 1, !.stride = c.kv_stride, !.bound = bound, !.masks = TRUE]

flash_attn_bf16_decode_d128_gqa(c)  == Launch(Strided(c), c, DecodeKernel(c, "none", "param"))
flash_attn_bf16_decode_d192_dv128_gqa(c) ==
  Launch(Strided(c), c, DecodeKernel(c, "none", "param"))
fa_bf16_fp8kv_decode_d128_gqa(c)    == Launch(Strided(c), c, DecodeKernel(c, "none", "param"))
flash_attn_bf16_decode_d512_gqa(c)  == Launch(Strided(c), c, DecodeKernel(c, "none", "param"))
flash_attn_bf16_decode_d256_gqa(c)  ==
  Launch(Strided(c), c, [DecodeKernel(c, "sliding", "param") EXCEPT !.pos = "host"])

\* The position, and with it the number of keys, is read on the device.
PosDev(c, mask) == [DecodeKernel(c, mask, "first") EXCEPT !.pos = "first"]
PosDevOK(c)     == CacheDims(c) /\ c.pos_len >= c.batch /\ CacheBuffers(c)

flash_attn_bf16_fp8kv_decode_d256_gqa_pos_dev(c) == Launch(PosDevOK(c), c, PosDev(c, "sliding"))
flash_attn_bf16_fp8kv_decode_d512_gqa_pos_dev(c) == Launch(PosDevOK(c), c, PosDev(c, "none"))
flash_attn_bf16_decode_d256_gqa_pos_dev(c)       == Launch(PosDevOK(c), c, PosDev(c, "sliding"))
flash_attn_bf16_decode_d512_gqa_pos_dev(c)       == Launch(PosDevOK(c), c, PosDev(c, "none"))

\* Views into the cache are not measured.
flash_attn_bf16_decode_d256_gqa_pos_dev_view(c) == Launch(CacheDims(c), c, PosDev(c, "sliding"))
flash_attn_bf16_decode_d512_gqa_pos_dev_view(c) == Launch(CacheDims(c), c, PosDev(c, "none"))

\* One head of K and V to each head, [batch, head, seq_kv].
fa_bf16_fp8kv_decode_d128(c) ==
  Launch(c.batch > 0 /\ c.heads > 0 /\ c.seq_kv > 0
           /\ c.q >= c.batch * c.heads /\ c.o >= c.batch * c.heads
           /\ c.k >= KvRows(c, c.heads) /\ c.v >= KvRows(c, c.heads), c,
         [DecodeKernel(c, "none", "param") EXCEPT !.kv_heads = c.heads, !.stride = c.seq_kv])
fa_bf16_fp8kv_decode_d128_causal(c) ==
  Launch(c.batch > 0 /\ c.heads > 0 /\ c.seq_kv > 0 /\ c.pos_len >= c.batch
           /\ c.q >= c.batch * c.heads /\ c.o >= c.batch * c.heads
           /\ c.k >= KvRows(c, c.heads) /\ c.v >= KvRows(c, c.heads), c,
         [DecodeKernel(c, "none", "each") EXCEPT !.kv_heads = c.heads, !.stride = c.seq_kv])

-----------------------------------------------------------------------------
(* MLA: q and o are [batch, row, head], a key is one row for all heads.    *)

MlaKernel(c, chunk) ==
  [Plain(c, 1, chunk, "none") EXCEPT
     !.rows = 1, !.grid_x = 1, !.layout = "token", !.kv_heads = 1, !.masks = TRUE]

MlaTma(c)     == [MlaKernel(c, KvChunk) EXCEPT !.load = "tma"]
HeadGroups(L) == [L EXCEPT !.group = HeadGroup]

MlaDims(c) == c.batch > 0 /\ c.heads > 0 /\ c.seq_kv > 0
MlaBuffers(c, rows) ==
  /\ c.q >= c.batch * c.heads * rows /\ c.o >= c.batch * c.heads * rows
  /\ c.k >= KvRows(c, 1) /\ c.v >= KvRows(c, 1)

\* Mutant: whole groups of heads are taken for granted.
AnyHeads(c) == TRUE

WholeGroups(c) == c.heads % HeadGroup = 0

mla_decode_bf16(c)  == Launch(MlaDims(c) /\ MlaBuffers(c, 1), c, MlaKernel(c, 1))
mla_prefill_bf16(c) ==
  Launch(MlaDims(c) /\ c.seq_q > 0 /\ MlaBuffers(c, c.seq_q), c,
         [MlaKernel(c, 1) EXCEPT !.rows = c.seq_q, !.grid_x = c.seq_q, !.mask = "causal"])
mla_prefill_fp8(c)  ==
  Launch(MlaDims(c) /\ c.seq_q > 0, c,
         [MlaKernel(c, 1) EXCEPT !.rows = c.seq_q, !.grid_x = c.seq_q, !.mask = "causal"])
mla_decode_fp8(c)   == Launch(MlaDims(c), c, MlaKernel(c, 1))
mla_decode_fp8kv_mma(c) ==
  Launch(MlaDims(c) /\ WholeGroups(c), c, HeadGroups(MlaKernel(c, KvChunk)))
mla_decode_fp8_auto(c) ==
  IF ~WholeGroups(c) \/ c.heads < HeadGroup \/ c.seq_kv < MmaFrom
  THEN mla_decode_fp8(c) ELSE mla_decode_fp8kv_mma(c)

mla_decode_bf16_paged(c) ==
  Launch(c.batch > 0 /\ c.heads > 0 /\ c.max_pages > 0 /\ c.page_size > 0, c,
         [MlaKernel(c, 1) EXCEPT !.load = "paged", !.bound = "lens"])

mla_decode_bf16_tma(c)     == Launch(MlaDims(c), c, MlaTma(c))
mla_decode_bf16_mma(c)     == Launch(MlaDims(c) /\ WholeGroups(c), c, HeadGroups(MlaKernel(c, KvChunk)))
mla_decode_bf16_mma_tma(c) == Launch(MlaDims(c) /\ WholeGroups(c), c, HeadGroups(MlaTma(c)))

\* No check but the heads': a descriptor of no rows is refused.
mla_decode_bf16_mma_tma_pq(c) ==
  Launch(WholeGroups(c) /\ KvRows(c, 1) > 0, c, HeadGroups(MlaTma(c)))

\* The splits are one launch, and mla_split_kv_combine merges them.
mla_decode_bf16_mma_split(c, splits) ==
  Launch(MlaDims(c) /\ splits > 0 /\ WholeGroups(c) /\ splits <= CombineSplits, c,
         [HeadGroups(MlaTma(c)) EXCEPT !.split = TRUE, !.splits = splits])

Least(x, y)    == IF x < y THEN x ELSE y
Greatest(x, y) == IF x > y THEN x ELSE y

\* As many splits as make one block per multiprocessor, in whole chunks.
TunedSplits(c) ==
  LET base   == (c.heads \div HeadGroup) * c.batch
      target == IF base >= TargetCtas THEN 2 ELSE Greatest(TargetCtas \div Greatest(base, 1), 2)
  IN  IF c.seq_kv < SplitFrom THEN 1
      ELSE Least(Least(target, CeilDiv(c.seq_kv, KvChunk)), MaxSplits)

SplitOrNot(c, splits) ==
  IF splits <= 1 THEN mla_decode_bf16_mma_tma_pq(c) ELSE mla_decode_bf16_mma_split(c, splits)

mla_decode_bf16_auto(c) ==
  IF ~WholeGroups(c) THEN mla_decode_bf16(c) ELSE SplitOrNot(c, TunedSplits(c))

\* The caller's own number of splits.
mla_decode_bf16_auto_with_splits(c) ==
  IF ~WholeGroups(c) THEN mla_decode_bf16(c) ELSE SplitOrNot(c, c.num_splits)

\* Ring attention on one GPU (distributed/ring_attention.rs): prefill split by split.
ring_attention_bf16(c) ==
  IF c.num_splits > 0 /\ c.seq_kv % c.num_splits = 0 /\ c.num_splits <= CombineSplits
  THEN flash_attn_bf16_v3_split_kv(c) ELSE Refused

\* These kernels fill a broken chunk with zeros and attend all of it.
fa_fp8_mla_decode_mma_v2(c) ==
  Launch(MlaDims(c) /\ WholeGroups(c), c, [HeadGroups(MlaKernel(c, KvChunk)) EXCEPT !.masks = FALSE])
fa_fp8_mla_decode_mma_v3(c) ==
  Launch(MlaDims(c) /\ WholeGroups(c), c, [HeadGroups(MlaKernel(c, KvChunk)) EXCEPT !.masks = FALSE])
fa_fp8_mla_decode_auto(c) == fa_fp8_mla_decode_mma_v3(c)

-----------------------------------------------------------------------------
(* An explicit mask over (row, key), or for each row the blocks it reads;  *)
(* both are [batch, row, head].                                            *)

TokenKernel(c, bc, mask) ==
  [Plain(c, 1, bc, mask) EXCEPT !.layout = "token", !.masks = TRUE]

tree_attention_bf16(c) ==
  Launch(validate_attn_dims(c) /\ c.mask_len >= c.seq_q * c.seq_kv, c, TokenKernel(c, 1, "tree"))

nsa_attention_bf16(c, block_size) ==
  Launch(validate_attn_dims(c) /\ c.k_top > 0 /\ block_size > 0
           /\ c.idx_len >= c.batch * c.seq_q * c.heads * c.k_top, c,
         TokenKernel(c, block_size, "blocks"))

dsa_attention_bf16(c) == nsa_attention_bf16(c, 1)
=============================================================================
