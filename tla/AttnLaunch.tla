------------------------------ MODULE AttnLaunch ------------------------------
(***************************************************************************)
(* The wrappers of attention/mod.rs that launch a forward attention kernel *)
(* over tiles of query rows: what each accepts of a call, and the launch.  *)
(* A call c has the dimensions the wrapper is passed (heads, kv_heads,     *)
(* seq_q, ...) and the lengths of its buffers q, k, v and o in rows of     *)
(* head_dim elements.  A launch is what decides which rows a block writes  *)
(* and which keys it reads:                                                *)
(*   grid_x, step   query tiles; step > 0: a block takes every step-th     *)
(*   br, bc         rows of a query tile, keys of a tile of K and V        *)
(*   load           how keys get to shared memory: "rows" and "paged" with *)
(*                  zeros behind the sequence, "tma" with zeros behind the *)
(*                  rows of the descriptor                                 *)
(*   mask           "none", "causal", "diagonal" (causal, looked at only   *)
(*                  in the tile on the diagonal) or "window"               *)
(*   layout         [batch, head, row], "varlen" [head, token] or "packed" *)
(*                  [token, head]                                          *)
(*   pos            where the position of query row 0 comes from           *)
(***************************************************************************)
EXTENDS KvSplits

CONSTANTS
  Tile,        \* 64: rows of a TMA query tile, and keys of most tiles
  NumSMs,      \* 48 blocks at most for the persistent kernel
  VtPad,       \* 512
  QwenVtPad    \* {n} when QWEN_VT_PAD is n, {} when it is not set

ASSUME AttnOK ==
  /\ Tile \in Nat \ {0} /\ Tile % 4 = 0
  /\ NumSMs \in Nat \ {0} /\ VtPad \in Nat /\ QwenVtPad \subseteq Nat

Refused == [accepted |-> FALSE]

\* The driver refuses an empty grid.
Launch(ok, c, L) ==
  IF ok /\ c.batch > 0 /\ c.heads > 0 /\ L.grid_x > 0 THEN L ELSE Refused

QRows(c) == c.batch * c.heads * c.seq_q
KvRows(c, kv_heads) == c.batch * kv_heads * c.seq_kv

validate_attn_dims(c) == c.batch > 0 /\ c.heads > 0 /\ c.seq_q > 0 /\ c.seq_kv > 0

\* Mutant: O is measured against the keys.
BuffersShortO(c, kv_heads) ==
  /\ c.q >= QRows(c) /\ c.o >= KvRows(c, kv_heads)
  /\ c.k >= KvRows(c, kv_heads) /\ c.v >= KvRows(c, kv_heads)

Buffers(c, kv_heads) ==
  /\ c.q >= QRows(c) /\ c.o >= QRows(c)
  /\ c.k >= KvRows(c, kv_heads) /\ c.v >= KvRows(c, kv_heads)

validate_attn_bf16_bufs(c) == Buffers(c, c.heads)

Valid(c) == validate_attn_dims(c) /\ validate_attn_bf16_bufs(c)

Divides(c) == c.kv_heads > 0 /\ c.heads % c.kv_heads = 0

\* Only the dimensions, as the wrappers of grouped heads check them.
GqaDims(c) == validate_attn_dims(c) /\ Divides(c)

VarlenDims(c) == c.batch > 0 /\ c.heads > 0 /\ c.max_seqlen_q > 0
                 /\ c.cu_len >= c.batch + 1
VarlenTotals(c) == VarlenDims(c) /\ c.total_q > 0 /\ c.total_kv > 0

-----------------------------------------------------------------------------
(* The kernels.                                                            *)

QTiles(rows, br) == CeilDiv(rows, br)

\* A kernel whose threads copy the tiles: br rows against bc keys.
Plain(c, br, bc, mask) ==
  [accepted |-> TRUE, grid_x |-> QTiles(c.seq_q, br), step |-> 0, br |-> br, bc |-> bc,
   load |-> "rows", mask |-> mask, layout |-> "dense", kv_heads |-> c.heads,
   pos |-> "zero", v_stride |-> 0, split |-> FALSE, splits |-> c.num_splits,
   rows |-> c.seq_q, stride |-> c.seq_kv, bound |-> "param", masks |-> FALSE, group |-> 1]

V1(c, mask) == Plain(c, Tile \div 4, Tile, mask)     \* one warp, 16 rows
V3(c, mask) == Plain(c, 2 * Tile, Tile, mask)        \* eight warps, 128 rows

\* Four warps compute, a fifth issues the TMA loads.
TmaKernel(c, bc, mask) == [Plain(c, Tile, bc, mask) EXCEPT !.load = "tma"]

Gqa(c, L)    == [L EXCEPT !.kv_heads = c.kv_heads]
Paged(c, L)  == [Gqa(c, L) EXCEPT !.load = "paged"]
Split(L)     == [L EXCEPT !.split = TRUE]
Varlen(c, L) == [L EXCEPT !.layout = "varlen", !.grid_x = QTiles(c.max_seqlen_q, L.br)]

\* V is stored transposed, a row of so many tokens for each element of head_dim.
VT(L, stride) == [L EXCEPT !.v_stride = stride]

-----------------------------------------------------------------------------
(* Kernels whose threads copy the tiles.                                   *)

flash_attn_bf16_d128(c)          == Launch(Valid(c), c, V1(c, "none"))
flash_attn_bf16_d128_causal(c)   == Launch(Valid(c), c, V1(c, "causal"))
flash_attn_bf16_v3_d128(c)       == Launch(Valid(c), c, V3(c, "none"))
flash_attn_bf16_v3_d128_causal(c) == Launch(Valid(c), c, V3(c, "causal"))
flash_attn_bf16_v22_db(c)        == Launch(Valid(c), c, V3(c, "none"))
flash_attn_bf16_v3_d256(c)       == Launch(Valid(c), c, V3(c, "none"))
flash_attn_bf16_v3_d256_causal(c) == Launch(Valid(c), c, V3(c, "causal"))
flash_attn_fp8_d128(c)           == Launch(Valid(c), c, V1(c, "none"))
flash_attn_fp8_d128_causal(c)    == Launch(Valid(c), c, V1(c, "causal"))

\* These two check nothing; their tiles have 128 keys.
flash_attn_bf16_v18_4warp(c) == Launch(TRUE, c, Plain(c, 2 * Tile, 2 * Tile, "none"))
flash_attn_bf16_v17_bc128(c) == Launch(TRUE, c, Plain(c, 2 * Tile, 2 * Tile, "none"))

flash_attn_bf16_v3_d256_gqa_inner(c, causal, pos) ==
  Launch(GqaDims(c) /\ Buffers(c, c.kv_heads), c,
         [Gqa(c, V3(c, IF causal THEN "causal" ELSE "none")) EXCEPT !.pos = pos])

flash_attn_bf16_v3_d256_gqa(c) == flash_attn_bf16_v3_d256_gqa_inner(c, FALSE, "zero")
flash_attn_bf16_v3_d256_gqa_causal(c) == flash_attn_bf16_v3_d256_gqa_inner(c, TRUE, "zero")
flash_attn_bf16_v3_d256_gqa_causal_with_offset(c) ==
  flash_attn_bf16_v3_d256_gqa_inner(c, TRUE, "host")

\* The position is read from device memory when the kernel runs.
flash_attn_bf16_v3_d256_gqa_causal_pos_dev(c) ==
  Launch(GqaDims(c) /\ Buffers(c, c.kv_heads) /\ c.pos_len >= c.batch, c,
         [Gqa(c, V3(c, "causal")) EXCEPT !.pos = "device"])
flash_attn_bf16_fp8kv_v3_d256_gqa_causal_pos_dev(c) ==
  Launch(GqaDims(c) /\ Buffers(c, c.kv_heads) /\ c.pos_len >= c.batch, c,
         [Gqa(c, V3(c, "causal")) EXCEPT !.pos = "device"])

flash_attn_bf16_varlen_d128(c) ==
  Launch(VarlenDims(c), c, [Varlen(c, V1(c, "none")) EXCEPT !.layout = "packed"])

flash_attn_bf16_v3_paged_kv(c)        == Launch(GqaDims(c), c, Paged(c, V3(c, "none")))
flash_attn_bf16_v3_paged_kv_causal(c) == Launch(GqaDims(c), c, Paged(c, V3(c, "causal")))
flash_attn_fp8_v3_paged_kv(c)         == Launch(GqaDims(c), c, Paged(c, V3(c, "none")))
flash_attn_fp8_v3_paged_kv_causal(c)  == Launch(TRUE, c, Paged(c, V3(c, "causal")))

\* One launch per split, all unchecked; flash_decoding_combine follows.
flash_attn_bf16_v3_split_kv(c)        == Launch(TRUE, c, Split(V3(c, "none")))
flash_attn_bf16_v3_split_kv_causal(c) == Launch(TRUE, c, Split(V3(c, "causal")))
flash_attn_bf16_v3_split_paged_kv(c)  == Launch(TRUE, c, Split(Paged(c, V3(c, "none"))))
flash_attn_bf16_v3_split_paged_kv_causal(c) ==
  Launch(TRUE, c, Split(Paged(c, V3(c, "causal"))))
flash_attn_fp8_v3_split_paged_kv(c)   == Launch(TRUE, c, Split(Paged(c, V3(c, "none"))))
flash_attn_fp8_v3_split_paged_kv_causal(c) ==
  Launch(TRUE, c, Split(Paged(c, V3(c, "causal"))))

-----------------------------------------------------------------------------
(* Kernels fed by TMA, bf16.                                               *)

flash_attn_bf16_v8_tma_db_d128(c)   == Launch(Valid(c), c, TmaKernel(c, Tile, "none"))
flash_attn_bf16_v11_fused_scale(c)  == Launch(Valid(c), c, TmaKernel(c, Tile, "none"))
flash_attn_bf16_v13_bc32_d128(c)    == Launch(Valid(c), c, TmaKernel(c, Tile \div 2, "none"))
flash_attn_bf16_v20_tma_bc128(c)    == Launch(Valid(c), c, TmaKernel(c, 2 * Tile, "none"))
flash_attn_bf16_v21_streaming_p(c)  == Launch(Valid(c), c, TmaKernel(c, Tile, "none"))
flash_attn_bf16_v11_causal(c)       == Launch(Valid(c), c, TmaKernel(c, Tile, "diagonal"))
flash_attn_bf16_v21_causal(c)       == Launch(Valid(c), c, TmaKernel(c, Tile, "diagonal"))

\* Mutant: as many blocks as query tiles.
PersistentUnbounded(c) ==
  LET tiles == QTiles(c.seq_q, Tile)
  IN  Launch(Valid(c), c, [TmaKernel(c, Tile, "none") EXCEPT !.grid_x = tiles, !.step = tiles])

flash_attn_bf16_v12_persistent(c) ==
  LET tiles == QTiles(c.seq_q, Tile)
      grid  == IF tiles < NumSMs THEN tiles ELSE NumSMs
  IN  Launch(Valid(c), c, [TmaKernel(c, Tile, "none") EXCEPT !.grid_x = grid, !.step = grid])

v21_scalar_mask_dispatch(c, mask) == Launch(Valid(c), c, TmaKernel(c, Tile, mask))

flash_attn_bf16_v21_softcap_causal(c) == v21_scalar_mask_dispatch(c, "diagonal")
flash_attn_bf16_v21_swa(c) ==
  IF c.window = 0 THEN Refused ELSE v21_scalar_mask_dispatch(c, "window")
flash_attn_bf16_v21_swa_softcap(c) ==
  IF c.window = 0 THEN Refused ELSE v21_scalar_mask_dispatch(c, "window")

flash_attn_bf16_v11_gqa(c)        == Launch(GqaDims(c), c, Gqa(c, TmaKernel(c, Tile, "none")))
flash_attn_bf16_v11_gqa_causal(c) == Launch(GqaDims(c), c, Gqa(c, TmaKernel(c, Tile, "diagonal")))
flash_attn_bf16_v21_gqa(c)        == Launch(GqaDims(c), c, Gqa(c, TmaKernel(c, Tile, "none")))
flash_attn_bf16_v21_gqa_causal(c) == Launch(GqaDims(c), c, Gqa(c, TmaKernel(c, Tile, "diagonal")))

flash_attn_bf16_v11_varlen(c) ==
  Launch(VarlenTotals(c), c, Varlen(c, TmaKernel(c, Tile, "none")))
flash_attn_bf16_v11_varlen_causal(c) ==
  Launch(VarlenTotals(c), c, Varlen(c, TmaKernel(c, Tile, "diagonal")))
flash_attn_bf16_v11_varlen_gqa(c) ==
  Launch(VarlenTotals(c) /\ Divides(c), c, Gqa(c, Varlen(c, TmaKernel(c, Tile, "none"))))
flash_attn_bf16_v11_varlen_gqa_causal(c) ==
  Launch(VarlenTotals(c) /\ Divides(c), c, Gqa(c, Varlen(c, TmaKernel(c, Tile, "diagonal"))))

v21_varlen_dispatch(c, mask) ==
  Launch(VarlenTotals(c) /\ Divides(c), c, Gqa(c, Varlen(c, TmaKernel(c, Tile, mask))))

flash_attn_bf16_v21_varlen(c) == v21_varlen_dispatch([c EXCEPT !.kv_heads = c.heads], "none")
flash_attn_bf16_v21_varlen_causal(c) ==
  v21_varlen_dispatch([c EXCEPT !.kv_heads = c.heads], "diagonal")
flash_attn_bf16_v21_varlen_gqa(c)        == v21_varlen_dispatch(c, "none")
flash_attn_bf16_v21_varlen_gqa_causal(c) == v21_varlen_dispatch(c, "diagonal")

-----------------------------------------------------------------------------
(* Kernels fed by TMA, fp8.                                                *)

MaxLog == 30     \* of a number of rows

is_power_of_two(n) == \E e \in 0 .. MaxLog : n = 2 ^ e

\* The tokens from one row of V^T to the next: padded off a power of two.
fp8_vt_row_stride(total_kv_rows) ==
  IF QwenVtPad # {} THEN total_kv_rows + (CHOOSE pad \in QwenVtPad : TRUE)
  ELSE IF is_power_of_two(total_kv_rows) THEN total_kv_rows + VtPad
  ELSE total_kv_rows

flash_attn_fp8_v11_tma(c)        == Launch(Valid(c), c, TmaKernel(c, Tile, "none"))
flash_attn_fp8_v12a_transpose(c) == Launch(Valid(c), c, TmaKernel(c, Tile, "none"))

flash_attn_fp8_v12c_vt(c) ==
  LET stride == fp8_vt_row_stride(KvRows(c, c.heads))
  IN  Launch(Valid(c) /\ c.v >= stride, c, VT(TmaKernel(c, Tile, "none"), stride))

\* The others read V^T at the stride of its tokens.
flash_attn_fp8_v12c_vt_causal(c) ==
  Launch(Valid(c), c, VT(TmaKernel(c, Tile, "diagonal"), KvRows(c, c.heads)))
flash_attn_fp8_v12c_vt_gqa(c) ==
  Launch(GqaDims(c), c, Gqa(c, VT(TmaKernel(c, Tile, "none"), KvRows(c, c.kv_heads))))
flash_attn_fp8_v12c_vt_gqa_causal(c) ==
  Launch(GqaDims(c), c, Gqa(c, VT(TmaKernel(c, Tile, "diagonal"), KvRows(c, c.kv_heads))))
flash_attn_fp8_v12c_vt_varlen(c) ==
  Launch(VarlenTotals(c), c,
         Varlen(c, VT(TmaKernel(c, Tile, "none"), c.heads * c.total_kv)))
flash_attn_fp8_v12c_vt_varlen_causal(c) ==
  Launch(VarlenTotals(c), c,
         Varlen(c, VT(TmaKernel(c, Tile, "diagonal"), c.heads * c.total_kv)))
flash_attn_fp8_v12c_vt_varlen_gqa(c) ==
  Launch(VarlenTotals(c) /\ Divides(c), c,
         Gqa(c, Varlen(c, VT(TmaKernel(c, Tile, "none"), c.kv_heads * c.total_kv))))
flash_attn_fp8_v12c_vt_varlen_gqa_causal(c) ==
  Launch(VarlenTotals(c) /\ Divides(c), c,
         Gqa(c, Varlen(c, VT(TmaKernel(c, Tile, "diagonal"), c.kv_heads * c.total_kv))))
=============================================================================
