------------------------------ MODULE AttnProofs ------------------------------
(***************************************************************************)
(* What holds of attention, of the sessions that append to a cache and     *)
(* attend over it, and of the layers with a memory, for calls, sessions    *)
(* and layers of any size.                                                 *)
(* Attention: whatever the wrapper, its accepted launch has the shape the  *)
(* kernels rely on (ChosenSound, wrapper by wrapper).  With that shape,    *)
(* places in O and rows of sequences are one to one, a row falls to one    *)
(* tile of one block, and the tiles, the loop's bound, the mask and the    *)
(* splits leave each row the keys of the reference.                        *)
(* A session: what the stream will have left in the caches when the device *)
(* comes to an attention is what the host asked for, each token in a place *)
(* of its own, and the attention's keys are those places.                  *)
(* The layers with a memory: a warp at a place of its kernel with token t  *)
(* has a fixed number of bar.syncs behind it, and all warps have the same. *)
(* So the place of one warp says where the others can be, and what a warp  *)
(* finds in shared memory or in the rows of another is what its own round  *)
(* put there.  Between calls every row of a state is the history of all    *)
(* tokens fed.  A call of the convolution finds the three tokens before    *)
(* its first in the window, and leaves the three before the next call's.   *)
(***************************************************************************)
EXTENDS AttnForward, KvCache, LinearAttention, Induction, TLAPS

(***************************************************************************)
(* What every launch guarantees, whatever the wrapper.                     *)

\* The launch has its types.
Typed(L) ==
  /\ L.accepted = TRUE
  /\ {L.br, L.bc, L.grid_x, L.kv_heads, L.group} \subseteq Nat \ {0}
  /\ {L.step, L.rows, L.stride, L.splits, L.v_stride} \subseteq Nat
  /\ L.step <= NumSMs
  /\ {L.split, L.masks} \subseteq BOOLEAN
  /\ L.load \in {"rows", "paged", "tma"} /\ L.layout \in {"dense", "token", "varlen", "packed"}
  /\ L.mask \in {"none", "causal", "diagonal", "window", "sliding", "tree", "blocks"}
  /\ L.pos \in {"zero", "host", "device", "first"} /\ L.bound \in {"param", "first", "each", "lens"}

\* The grid has a block for each tile of query rows, or takes them in steps of the grid.
Tiled(L, c) ==
  IF L.step = 0 THEN L.grid_x = CeilDiv(IF Ragged(L) THEN c.max_seqlen_q ELSE L.rows, L.br)
  ELSE L.step = L.grid_x /\ ~Ragged(L)

\* Whole groups of heads, of Q and for each head of K.
Grouped(L, c) ==
  c.batch > 0 /\ c.heads > 0 /\ c.heads % L.kv_heads = 0 /\ c.heads % L.group = 0

\* Where the keys are and how many.
Placed(L, c) ==
  /\ Ragged(L) => c.fn \in VarlenFns /\ c.max_seqlen_q > 0 /\ ~L.split /\ L.load # "paged"
                  /\ L.bound = "param"
  /\ L.layout = "varlen" => L.load = "tma"
  /\ L.layout = "packed" => L.load = "rows" /\ L.kv_heads = c.heads
  /\ L.load = "tma" /\ ~Ragged(L) => L.stride = c.seq_kv /\ L.bound = "param"
  /\ L.bound = "first" <=> L.pos = "first"
  /\ L.bound = "lens" => L.load = "paged"
  /\ L.load = "paged" => L.bound \in {"param", "lens"}

\* What the masks are used with.
Masked(L, c) ==
  /\ L.mask \in {"diagonal", "window"} => L.br = L.bc /\ L.pos = "zero" /\ ~L.masks /\ ~L.split
  /\ L.mask \in {"sliding", "tree", "blocks"} => L.masks /\ ~L.split /\ ~Ragged(L)
  /\ L.mask = "blocks" => L.br = 1 /\ L.rows = c.seq_q
  /\ L.split => L.splits > 0 /\ L.layout \in {"dense", "token"}
  /\ L.mask = "causal" => L.pos # "first"

\* The buffers a wrapper measures hold every row of the launch.
Roomy(L, c) ==
  /\ ~Ragged(L) /\ L.load # "paged"
  /\ L.v_stride <= c.v
  /\ c.batch * c.heads * L.rows <= c.o
  /\ c.batch * L.kv_heads * L.stride <= c.k
  /\ L.v_stride = 0 => c.batch * L.kv_heads * L.stride <= c.v
  /\ L.bound \in {"param", "each"} => c.seq_kv <= L.stride
  /\ L.bound = "first" => L.stride = c.kv_stride

Shaped(L, c) == Typed(L) /\ Tiled(L, c) /\ Grouped(L, c) /\ Placed(L, c) /\ Masked(L, c)

Sound(L, c) ==
  /\ Shaped(L, c)
  /\ c.fn \in Measuring => Roomy(L, c)

-----------------------------------------------------------------------------

\* Shares rounded up are a natural number of them.
LEMMA CeilDivNat ==
  ASSUME NEW a \in Nat, NEW b \in Nat \ {0}
  PROVE  CeilDiv(a, b) \in Nat
<1> DEFINE q == CeilDiv(a, b)
<1>1. q \in Int /\ b * q <= a + b - 1 /\ a + b - 1 < b * q + b
  BY DEF CeilDiv
<1>2. q >= 0
  <2> SUFFICES ASSUME q < 0 PROVE FALSE
    BY <1>1
  <2> HIDE DEF q
  <2>1. b * (- q - 1) >= 0 /\ b * (- q - 1) = - (b * q) - b
    BY <1>1
  <2> QED BY <1>1, <2>1
<1> QED BY <1>1, <1>2

\* Nothing is left of a group of one, nor of a single group.
LEMMA WholeDivision ==
  ASSUME NEW n \in Nat
  PROVE  n % 1 = 0 /\ CeilDiv(n, 1) = n /\ (n > 0 => n % n = 0)
<1>1. n % 1 = 0 /\ n \div 1 = n
  OBVIOUS
<1>2. CeilDiv(n, 1) = n
  BY <1>1 DEF CeilDiv
<1>3. n > 0 => n % n = 0
  OBVIOUS
<1> QED BY <1>1, <1>2, <1>3

\* The dimensions of a call; nothing is left of a group of one, nor of a single group.
LEMMA CallTypes ==
  ASSUME NEW c, Callable(c)
  PROVE  /\ c.fn \in Wrappers
         /\ {c.batch, c.heads, c.kv_heads, c.seq_q, c.seq_kv, c.max_seqlen_q, c.total_q} \subseteq Nat
         /\ {c.total_kv, c.q, c.k, c.v, c.o, c.offset, c.window, c.page_size} \subseteq Nat
         /\ {c.num_splits, c.kv_stride, c.block_size} \subseteq Nat
         /\ c.page_size > 0
         /\ c.fn \in UncheckedFns => Divides(c) /\ c.num_splits > 0
         /\ c.heads % 1 = 0 /\ (c.heads > 0 => c.heads % c.heads = 0)
         /\ CeilDiv(1, 1) = 1 /\ CeilDiv(c.seq_q, 1) = c.seq_q
BY WholeDivision DEF Callable, Dimensions

\* The tiles of all kernels have rows.
LEMMA TileRows == {Tile, 2 * Tile, Tile \div 2, Tile \div 4} \subseteq Nat \ {0}
<1>1. Tile \in Nat \ {0} /\ Tile % 4 = 0
  BY AttnOK
<1>2. Tile \div 4 \in Nat /\ 4 * (Tile \div 4) = Tile /\ Tile \div 2 \in Nat /\ 2 * (Tile \div 2) >= Tile - 1
  BY <1>1
<1> QED BY <1>1, <1>2

\* V^T has a row of so many tokens.
LEMMA VtStride ==
  ASSUME NEW n \in Nat
  PROVE  fp8_vt_row_stride(n) \in Nat
<1>1. CASE QwenVtPad # {}
  <2>1. (CHOOSE pad \in QwenVtPad : TRUE) \in Nat
    BY <1>1, AttnOK
  <2> QED BY <1>1, <2>1 DEF fp8_vt_row_stride
<1>2. CASE QwenVtPad = {}
  BY <1>2, AttnOK DEF fp8_vt_row_stride
<1> QED BY <1>1, <1>2

\* A kernel whose threads copy the tiles, with one head of K to each head of Q.
LEMMA PlainShaped ==
  ASSUME NEW c, Callable(c), c.batch > 0, c.heads > 0,
         NEW br \in Nat \ {0}, NEW bc \in Nat \ {0}, NEW mask \in {"none", "causal"},
         Plain(c, br, bc, mask).grid_x > 0
  PROVE  Shaped(Plain(c, br, bc, mask), c)
BY CallTypes, CeilDivNat, AttnOK DEF Shaped, Typed, Tiled, Grouped, Placed, Masked, QTiles, Ragged, Plain

\* The wrappers of dense layouts.
LEMMA DenseSound ==
  ASSUME NEW c, Callable(c), c.fn \in DenseFns, Chosen(c).accepted = TRUE
  PROVE  Sound(Chosen(c), c)
<1>1. CASE c.fn \in {"flash_attn_bf16_d128", "flash_attn_fp8_d128"}
  <2>1. PICK L : L = V1(c, "none")
    BY SMTT(30)
  <2>2. /\ Chosen(c) = L /\ c.batch > 0 /\ c.heads > 0 /\ L.grid_x > 0
        /\ Valid(c)
    BY <1>1, <2>1, Zenon DEF Chosen, flash_attn_bf16_d128, flash_attn_fp8_d128, Launch, Refused
  <2>3. Shaped(L, c)
    BY <2>1, <2>2, PlainShaped, TileRows DEF V1
  <2>4. Roomy(L, c)
    BY <2>1, <2>2, CallTypes DEF Roomy, Ragged, V1, Plain, validate_attn_dims,
       validate_attn_bf16_bufs, Valid, Buffers, KvRows, QRows
  <2> QED BY <2>2, <2>3, <2>4 DEF Sound
<1>2. CASE c.fn \in {"flash_attn_bf16_d128_causal", "flash_attn_fp8_d128_causal"}
  <2>1. PICK L : L = V1(c, "causal")
    OBVIOUS
  <2>2. /\ Chosen(c) = L /\ c.batch > 0 /\ c.heads > 0 /\ L.grid_x > 0
        /\ Valid(c)
    BY <1>2, <2>1, Zenon DEF Chosen, flash_attn_bf16_d128_causal, flash_attn_fp8_d128_causal, Launch,
       Refused
  <2>3. Shaped(L, c)
    BY <2>1, <2>2, PlainShaped, TileRows DEF V1
  <2>4. Roomy(L, c)
    BY <2>1, <2>2, CallTypes DEF Roomy, Ragged, V1, Plain, validate_attn_dims,
       validate_attn_bf16_bufs, Valid, Buffers, KvRows, QRows
  <2> QED BY <2>2, <2>3, <2>4 DEF Sound
<1>3. CASE c.fn \in {"flash_attn_bf16_v3_d128",
                      "flash_attn_bf16_v22_db",
                      "flash_attn_bf16_v3_d256"}
  <2>1. PICK L : L = V3(c, "none")
    OBVIOUS
  <2>2. /\ Chosen(c) = L /\ c.batch > 0 /\ c.heads > 0 /\ L.grid_x > 0
        /\ Valid(c)
    BY <1>3, <2>1, Zenon DEF Chosen, flash_attn_bf16_v3_d128, flash_attn_bf16_v22_db,
       flash_attn_bf16_v3_d256, Launch, Refused
  <2>3. Shaped(L, c)
    BY <2>1, <2>2, PlainShaped, TileRows DEF V3
  <2>4. Roomy(L, c)
    BY <2>1, <2>2, CallTypes DEF Roomy, Ragged, V3, Plain, validate_attn_dims,
       validate_attn_bf16_bufs, Valid, Buffers, KvRows, QRows
  <2> QED BY <2>2, <2>3, <2>4 DEF Sound
<1>4. CASE c.fn \in {"flash_attn_bf16_v3_d128_causal", "flash_attn_bf16_v3_d256_causal"}
  <2>1. PICK L : L = V3(c, "causal")
    OBVIOUS
  <2>2. /\ Chosen(c) = L /\ c.batch > 0 /\ c.heads > 0 /\ L.grid_x > 0
        /\ Valid(c)
    BY <1>4, <2>1, Zenon DEF Chosen, flash_attn_bf16_v3_d128_causal, flash_attn_bf16_v3_d256_causal,
       Launch, Refused
  <2>3. Shaped(L, c)
    BY <2>1, <2>2, PlainShaped, TileRows DEF V3
  <2>4. Roomy(L, c)
    BY <2>1, <2>2, CallTypes DEF Roomy, Ragged, V3, Plain, validate_attn_dims,
       validate_attn_bf16_bufs, Valid, Buffers, KvRows, QRows
  <2> QED BY <2>2, <2>3, <2>4 DEF Sound
<1>5. CASE c.fn = "flash_attn_bf16_v18_4warp"
  <2>1. PICK L : L = Plain(c, 2 * Tile, 2 * Tile, "none")
    OBVIOUS
  <2>2. /\ Chosen(c) = L /\ c.batch > 0 /\ c.heads > 0 /\ L.grid_x > 0
        /\ TRUE
    BY <1>5, <2>1 DEF Chosen, flash_attn_bf16_v18_4warp, Launch, Refused
  <2>3. Shaped(L, c)
    BY <2>1, <2>2, PlainShaped, TileRows
  <2> QED BY <1>5, <2>2, <2>3 DEF Sound, Measuring
<1>6. CASE c.fn = "flash_attn_bf16_v17_bc128"
  <2>1. PICK L : L = Plain(c, 2 * Tile, 2 * Tile, "none")
    OBVIOUS
  <2>2. /\ Chosen(c) = L /\ c.batch > 0 /\ c.heads > 0 /\ L.grid_x > 0
        /\ TRUE
    BY <1>6, <2>1 DEF Chosen, flash_attn_bf16_v17_bc128, Launch, Refused
  <2>3. Shaped(L, c)
    BY <2>1, <2>2, PlainShaped, TileRows
  <2> QED BY <1>6, <2>2, <2>3 DEF Sound, Measuring
<1>7. CASE c.fn = "flash_attn_bf16_v3_d256_gqa"
  <2>1. PICK L : L = [Gqa(c, V3(c, "none")) EXCEPT !.pos = "zero"]
    OBVIOUS
  <2>2. /\ Chosen(c) = L /\ c.batch > 0 /\ c.heads > 0 /\ L.grid_x > 0
        /\ GqaDims(c) /\ Buffers(c, c.kv_heads)
    BY <1>7, <2>1 DEF Chosen, flash_attn_bf16_v3_d256_gqa, flash_attn_bf16_v3_d256_gqa_inner,
       Launch, Refused
  <2>3. Shaped(L, c)
    BY <1>7, <2>1, <2>2, CallTypes, CeilDivNat, TileRows, AttnOK DEF Shaped, Typed, Tiled,
       Grouped, Placed, Masked, QTiles, Ragged, Gqa, V3, Plain, GqaDims, Divides,
       validate_attn_dims, Valid
  <2>4. Roomy(L, c)
    BY <2>1, <2>2, CallTypes DEF Roomy, Ragged, Gqa, V3, Plain, GqaDims, Divides,
       validate_attn_dims, validate_attn_bf16_bufs, Valid, Buffers, KvRows, QRows
  <2> QED BY <2>2, <2>3, <2>4 DEF Sound
<1>8. CASE c.fn = "flash_attn_bf16_v3_d256_gqa_causal"
  <2>1. PICK L : L = [Gqa(c, V3(c, "causal")) EXCEPT !.pos = "zero"]
    OBVIOUS
  <2>2. /\ Chosen(c) = L /\ c.batch > 0 /\ c.heads > 0 /\ L.grid_x > 0
        /\ GqaDims(c) /\ Buffers(c, c.kv_heads)
    BY <1>8, <2>1 DEF Chosen, flash_attn_bf16_v3_d256_gqa_causal,
       flash_attn_bf16_v3_d256_gqa_inner, Launch, Refused
  <2>3. Shaped(L, c)
    BY <1>8, <2>1, <2>2, CallTypes, CeilDivNat, TileRows, AttnOK DEF Shaped, Typed, Tiled,
       Grouped, Placed, Masked, QTiles, Ragged, Gqa, V3, Plain, GqaDims, Divides,
       validate_attn_dims, Valid
  <2>4. Roomy(L, c)
    BY <2>1, <2>2, CallTypes DEF Roomy, Ragged, Gqa, V3, Plain, GqaDims, Divides,
       validate_attn_dims, validate_attn_bf16_bufs, Valid, Buffers, KvRows, QRows
  <2> QED BY <2>2, <2>3, <2>4 DEF Sound
<1>9. CASE c.fn = "flash_attn_bf16_v3_d256_gqa_causal_with_offset"
  <2>1. PICK L : L = [Gqa(c, V3(c, "causal")) EXCEPT !.pos = "host"]
    OBVIOUS
  <2>2. /\ Chosen(c) = L /\ c.batch > 0 /\ c.heads > 0 /\ L.grid_x > 0
        /\ GqaDims(c) /\ Buffers(c, c.kv_heads)
    BY <1>9, <2>1 DEF Chosen, flash_attn_bf16_v3_d256_gqa_causal_with_offset,
       flash_attn_bf16_v3_d256_gqa_inner, Launch, Refused
  <2>3. Shaped(L, c)
    BY <1>9, <2>1, <2>2, CallTypes, CeilDivNat, TileRows, AttnOK DEF Shaped, Typed, Tiled,
       Grouped, Placed, Masked, QTiles, Ragged, Gqa, V3, Plain, GqaDims, Divides,
       validate_attn_dims, Valid
  <2>4. Roomy(L, c)
    BY <2>1, <2>2, CallTypes DEF Roomy, Ragged, Gqa, V3, Plain, GqaDims, Divides,
       validate_attn_dims, validate_attn_bf16_bufs, Valid, Buffers, KvRows, QRows
  <2> QED BY <2>2, <2>3, <2>4 DEF Sound
<1>10. CASE c.fn \in {"flash_attn_bf16_v3_d256_gqa_causal_pos_dev",
                      "flash_attn_bf16_fp8kv_v3_d256_gqa_causal_pos_dev"}
  <2>1. PICK L : L = [Gqa(c, V3(c, "causal")) EXCEPT !.pos = "device"]
    OBVIOUS
  <2>2. /\ Chosen(c) = L /\ c.batch > 0 /\ c.heads > 0 /\ L.grid_x > 0
        /\ GqaDims(c) /\ Buffers(c, c.kv_heads)
    BY <1>10, <2>1, Zenon DEF Chosen, flash_attn_bf16_v3_d256_gqa_causal_pos_dev,
       flash_attn_bf16_fp8kv_v3_d256_gqa_causal_pos_dev, Launch, Refused
  <2>3. Shaped(L, c)
    BY <1>10, <2>1, <2>2, CallTypes, CeilDivNat, TileRows, AttnOK DEF Shaped, Typed, Tiled,
       Grouped, Placed, Masked, QTiles, Ragged, Gqa, V3, Plain, GqaDims, Divides,
       validate_attn_dims, Valid
  <2>4. Roomy(L, c)
    BY <2>1, <2>2, CallTypes DEF Roomy, Ragged, Gqa, V3, Plain, GqaDims, Divides,
       validate_attn_dims, validate_attn_bf16_bufs, Valid, Buffers, KvRows, QRows
  <2> QED BY <2>2, <2>3, <2>4 DEF Sound
<1>11. CASE c.fn \in {"flash_attn_bf16_v3_paged_kv", "flash_attn_fp8_v3_paged_kv"}
  <2>1. PICK L : L = Paged(c, V3(c, "none"))
    OBVIOUS
  <2>2. /\ Chosen(c) = L /\ c.batch > 0 /\ c.heads > 0 /\ L.grid_x > 0
        /\ GqaDims(c)
    BY <1>11, <2>1, Zenon DEF Chosen, flash_attn_bf16_v3_paged_kv, flash_attn_fp8_v3_paged_kv, Launch,
       Refused
  <2>3. Shaped(L, c)
    BY <1>11, <2>1, <2>2, CallTypes, CeilDivNat, TileRows, AttnOK DEF Shaped, Typed, Tiled,
       Grouped, Placed, Masked, QTiles, Ragged, Paged, Gqa, V3, Plain, GqaDims, Divides,
       validate_attn_dims
  <2> QED BY <1>11, <2>2, <2>3 DEF Sound, Measuring
<1>12. CASE c.fn = "flash_attn_bf16_v3_paged_kv_causal"
  <2>1. PICK L : L = Paged(c, V3(c, "causal"))
    OBVIOUS
  <2>2. /\ Chosen(c) = L /\ c.batch > 0 /\ c.heads > 0 /\ L.grid_x > 0
        /\ GqaDims(c)
    BY <1>12, <2>1 DEF Chosen, flash_attn_bf16_v3_paged_kv_causal, Launch, Refused
  <2>3. Shaped(L, c)
    BY <1>12, <2>1, <2>2, CallTypes, CeilDivNat, TileRows, AttnOK DEF Shaped, Typed, Tiled,
       Grouped, Placed, Masked, QTiles, Ragged, Paged, Gqa, V3, Plain, GqaDims, Divides,
       validate_attn_dims
  <2> QED BY <1>12, <2>2, <2>3 DEF Sound, Measuring
<1>13. CASE c.fn = "flash_attn_fp8_v3_paged_kv_causal"
  <2>1. PICK L : L = Paged(c, V3(c, "causal"))
    OBVIOUS
  <2>2. /\ Chosen(c) = L /\ c.batch > 0 /\ c.heads > 0 /\ L.grid_x > 0
        /\ TRUE
    BY <1>13, <2>1 DEF Chosen, flash_attn_fp8_v3_paged_kv_causal, Launch, Refused
  <2>3. Shaped(L, c)
    BY <1>13, <2>1, <2>2, CallTypes, CeilDivNat, TileRows, AttnOK DEF Shaped, Typed, Tiled,
       Grouped, Placed, Masked, QTiles, Ragged, UncheckedFns, Paged, Gqa, V3, Plain, GqaDims,
       Divides, validate_attn_dims
  <2> QED BY <1>13, <2>2, <2>3 DEF Sound, Measuring
<1>14. CASE c.fn \in {"flash_attn_bf16_v3_split_kv", "ring_attention_bf16"}
  <2>1. PICK L : L = Split(V3(c, "none"))
    BY SMTT(30)
  <2>2. /\ Chosen(c) = L /\ c.batch > 0 /\ c.heads > 0 /\ L.grid_x > 0
        /\ TRUE
    BY <1>14, <2>1, Zenon DEF Chosen, flash_attn_bf16_v3_split_kv, ring_attention_bf16, Launch, Refused
  <2>3. Shaped(L, c)
    BY <1>14, <2>1, <2>2, CallTypes, CeilDivNat, TileRows, AttnOK DEF Shaped, Typed, Tiled,
       Grouped, Placed, Masked, QTiles, Ragged, UncheckedFns, Split, V3, Plain
  <2> QED BY <1>14, <2>2, <2>3 DEF Sound, Measuring
<1>15. CASE c.fn = "flash_attn_bf16_v3_split_kv_causal"
  <2>1. PICK L : L = Split(V3(c, "causal"))
    OBVIOUS
  <2>2. /\ Chosen(c) = L /\ c.batch > 0 /\ c.heads > 0 /\ L.grid_x > 0
        /\ TRUE
    BY <1>15, <2>1 DEF Chosen, flash_attn_bf16_v3_split_kv_causal, Launch, Refused
  <2>3. Shaped(L, c)
    BY <1>15, <2>1, <2>2, CallTypes, CeilDivNat, TileRows, AttnOK DEF Shaped, Typed, Tiled,
       Grouped, Placed, Masked, QTiles, Ragged, UncheckedFns, Split, V3, Plain
  <2> QED BY <1>15, <2>2, <2>3 DEF Sound, Measuring
<1>16. CASE c.fn \in {"flash_attn_bf16_v3_split_paged_kv", "flash_attn_fp8_v3_split_paged_kv"}
  <2>1. PICK L : L = Split(Paged(c, V3(c, "none")))
    OBVIOUS
  <2>2. /\ Chosen(c) = L /\ c.batch > 0 /\ c.heads > 0 /\ L.grid_x > 0
        /\ TRUE
    BY <1>16, <2>1, Zenon DEF Chosen, flash_attn_bf16_v3_split_paged_kv,
       flash_attn_fp8_v3_split_paged_kv, Launch, Refused
  <2>3. Shaped(L, c)
    BY <1>16, <2>1, <2>2, CallTypes, CeilDivNat, TileRows, AttnOK DEF Shaped, Typed, Tiled,
       Grouped, Placed, Masked, QTiles, Ragged, UncheckedFns, Split, Paged, Gqa, V3, Plain,
       GqaDims, Divides, validate_attn_dims
  <2> QED BY <1>16, <2>2, <2>3 DEF Sound, Measuring
<1>17. CASE c.fn \in {"flash_attn_bf16_v3_split_paged_kv_causal",
                      "flash_attn_fp8_v3_split_paged_kv_causal"}
  <2>1. PICK L : L = Split(Paged(c, V3(c, "causal")))
    OBVIOUS
  <2>2. /\ Chosen(c) = L /\ c.batch > 0 /\ c.heads > 0 /\ L.grid_x > 0
        /\ TRUE
    BY <1>17, <2>1, Zenon DEF Chosen, flash_attn_bf16_v3_split_paged_kv_causal,
       flash_attn_fp8_v3_split_paged_kv_causal, Launch, Refused
  <2>3. Shaped(L, c)
    BY <1>17, <2>1, <2>2, CallTypes, CeilDivNat, TileRows, AttnOK DEF Shaped, Typed, Tiled,
       Grouped, Placed, Masked, QTiles, Ragged, UncheckedFns, Split, Paged, Gqa, V3, Plain,
       GqaDims, Divides, validate_attn_dims
  <2> QED BY <1>17, <2>2, <2>3 DEF Sound, Measuring
<1>18. CASE c.fn \in {"flash_attn_bf16_v8_tma_db_d128",
                      "flash_attn_bf16_v11_fused_scale",
                      "flash_attn_bf16_v21_streaming_p",
                      "flash_attn_fp8_v11_tma",
                      "flash_attn_fp8_v12a_transpose"}
  <2>1. PICK L : L = TmaKernel(c, Tile, "none")
    OBVIOUS
  <2>2. /\ Chosen(c) = L /\ c.batch > 0 /\ c.heads > 0 /\ L.grid_x > 0
        /\ Valid(c)
    BY <1>18, <2>1, Zenon DEF Chosen, flash_attn_bf16_v8_tma_db_d128, flash_attn_bf16_v11_fused_scale,
       flash_attn_bf16_v21_streaming_p, flash_attn_fp8_v11_tma, flash_attn_fp8_v12a_transpose,
       Launch, Refused
  <2>3. Shaped(L, c)
    BY <1>18, <2>1, <2>2, CallTypes, CeilDivNat, TileRows, AttnOK DEF Shaped, Typed, Tiled,
       Grouped, Placed, Masked, QTiles, Ragged, TmaKernel, Plain, validate_attn_dims, Valid
  <2>4. Roomy(L, c)
    BY <2>1, <2>2, CallTypes DEF Roomy, Ragged, TmaKernel, Plain, validate_attn_dims,
       validate_attn_bf16_bufs, Valid, Buffers, KvRows, QRows
  <2> QED BY <2>2, <2>3, <2>4 DEF Sound
<1>19. CASE c.fn = "flash_attn_bf16_v13_bc32_d128"
  <2>1. PICK L : L = TmaKernel(c, Tile \div 2, "none")
    OBVIOUS
  <2>2. /\ Chosen(c) = L /\ c.batch > 0 /\ c.heads > 0 /\ L.grid_x > 0
        /\ Valid(c)
    BY <1>19, <2>1 DEF Chosen, flash_attn_bf16_v13_bc32_d128, Launch, Refused
  <2>3. Shaped(L, c)
    BY <1>19, <2>1, <2>2, CallTypes, CeilDivNat, TileRows, AttnOK DEF Shaped, Typed, Tiled,
       Grouped, Placed, Masked, QTiles, Ragged, TmaKernel, Plain, validate_attn_dims, Valid
  <2>4. Roomy(L, c)
    BY <2>1, <2>2, CallTypes DEF Roomy, Ragged, TmaKernel, Plain, validate_attn_dims,
       validate_attn_bf16_bufs, Valid, Buffers, KvRows, QRows
  <2> QED BY <2>2, <2>3, <2>4 DEF Sound
<1>20. CASE c.fn = "flash_attn_bf16_v20_tma_bc128"
  <2>1. PICK L : L = TmaKernel(c, 2 * Tile, "none")
    OBVIOUS
  <2>2. /\ Chosen(c) = L /\ c.batch > 0 /\ c.heads > 0 /\ L.grid_x > 0
        /\ Valid(c)
    BY <1>20, <2>1 DEF Chosen, flash_attn_bf16_v20_tma_bc128, Launch, Refused
  <2>3. Shaped(L, c)
    BY <1>20, <2>1, <2>2, CallTypes, CeilDivNat, TileRows, AttnOK DEF Shaped, Typed, Tiled,
       Grouped, Placed, Masked, QTiles, Ragged, TmaKernel, Plain, validate_attn_dims, Valid
  <2>4. Roomy(L, c)
    BY <2>1, <2>2, CallTypes DEF Roomy, Ragged, TmaKernel, Plain, validate_attn_dims,
       validate_attn_bf16_bufs, Valid, Buffers, KvRows, QRows
  <2> QED BY <2>2, <2>3, <2>4 DEF Sound
<1>21. CASE c.fn \in {"flash_attn_bf16_v11_causal",
                      "flash_attn_bf16_v21_causal",
                      "flash_attn_bf16_v21_softcap_causal"}
  <2>1. PICK L : L = TmaKernel(c, Tile, "diagonal")
    OBVIOUS
  <2>2. /\ Chosen(c) = L /\ c.batch > 0 /\ c.heads > 0 /\ L.grid_x > 0
        /\ Valid(c)
    BY <1>21, <2>1, Zenon DEF Chosen, flash_attn_bf16_v11_causal, flash_attn_bf16_v21_causal,
       flash_attn_bf16_v21_softcap_causal, v21_scalar_mask_dispatch, Launch, Refused
  <2>3. Shaped(L, c)
    BY <1>21, <2>1, <2>2, CallTypes, CeilDivNat, TileRows, AttnOK DEF Shaped, Typed, Tiled,
       Grouped, Placed, Masked, QTiles, Ragged, TmaKernel, Plain, validate_attn_dims, Valid
  <2>4. Roomy(L, c)
    BY <2>1, <2>2, CallTypes DEF Roomy, Ragged, TmaKernel, Plain, validate_attn_dims,
       validate_attn_bf16_bufs, Valid, Buffers, KvRows, QRows
  <2> QED BY <2>2, <2>3, <2>4 DEF Sound
<1>22. CASE c.fn \in {"flash_attn_bf16_v21_swa", "flash_attn_bf16_v21_swa_softcap"}
  <2>1. PICK L : L = TmaKernel(c, Tile, "window")
    OBVIOUS
  <2>2. /\ Chosen(c) = L /\ c.batch > 0 /\ c.heads > 0 /\ L.grid_x > 0
        /\ Valid(c)
    BY <1>22, <2>1, Zenon DEF Chosen, flash_attn_bf16_v21_swa, flash_attn_bf16_v21_swa_softcap,
       v21_scalar_mask_dispatch, Launch, Refused
  <2>3. Shaped(L, c)
    BY <1>22, <2>1, <2>2, CallTypes, CeilDivNat, TileRows, AttnOK DEF Shaped, Typed, Tiled,
       Grouped, Placed, Masked, QTiles, Ragged, TmaKernel, Plain, validate_attn_dims, Valid
  <2>4. Roomy(L, c)
    BY <2>1, <2>2, CallTypes DEF Roomy, Ragged, TmaKernel, Plain, validate_attn_dims,
       validate_attn_bf16_bufs, Valid, Buffers, KvRows, QRows
  <2> QED BY <2>2, <2>3, <2>4 DEF Sound
<1>23. CASE c.fn = "flash_attn_bf16_v12_persistent"
  <2>1. PICK L : L = [TmaKernel(c, Tile, "none") EXCEPT
                 !.grid_x = IF QTiles(c.seq_q, Tile) < NumSMs THEN QTiles(c.seq_q, Tile) ELSE NumSMs,
                 !.step = IF QTiles(c.seq_q, Tile) < NumSMs THEN QTiles(c.seq_q, Tile) ELSE NumSMs]
    OBVIOUS
  <2>2. /\ Chosen(c) = L /\ c.batch > 0 /\ c.heads > 0 /\ L.grid_x > 0
        /\ Valid(c)
    BY <1>23, <2>1 DEF Chosen, flash_attn_bf16_v12_persistent, Launch, Refused
  <2>3. Shaped(L, c)
    BY <1>23, <2>1, <2>2, CallTypes, CeilDivNat, TileRows, AttnOK DEF Shaped, Typed, Tiled,
       Grouped, Placed, Masked, QTiles, Ragged, TmaKernel, Plain, validate_attn_dims, Valid
  <2>4. Roomy(L, c)
    BY <2>1, <2>2, CallTypes DEF Roomy, Ragged, TmaKernel, Plain, validate_attn_dims,
       validate_attn_bf16_bufs, Valid, Buffers, KvRows, QRows
  <2> QED BY <2>2, <2>3, <2>4 DEF Sound
<1>24. CASE c.fn \in {"flash_attn_bf16_v11_gqa", "flash_attn_bf16_v21_gqa"}
  <2>1. PICK L : L = Gqa(c, TmaKernel(c, Tile, "none"))
    OBVIOUS
  <2>2. /\ Chosen(c) = L /\ c.batch > 0 /\ c.heads > 0 /\ L.grid_x > 0
        /\ GqaDims(c)
    BY <1>24, <2>1, Zenon DEF Chosen, flash_attn_bf16_v11_gqa, flash_attn_bf16_v21_gqa, Launch, Refused
  <2>3. Shaped(L, c)
    BY <1>24, <2>1, <2>2, CallTypes, CeilDivNat, TileRows, AttnOK DEF Shaped, Typed, Tiled,
       Grouped, Placed, Masked, QTiles, Ragged, Gqa, TmaKernel, Plain, GqaDims, Divides,
       validate_attn_dims
  <2> QED BY <1>24, <2>2, <2>3 DEF Sound, Measuring
<1>25. CASE c.fn \in {"flash_attn_bf16_v11_gqa_causal", "flash_attn_bf16_v21_gqa_causal"}
  <2>1. PICK L : L = Gqa(c, TmaKernel(c, Tile, "diagonal"))
    OBVIOUS
  <2>2. /\ Chosen(c) = L /\ c.batch > 0 /\ c.heads > 0 /\ L.grid_x > 0
        /\ GqaDims(c)
    BY <1>25, <2>1, Zenon DEF Chosen, flash_attn_bf16_v11_gqa_causal, flash_attn_bf16_v21_gqa_causal,
       Launch, Refused
  <2>3. Shaped(L, c)
    BY <1>25, <2>1, <2>2, CallTypes, CeilDivNat, TileRows, AttnOK DEF Shaped, Typed, Tiled,
       Grouped, Placed, Masked, QTiles, Ragged, Gqa, TmaKernel, Plain, GqaDims, Divides,
       validate_attn_dims
  <2> QED BY <1>25, <2>2, <2>3 DEF Sound, Measuring
<1>26. CASE c.fn = "flash_attn_fp8_v12c_vt_gqa"
  <2>1. PICK L : L = Gqa(c, VT(TmaKernel(c, Tile, "none"), KvRows(c, c.kv_heads)))
    OBVIOUS
  <2>2. /\ Chosen(c) = L /\ c.batch > 0 /\ c.heads > 0 /\ L.grid_x > 0
        /\ GqaDims(c)
    BY <1>26, <2>1 DEF Chosen, flash_attn_fp8_v12c_vt_gqa, Launch, Refused
  <2>3. Shaped(L, c)
    BY <1>26, <2>1, <2>2, CallTypes, CeilDivNat, TileRows, AttnOK DEF Shaped, Typed, Tiled,
       Grouped, Placed, Masked, QTiles, Ragged, VT, KvRows, Gqa, TmaKernel, Plain, GqaDims,
       Divides, validate_attn_dims
  <2> QED BY <1>26, <2>2, <2>3 DEF Sound, Measuring
<1>27. CASE c.fn = "flash_attn_fp8_v12c_vt_gqa_causal"
  <2>1. PICK L : L = Gqa(c, VT(TmaKernel(c, Tile, "diagonal"), KvRows(c, c.kv_heads)))
    OBVIOUS
  <2>2. /\ Chosen(c) = L /\ c.batch > 0 /\ c.heads > 0 /\ L.grid_x > 0
        /\ GqaDims(c)
    BY <1>27, <2>1 DEF Chosen, flash_attn_fp8_v12c_vt_gqa_causal, Launch, Refused
  <2>3. Shaped(L, c)
    BY <1>27, <2>1, <2>2, CallTypes, CeilDivNat, TileRows, AttnOK DEF Shaped, Typed, Tiled,
       Grouped, Placed, Masked, QTiles, Ragged, VT, KvRows, Gqa, TmaKernel, Plain, GqaDims,
       Divides, validate_attn_dims
  <2> QED BY <1>27, <2>2, <2>3 DEF Sound, Measuring
<1>28. CASE c.fn = "flash_attn_fp8_v12c_vt"
  <2>1. PICK L : L = VT(TmaKernel(c, Tile, "none"), fp8_vt_row_stride(KvRows(c, c.heads)))
    OBVIOUS
  <2>2. /\ Chosen(c) = L /\ c.batch > 0 /\ c.heads > 0 /\ L.grid_x > 0
        /\ Valid(c) /\ c.v >= fp8_vt_row_stride(KvRows(c, c.heads))
    BY <1>28, <2>1 DEF Chosen, flash_attn_fp8_v12c_vt, Launch, Refused
  <2>3. Shaped(L, c)
    BY <1>28, <2>1, <2>2, CallTypes, CeilDivNat, TileRows, AttnOK, VtStride DEF Shaped, Typed,
       Tiled, Grouped, Placed, Masked, QTiles, Ragged, VT, TmaKernel, Plain, validate_attn_dims,
       Valid, KvRows
  <2>4. Roomy(L, c)
    BY <2>1, <2>2, CallTypes, VtStride DEF Roomy, Ragged, VT, TmaKernel, Plain,
       validate_attn_dims, validate_attn_bf16_bufs, Valid, Buffers, KvRows, QRows
  <2> QED BY <2>2, <2>3, <2>4 DEF Sound
<1>29. CASE c.fn = "flash_attn_fp8_v12c_vt_causal"
  <2>1. PICK L : L = VT(TmaKernel(c, Tile, "diagonal"), KvRows(c, c.heads))
    OBVIOUS
  <2>2. /\ Chosen(c) = L /\ c.batch > 0 /\ c.heads > 0 /\ L.grid_x > 0
        /\ Valid(c)
    BY <1>29, <2>1 DEF Chosen, flash_attn_fp8_v12c_vt_causal, Launch, Refused
  <2>3. Shaped(L, c)
    BY <1>29, <2>1, <2>2, CallTypes, CeilDivNat, TileRows, AttnOK DEF Shaped, Typed, Tiled,
       Grouped, Placed, Masked, QTiles, Ragged, VT, TmaKernel, Plain, validate_attn_dims, Valid,
       KvRows
  <2>4. Roomy(L, c)
    BY <2>1, <2>2, CallTypes DEF Roomy, Ragged, VT, TmaKernel, Plain, validate_attn_dims,
       validate_attn_bf16_bufs, Valid, Buffers, KvRows, QRows
  <2> QED BY <2>2, <2>3, <2>4 DEF Sound
<1> QED BY <1>1, <1>2, <1>3, <1>4, <1>5, <1>6, <1>7, <1>8, <1>9, <1>10, <1>11, <1>12, <1>13, <1>14,
   <1>15, <1>16, <1>17, <1>18, <1>19, <1>20, <1>21, <1>22, <1>23, <1>24, <1>25, <1>26, <1>27,
   <1>28, <1>29 DEF DenseFns

\* Those of sequences one behind the other.
LEMMA VarlenSound ==
  ASSUME NEW c, Callable(c), c.fn \in VarlenFns, Chosen(c).accepted = TRUE
  PROVE  Sound(Chosen(c), c)
<1>1. CASE c.fn = "flash_attn_bf16_varlen_d128"
  <2>1. PICK L : L = [Varlen(c, V1(c, "none")) EXCEPT !.layout = "packed"]
    OBVIOUS
  <2>2. /\ Chosen(c) = L /\ c.batch > 0 /\ c.heads > 0 /\ L.grid_x > 0
        /\ VarlenDims(c)
    BY <1>1, <2>1 DEF Chosen, flash_attn_bf16_varlen_d128, Launch, Refused
  <2>3. Shaped(L, c)
    BY <1>1, <2>1, <2>2, CallTypes, CeilDivNat, TileRows, AttnOK DEF Shaped, Typed, Tiled,
       Grouped, Placed, Masked, QTiles, Ragged, VarlenFns, Varlen, V1, Plain, VarlenDims
  <2> QED BY <1>1, <2>2, <2>3 DEF Sound, Measuring
<1>2. CASE c.fn = "flash_attn_bf16_v11_varlen"
  <2>1. PICK L : L = Varlen(c, TmaKernel(c, Tile, "none"))
    OBVIOUS
  <2>2. /\ Chosen(c) = L /\ c.batch > 0 /\ c.heads > 0 /\ L.grid_x > 0
        /\ VarlenTotals(c)
    BY <1>2, <2>1 DEF Chosen, flash_attn_bf16_v11_varlen, Launch, Refused
  <2>3. Shaped(L, c)
    BY <1>2, <2>1, <2>2, CallTypes, CeilDivNat, TileRows, AttnOK DEF Shaped, Typed, Tiled,
       Grouped, Placed, Masked, QTiles, Ragged, VarlenFns, Varlen, TmaKernel, Plain,
       VarlenTotals, VarlenDims
  <2> QED BY <1>2, <2>2, <2>3 DEF Sound, Measuring
<1>3. CASE c.fn \in {"flash_attn_bf16_v11_varlen_gqa", "flash_attn_bf16_v21_varlen_gqa"}
  <2>1. PICK L : L = Gqa(c, Varlen(c, TmaKernel(c, Tile, "none")))
    BY SMTT(30)
  <2>2. /\ Chosen(c) = L /\ c.batch > 0 /\ c.heads > 0 /\ L.grid_x > 0
        /\ VarlenTotals(c) /\ Divides(c)
    BY <1>3, <2>1, Zenon DEF Chosen, flash_attn_bf16_v11_varlen_gqa, flash_attn_bf16_v21_varlen_gqa,
       v21_varlen_dispatch, Launch, Refused
  <2>3. Shaped(L, c)
    BY <1>3, <2>1, <2>2, CallTypes, CeilDivNat, TileRows, AttnOK DEF Shaped, Typed, Tiled,
       Grouped, Placed, Masked, QTiles, Ragged, VarlenFns, Gqa, Varlen, TmaKernel, Plain,
       VarlenTotals, VarlenDims, Divides
  <2> QED BY <1>3, <2>2, <2>3 DEF Sound, Measuring
<1>4. CASE c.fn = "flash_attn_bf16_v21_varlen"
  <2>1. PICK L : L = Gqa([c EXCEPT !.kv_heads = c.heads],
                          Varlen([c EXCEPT !.kv_heads = c.heads],
                                 TmaKernel([c EXCEPT !.kv_heads = c.heads], Tile, "none")))
    OBVIOUS
  <2>2. /\ Chosen(c) = L /\ c.batch > 0 /\ c.heads > 0 /\ L.grid_x > 0
        /\ VarlenTotals([c EXCEPT !.kv_heads = c.heads])
    BY <1>4, <2>1 DEF Chosen, flash_attn_bf16_v21_varlen, v21_varlen_dispatch, Launch, Refused
  <2>3. Shaped(L, c)
    BY <1>4, <2>1, <2>2, CallTypes, CeilDivNat, TileRows, AttnOK DEF Shaped, Typed, Tiled,
       Grouped, Placed, Masked, QTiles, Ragged, VarlenFns, Gqa, Varlen, TmaKernel, Plain,
       VarlenTotals, VarlenDims
  <2> QED BY <1>4, <2>2, <2>3 DEF Sound, Measuring
<1>5. CASE c.fn = "flash_attn_fp8_v12c_vt_varlen"
  <2>1. PICK L : L = Varlen(c, VT(TmaKernel(c, Tile, "none"), c.heads * c.total_kv))
    OBVIOUS
  <2>2. /\ Chosen(c) = L /\ c.batch > 0 /\ c.heads > 0 /\ L.grid_x > 0
        /\ VarlenTotals(c)
    BY <1>5, <2>1 DEF Chosen, flash_attn_fp8_v12c_vt_varlen, Launch, Refused
  <2>3. Shaped(L, c)
    BY <1>5, <2>1, <2>2, CallTypes, CeilDivNat, TileRows, AttnOK DEF Shaped, Typed, Tiled,
       Grouped, Placed, Masked, QTiles, Ragged, VarlenFns, VT, Varlen, TmaKernel, Plain,
       VarlenTotals, VarlenDims
  <2> QED BY <1>5, <2>2, <2>3 DEF Sound, Measuring
<1>6. CASE c.fn = "flash_attn_fp8_v12c_vt_varlen_gqa"
  <2>1. PICK L : L = Gqa(c, Varlen(c, VT(TmaKernel(c, Tile, "none"), c.kv_heads * c.total_kv)))
    OBVIOUS
  <2>2. /\ Chosen(c) = L /\ c.batch > 0 /\ c.heads > 0 /\ L.grid_x > 0
        /\ VarlenTotals(c) /\ Divides(c)
    BY <1>6, <2>1 DEF Chosen, flash_attn_fp8_v12c_vt_varlen_gqa, Launch, Refused
  <2>3. Shaped(L, c)
    BY <1>6, <2>1, <2>2, CallTypes, CeilDivNat, TileRows, AttnOK DEF Shaped, Typed, Tiled,
       Grouped, Placed, Masked, QTiles, Ragged, VarlenFns, Gqa, VT, Varlen, TmaKernel, Plain,
       VarlenTotals, VarlenDims, Divides
  <2> QED BY <1>6, <2>2, <2>3 DEF Sound, Measuring
<1>7. CASE c.fn = "flash_attn_bf16_v11_varlen_causal"
  <2>1. PICK L : L = Varlen(c, TmaKernel(c, Tile, "diagonal"))
    OBVIOUS
  <2>2. /\ Chosen(c) = L /\ c.batch > 0 /\ c.heads > 0 /\ L.grid_x > 0
        /\ VarlenTotals(c)
    BY <1>7, <2>1 DEF Chosen, flash_attn_bf16_v11_varlen_causal, Launch, Refused
  <2>3. Shaped(L, c)
    BY <1>7, <2>1, <2>2, CallTypes, CeilDivNat, TileRows, AttnOK DEF Shaped, Typed, Tiled,
       Grouped, Placed, Masked, QTiles, Ragged, VarlenFns, Varlen, TmaKernel, Plain,
       VarlenTotals, VarlenDims
  <2> QED BY <1>7, <2>2, <2>3 DEF Sound, Measuring
<1>8. CASE c.fn \in {"flash_attn_bf16_v11_varlen_gqa_causal",
                      "flash_attn_bf16_v21_varlen_gqa_causal"}
  <2>1. PICK L : L = Gqa(c, Varlen(c, TmaKernel(c, Tile, "diagonal")))
    BY SMTT(30)
  <2>2. /\ Chosen(c) = L /\ c.batch > 0 /\ c.heads > 0 /\ L.grid_x > 0
        /\ VarlenTotals(c) /\ Divides(c)
    BY <1>8, <2>1, Zenon DEF Chosen, flash_attn_bf16_v11_varlen_gqa_causal,
       flash_attn_bf16_v21_varlen_gqa_causal, v21_varlen_dispatch, Launch, Refused
  <2>3. Shaped(L, c)
    BY <1>8, <2>1, <2>2, CallTypes, CeilDivNat, TileRows, AttnOK DEF Shaped, Typed, Tiled,
       Grouped, Placed, Masked, QTiles, Ragged, VarlenFns, Gqa, Varlen, TmaKernel, Plain,
       VarlenTotals, VarlenDims, Divides
  <2> QED BY <1>8, <2>2, <2>3 DEF Sound, Measuring
<1>9. CASE c.fn = "flash_attn_bf16_v21_varlen_causal"
  <2>1. PICK L : L = Gqa([c EXCEPT !.kv_heads = c.heads],
                          Varlen([c EXCEPT !.kv_heads = c.heads],
                                 TmaKernel([c EXCEPT !.kv_heads = c.heads], Tile, "diagonal")))
    OBVIOUS
  <2>2. /\ Chosen(c) = L /\ c.batch > 0 /\ c.heads > 0 /\ L.grid_x > 0
        /\ VarlenTotals([c EXCEPT !.kv_heads = c.heads])
    BY <1>9, <2>1 DEF Chosen, flash_attn_bf16_v21_varlen_causal, v21_varlen_dispatch, Launch,
       Refused
  <2>3. Shaped(L, c)
    BY <1>9, <2>1, <2>2, CallTypes, CeilDivNat, TileRows, AttnOK DEF Shaped, Typed, Tiled,
       Grouped, Placed, Masked, QTiles, Ragged, VarlenFns, Gqa, Varlen, TmaKernel, Plain,
       VarlenTotals, VarlenDims
  <2> QED BY <1>9, <2>2, <2>3 DEF Sound, Measuring
<1>10. CASE c.fn = "flash_attn_fp8_v12c_vt_varlen_causal"
  <2>1. PICK L : L = Varlen(c, VT(TmaKernel(c, Tile, "diagonal"), c.heads * c.total_kv))
    OBVIOUS
  <2>2. /\ Chosen(c) = L /\ c.batch > 0 /\ c.heads > 0 /\ L.grid_x > 0
        /\ VarlenTotals(c)
    BY <1>10, <2>1 DEF Chosen, flash_attn_fp8_v12c_vt_varlen_causal, Launch, Refused
  <2>3. Shaped(L, c)
    BY <1>10, <2>1, <2>2, CallTypes, CeilDivNat, TileRows, AttnOK DEF Shaped, Typed, Tiled,
       Grouped, Placed, Masked, QTiles, Ragged, VarlenFns, VT, Varlen, TmaKernel, Plain,
       VarlenTotals, VarlenDims
  <2> QED BY <1>10, <2>2, <2>3 DEF Sound, Measuring
<1>11. CASE c.fn = "flash_attn_fp8_v12c_vt_varlen_gqa_causal"
  <2>1. PICK L : L = Gqa(c, Varlen(c, VT(TmaKernel(c, Tile, "diagonal"), c.kv_heads * c.total_kv)))
    OBVIOUS
  <2>2. /\ Chosen(c) = L /\ c.batch > 0 /\ c.heads > 0 /\ L.grid_x > 0
        /\ VarlenTotals(c) /\ Divides(c)
    BY <1>11, <2>1 DEF Chosen, flash_attn_fp8_v12c_vt_varlen_gqa_causal, Launch, Refused
  <2>3. Shaped(L, c)
    BY <1>11, <2>1, <2>2, CallTypes, CeilDivNat, TileRows, AttnOK DEF Shaped, Typed, Tiled,
       Grouped, Placed, Masked, QTiles, Ragged, VarlenFns, Gqa, VT, Varlen, TmaKernel, Plain,
       VarlenTotals, VarlenDims, Divides
  <2> QED BY <1>11, <2>2, <2>3 DEF Sound, Measuring
<1> QED BY <1>1, <1>2, <1>3, <1>4, <1>5, <1>6, <1>7, <1>8, <1>9, <1>10, <1>11 DEF VarlenFns

\* Those that decode against a cache.
LEMMA DecodeSound ==
  ASSUME NEW c, Callable(c), c.fn \in DecodeFns, Chosen(c).accepted = TRUE
  PROVE  Sound(Chosen(c), c)
<1>1. CASE c.fn \in {"flash_attn_bf16_decode_d128_gqa",
                      "flash_attn_bf16_decode_d192_dv128_gqa",
                      "fa_bf16_fp8kv_decode_d128_gqa",
                      "flash_attn_bf16_decode_d512_gqa"}
  <2>1. PICK L : L = DecodeKernel(c, "none", "param")
    BY SMTT(30)
  <2>2. /\ Chosen(c) = L /\ c.batch > 0 /\ c.heads > 0 /\ L.grid_x > 0
        /\ Strided(c)
    BY <1>1, <2>1, Zenon DEF Chosen, flash_attn_bf16_decode_d128_gqa,
       flash_attn_bf16_decode_d192_dv128_gqa, fa_bf16_fp8kv_decode_d128_gqa,
       flash_attn_bf16_decode_d512_gqa, Launch, Refused
  <2>3. Shaped(L, c)
    BY <1>1, <2>1, <2>2, CallTypes, CeilDivNat, AttnOK DEF Shaped, Typed, Tiled, Grouped,
       Placed, Masked, QTiles, Ragged, DecodeKernel, Gqa, Plain, CacheDims, Strided
  <2>4. Roomy(L, c)
    BY <2>1, <2>2, CallTypes DEF Roomy, Ragged, DecodeKernel, Gqa, Plain, CacheDims,
       CacheBuffers, CacheRows, Strided
  <2> QED BY <2>2, <2>3, <2>4 DEF Sound
<1>2. CASE c.fn = "flash_attn_bf16_decode_d256_gqa"
  <2>1. PICK L : L = [DecodeKernel(c, "sliding", "param") EXCEPT !.pos = "host"]
    OBVIOUS
  <2>2. /\ Chosen(c) = L /\ c.batch > 0 /\ c.heads > 0 /\ L.grid_x > 0
        /\ Strided(c)
    BY <1>2, <2>1 DEF Chosen, flash_attn_bf16_decode_d256_gqa, Launch, Refused
  <2>3. Shaped(L, c)
    BY <1>2, <2>1, <2>2, CallTypes, CeilDivNat, AttnOK DEF Shaped, Typed, Tiled, Grouped,
       Placed, Masked, QTiles, Ragged, DecodeKernel, Gqa, Plain, CacheDims, Strided
  <2>4. Roomy(L, c)
    BY <2>1, <2>2, CallTypes DEF Roomy, Ragged, DecodeKernel, Gqa, Plain, CacheDims,
       CacheBuffers, CacheRows, Strided
  <2> QED BY <2>2, <2>3, <2>4 DEF Sound
<1>3. CASE c.fn \in {"flash_attn_bf16_fp8kv_decode_d256_gqa_pos_dev",
                      "flash_attn_bf16_decode_d256_gqa_pos_dev"}
  <2>1. PICK L : L = PosDev(c, "sliding")
    OBVIOUS
  <2>2. /\ Chosen(c) = L /\ c.batch > 0 /\ c.heads > 0 /\ L.grid_x > 0
        /\ PosDevOK(c)
    BY <1>3, <2>1, Zenon DEF Chosen, flash_attn_bf16_fp8kv_decode_d256_gqa_pos_dev,
       flash_attn_bf16_decode_d256_gqa_pos_dev, Launch, Refused
  <2>3. Shaped(L, c)
    BY <1>3, <2>1, <2>2, CallTypes, CeilDivNat, AttnOK DEF Shaped, Typed, Tiled, Grouped,
       Placed, Masked, QTiles, Ragged, PosDev, DecodeKernel, Gqa, Plain, CacheDims, PosDevOK
  <2>4. Roomy(L, c)
    BY <2>1, <2>2, CallTypes DEF Roomy, Ragged, PosDev, DecodeKernel, Gqa, Plain, CacheDims,
       CacheBuffers, CacheRows, PosDevOK
  <2> QED BY <2>2, <2>3, <2>4 DEF Sound
<1>4. CASE c.fn = "flash_attn_bf16_decode_d256_gqa_pos_dev_view"
  <2>1. PICK L : L = PosDev(c, "sliding")
    OBVIOUS
  <2>2. /\ Chosen(c) = L /\ c.batch > 0 /\ c.heads > 0 /\ L.grid_x > 0
        /\ CacheDims(c)
    BY <1>4, <2>1 DEF Chosen, flash_attn_bf16_decode_d256_gqa_pos_dev_view, Launch, Refused
  <2>3. Shaped(L, c)
    BY <1>4, <2>1, <2>2, CallTypes, CeilDivNat, AttnOK DEF Shaped, Typed, Tiled, Grouped,
       Placed, Masked, QTiles, Ragged, PosDev, DecodeKernel, Gqa, Plain, CacheDims, PosDevOK
  <2> QED BY <1>4, <2>2, <2>3 DEF Sound, Measuring
<1>5. CASE c.fn \in {"flash_attn_bf16_fp8kv_decode_d512_gqa_pos_dev",
                      "flash_attn_bf16_decode_d512_gqa_pos_dev"}
  <2>1. PICK L : L = PosDev(c, "none")
    OBVIOUS
  <2>2. /\ Chosen(c) = L /\ c.batch > 0 /\ c.heads > 0 /\ L.grid_x > 0
        /\ PosDevOK(c)
    BY <1>5, <2>1, Zenon DEF Chosen, flash_attn_bf16_fp8kv_decode_d512_gqa_pos_dev,
       flash_attn_bf16_decode_d512_gqa_pos_dev, Launch, Refused
  <2>3. Shaped(L, c)
    BY <1>5, <2>1, <2>2, CallTypes, CeilDivNat, AttnOK DEF Shaped, Typed, Tiled, Grouped,
       Placed, Masked, QTiles, Ragged, PosDev, DecodeKernel, Gqa, Plain, CacheDims, PosDevOK
  <2>4. Roomy(L, c)
    BY <2>1, <2>2, CallTypes DEF Roomy, Ragged, PosDev, DecodeKernel, Gqa, Plain, CacheDims,
       CacheBuffers, CacheRows, PosDevOK
  <2> QED BY <2>2, <2>3, <2>4 DEF Sound
<1>6. CASE c.fn = "flash_attn_bf16_decode_d512_gqa_pos_dev_view"
  <2>1. PICK L : L = PosDev(c, "none")
    OBVIOUS
  <2>2. /\ Chosen(c) = L /\ c.batch > 0 /\ c.heads > 0 /\ L.grid_x > 0
        /\ CacheDims(c)
    BY <1>6, <2>1 DEF Chosen, flash_attn_bf16_decode_d512_gqa_pos_dev_view, Launch, Refused
  <2>3. Shaped(L, c)
    BY <1>6, <2>1, <2>2, CallTypes, CeilDivNat, AttnOK DEF Shaped, Typed, Tiled, Grouped,
       Placed, Masked, QTiles, Ragged, PosDev, DecodeKernel, Gqa, Plain, CacheDims, PosDevOK
  <2> QED BY <1>6, <2>2, <2>3 DEF Sound, Measuring
<1> QED BY <1>1, <1>2, <1>3, <1>4, <1>5, <1>6 DEF DecodeFns

\* The kernels of MLA, whichever wrapper chose them.
LEMMA LatentKernels ==
  ASSUME NEW c, Callable(c)
  PROVE  /\ mla_decode_bf16(c).accepted = TRUE => Shaped(mla_decode_bf16(c), c)
         /\ mla_decode_fp8(c).accepted = TRUE => Shaped(mla_decode_fp8(c), c)
         /\ mla_decode_fp8kv_mma(c).accepted = TRUE => Shaped(mla_decode_fp8kv_mma(c), c)
         /\ mla_decode_bf16_mma_tma_pq(c).accepted = TRUE => Shaped(mla_decode_bf16_mma_tma_pq(c), c)
         /\ \A n \in Nat : mla_decode_bf16_mma_split(c, n).accepted = TRUE
                           => Shaped(mla_decode_bf16_mma_split(c, n), c)
<1>1. ASSUME mla_decode_bf16(c).accepted = TRUE PROVE Shaped(mla_decode_bf16(c), c)
  <2>1. PICK L : L = MlaKernel(c, 1)
    OBVIOUS
  <2>2. /\ mla_decode_bf16(c) = L /\ c.batch > 0 /\ c.heads > 0 /\ L.grid_x > 0
        /\ MlaDims(c) /\ MlaBuffers(c, 1)
    BY <1>1, <2>1 DEF mla_decode_bf16, Launch, Refused
  <2>3. Shaped(L, c)
    BY <1>1, <2>1, <2>2, CallTypes, CeilDivNat, AttnOK, DecodeAttnOK DEF Shaped, Typed, Tiled,
       Grouped, Placed, Masked, QTiles, Ragged, MlaKernel, Plain, MlaDims
  <2> QED BY <2>2, <2>3
<1>2. ASSUME mla_decode_fp8(c).accepted = TRUE PROVE Shaped(mla_decode_fp8(c), c)
  <2>1. PICK L : L = MlaKernel(c, 1)
    OBVIOUS
  <2>2. /\ mla_decode_fp8(c) = L /\ c.batch > 0 /\ c.heads > 0 /\ L.grid_x > 0
        /\ MlaDims(c)
    BY <1>2, <2>1 DEF mla_decode_fp8, Launch, Refused
  <2>3. Shaped(L, c)
    BY <1>2, <2>1, <2>2, CallTypes, CeilDivNat, AttnOK, DecodeAttnOK DEF Shaped, Typed, Tiled,
       Grouped, Placed, Masked, QTiles, Ragged, MlaKernel, Plain, MlaDims
  <2> QED BY <2>2, <2>3
<1>3. ASSUME mla_decode_fp8kv_mma(c).accepted = TRUE PROVE Shaped(mla_decode_fp8kv_mma(c), c)
  <2>1. PICK L : L = HeadGroups(MlaKernel(c, KvChunk))
    OBVIOUS
  <2>2. /\ mla_decode_fp8kv_mma(c) = L /\ c.batch > 0 /\ c.heads > 0 /\ L.grid_x > 0
        /\ MlaDims(c) /\ WholeGroups(c)
    BY <1>3, <2>1 DEF mla_decode_fp8kv_mma, Launch, Refused
  <2>3. Shaped(L, c)
    BY <1>3, <2>1, <2>2, CallTypes, CeilDivNat, AttnOK, DecodeAttnOK DEF Shaped, Typed, Tiled,
       Grouped, Placed, Masked, QTiles, Ragged, HeadGroups, WholeGroups, MlaKernel, Plain,
       MlaDims
  <2> QED BY <2>2, <2>3
<1>4. ASSUME mla_decode_bf16_mma_tma_pq(c).accepted = TRUE PROVE Shaped(mla_decode_bf16_mma_tma_pq(c), c)
  <2>1. PICK L : L = HeadGroups(MlaTma(c))
    OBVIOUS
  <2>2. /\ mla_decode_bf16_mma_tma_pq(c) = L /\ c.batch > 0 /\ c.heads > 0 /\ L.grid_x > 0
        /\ WholeGroups(c) /\ KvRows(c, 1) > 0
    BY <1>4, <2>1 DEF mla_decode_bf16_mma_tma_pq, Launch, Refused
  <2>3. Shaped(L, c)
    BY <1>4, <2>1, <2>2, CallTypes, CeilDivNat, AttnOK, DecodeAttnOK DEF Shaped, Typed, Tiled,
       Grouped, Placed, Masked, QTiles, Ragged, HeadGroups, WholeGroups, MlaTma, MlaKernel,
       Plain, MlaDims
  <2> QED BY <2>2, <2>3
<1>5. ASSUME NEW n \in Nat, mla_decode_bf16_mma_split(c, n).accepted = TRUE PROVE Shaped(mla_decode_bf16_mma_split(c, n), c)
  <2>1. PICK L : L = [HeadGroups(MlaTma(c)) EXCEPT !.split = TRUE, !.splits = n]
    OBVIOUS
  <2>2. /\ mla_decode_bf16_mma_split(c, n) = L /\ c.batch > 0 /\ c.heads > 0 /\ L.grid_x > 0
        /\ n > 0 /\ WholeGroups(c)
    BY <1>5, <2>1 DEF mla_decode_bf16_mma_split, Launch, Refused
  <2>3. Shaped(L, c)
    BY <1>5, <2>1, <2>2, CallTypes, CeilDivNat, AttnOK, DecodeAttnOK DEF Shaped, Typed, Tiled,
       Grouped, Placed, Masked, QTiles, Ragged, HeadGroups, WholeGroups, MlaTma, MlaKernel,
       Plain, MlaDims
  <2> QED BY <2>2, <2>3
<1> QED BY <1>1, <1>2, <1>3, <1>4, <1>5

\* A number of splits is chosen.
LEMMA SplitsTuned ==
  ASSUME NEW c, Callable(c)
  PROVE  TunedSplits(c) \in Nat
<1> DEFINE base == (c.heads \div HeadGroup) * c.batch
<1>1. base \in Nat
  BY CallTypes, DecodeAttnOK
<1> HIDE DEF base
<1>2. Greatest(base, 1) \in Nat \ {0}
  BY <1>1 DEF Greatest
<1>3. TargetCtas \div Greatest(base, 1) \in Nat
  BY <1>2, DecodeAttnOK
<1>4. CeilDiv(c.seq_kv, KvChunk) \in Nat
  BY CallTypes, CeilDivNat, DecodeAttnOK
<1> QED BY <1>3, <1>4, DecodeAttnOK DEF TunedSplits, Least, Greatest, base

\* The wrappers of MLA.
LEMMA LatentSound ==
  ASSUME NEW c, Callable(c), c.fn \in LatentFns, Chosen(c).accepted = TRUE
  PROVE  Sound(Chosen(c), c)
<1>1. CASE c.fn = "fa_bf16_fp8kv_decode_d128"
  <2>1. PICK L : L = [DecodeKernel(c, "none", "param") EXCEPT !.kv_heads = c.heads, !.stride = c.seq_kv]
    OBVIOUS
  <2>2. /\ Chosen(c) = L /\ c.batch > 0 /\ c.heads > 0 /\ L.grid_x > 0
        /\ c.seq_kv > 0 /\ c.o >= c.batch * c.heads
             /\ c.k >= KvRows(c, c.heads) /\ c.v >= KvRows(c, c.heads)
    BY <1>1, <2>1 DEF Chosen, fa_bf16_fp8kv_decode_d128, Launch, Refused
  <2>3. Shaped(L, c)
    BY <1>1, <2>1, <2>2, CallTypes, CeilDivNat, AttnOK DEF Shaped, Typed, Tiled, Grouped,
       Placed, Masked, QTiles, Ragged, DecodeKernel, Gqa, Plain
  <2>4. Roomy(L, c)
    BY <2>1, <2>2, CallTypes DEF Roomy, Ragged, DecodeKernel, Gqa, Plain, KvRows
  <2> QED BY <2>2, <2>3, <2>4 DEF Sound
<1>2. CASE c.fn = "fa_bf16_fp8kv_decode_d128_causal"
  <2>1. PICK L : L = [DecodeKernel(c, "none", "each") EXCEPT !.kv_heads = c.heads, !.stride = c.seq_kv]
    OBVIOUS
  <2>2. /\ Chosen(c) = L /\ c.batch > 0 /\ c.heads > 0 /\ L.grid_x > 0
        /\ c.seq_kv > 0 /\ c.o >= c.batch * c.heads
             /\ c.k >= KvRows(c, c.heads) /\ c.v >= KvRows(c, c.heads)
    BY <1>2, <2>1 DEF Chosen, fa_bf16_fp8kv_decode_d128_causal, Launch, Refused
  <2>3. Shaped(L, c)
    BY <1>2, <2>1, <2>2, CallTypes, CeilDivNat, AttnOK DEF Shaped, Typed, Tiled, Grouped,
       Placed, Masked, QTiles, Ragged, DecodeKernel, Gqa, Plain
  <2>4. Roomy(L, c)
    BY <2>1, <2>2, CallTypes DEF Roomy, Ragged, DecodeKernel, Gqa, Plain, KvRows
  <2> QED BY <2>2, <2>3, <2>4 DEF Sound
<1>3. CASE c.fn = "mla_prefill_bf16"
  <2>1. PICK L : L = [MlaKernel(c, 1) EXCEPT !.rows = c.seq_q, !.grid_x = c.seq_q, !.mask = "causal"]
    OBVIOUS
  <2>2. /\ Chosen(c) = L /\ c.batch > 0 /\ c.heads > 0 /\ L.grid_x > 0
        /\ MlaDims(c) /\ c.seq_q > 0 /\ MlaBuffers(c, c.seq_q)
    BY <1>3, <2>1 DEF Chosen, mla_prefill_bf16, Launch, Refused
  <2>3. Shaped(L, c)
    BY <1>3, <2>1, <2>2, CallTypes, CeilDivNat, AttnOK, DecodeAttnOK DEF Shaped, Typed, Tiled,
       Grouped, Placed, Masked, QTiles, Ragged, MlaKernel, Plain, MlaDims
  <2>4. Roomy(L, c)
    BY <2>1, <2>2, CallTypes DEF Roomy, Ragged, MlaKernel, Plain, MlaDims, MlaBuffers, KvRows
  <2> QED BY <2>2, <2>3, <2>4 DEF Sound
<1>4. CASE c.fn = "mla_prefill_fp8"
  <2>1. PICK L : L = [MlaKernel(c, 1) EXCEPT !.rows = c.seq_q, !.grid_x = c.seq_q, !.mask = "causal"]
    OBVIOUS
  <2>2. /\ Chosen(c) = L /\ c.batch > 0 /\ c.heads > 0 /\ L.grid_x > 0
        /\ MlaDims(c) /\ c.seq_q > 0
    BY <1>4, <2>1 DEF Chosen, mla_prefill_fp8, Launch, Refused
  <2>3. Shaped(L, c)
    BY <1>4, <2>1, <2>2, CallTypes, CeilDivNat, AttnOK, DecodeAttnOK DEF Shaped, Typed, Tiled,
       Grouped, Placed, Masked, QTiles, Ragged, MlaKernel, Plain, MlaDims
  <2> QED BY <1>4, <2>2, <2>3 DEF Sound, Measuring
<1>5. CASE c.fn = "mla_decode_bf16_paged"
  <2>1. PICK L : L = [MlaKernel(c, 1) EXCEPT !.load = "paged", !.bound = "lens"]
    OBVIOUS
  <2>2. /\ Chosen(c) = L /\ c.batch > 0 /\ c.heads > 0 /\ L.grid_x > 0
        /\ TRUE
    BY <1>5, <2>1 DEF Chosen, mla_decode_bf16_paged, Launch, Refused
  <2>3. Shaped(L, c)
    BY <1>5, <2>1, <2>2, CallTypes, CeilDivNat, AttnOK, DecodeAttnOK DEF Shaped, Typed, Tiled,
       Grouped, Placed, Masked, QTiles, Ragged, MlaKernel, Plain
  <2> QED BY <1>5, <2>2, <2>3 DEF Sound, Measuring
<1>6. CASE c.fn = "mla_decode_bf16_tma"
  <2>1. PICK L : L = MlaTma(c)
    OBVIOUS
  <2>2. /\ Chosen(c) = L /\ c.batch > 0 /\ c.heads > 0 /\ L.grid_x > 0
        /\ MlaDims(c)
    BY <1>6, <2>1 DEF Chosen, mla_decode_bf16_tma, Launch, Refused
  <2>3. Shaped(L, c)
    BY <1>6, <2>1, <2>2, CallTypes, CeilDivNat, AttnOK, DecodeAttnOK DEF Shaped, Typed, Tiled,
       Grouped, Placed, Masked, QTiles, Ragged, MlaTma, MlaKernel, Plain, MlaDims
  <2> QED BY <1>6, <2>2, <2>3 DEF Sound, Measuring
<1>7. CASE c.fn = "mla_decode_bf16_mma"
  <2>1. PICK L : L = HeadGroups(MlaKernel(c, KvChunk))
    OBVIOUS
  <2>2. /\ Chosen(c) = L /\ c.batch > 0 /\ c.heads > 0 /\ L.grid_x > 0
        /\ MlaDims(c) /\ WholeGroups(c)
    BY <1>7, <2>1 DEF Chosen, mla_decode_bf16_mma, Launch, Refused
  <2>3. Shaped(L, c)
    BY <1>7, <2>1, <2>2, CallTypes, CeilDivNat, AttnOK, DecodeAttnOK DEF Shaped, Typed, Tiled,
       Grouped, Placed, Masked, QTiles, Ragged, HeadGroups, WholeGroups, MlaKernel, Plain,
       MlaDims
  <2> QED BY <1>7, <2>2, <2>3 DEF Sound, Measuring
<1>8. CASE c.fn = "mla_decode_bf16_mma_tma"
  <2>1. PICK L : L = HeadGroups(MlaTma(c))
    OBVIOUS
  <2>2. /\ Chosen(c) = L /\ c.batch > 0 /\ c.heads > 0 /\ L.grid_x > 0
        /\ MlaDims(c) /\ WholeGroups(c)
    BY <1>8, <2>1 DEF Chosen, mla_decode_bf16_mma_tma, Launch, Refused
  <2>3. Shaped(L, c)
    BY <1>8, <2>1, <2>2, CallTypes, CeilDivNat, AttnOK, DecodeAttnOK DEF Shaped, Typed, Tiled,
       Grouped, Placed, Masked, QTiles, Ragged, HeadGroups, WholeGroups, MlaTma, MlaKernel,
       Plain, MlaDims
  <2> QED BY <1>8, <2>2, <2>3 DEF Sound, Measuring
<1>9. CASE c.fn \in {"fa_fp8_mla_decode_mma_v2",
                      "fa_fp8_mla_decode_mma_v3",
                      "fa_fp8_mla_decode_auto"}
  <2>1. PICK L : L = [HeadGroups(MlaKernel(c, KvChunk)) EXCEPT !.masks = FALSE]
    OBVIOUS
  <2>2. /\ Chosen(c) = L /\ c.batch > 0 /\ c.heads > 0 /\ L.grid_x > 0
        /\ MlaDims(c) /\ WholeGroups(c)
    BY <1>9, <2>1, Zenon DEF Chosen, fa_fp8_mla_decode_mma_v2, fa_fp8_mla_decode_mma_v3,
       fa_fp8_mla_decode_auto, Launch, Refused
  <2>3. Shaped(L, c)
    BY <1>9, <2>1, <2>2, CallTypes, CeilDivNat, AttnOK, DecodeAttnOK DEF Shaped, Typed, Tiled,
       Grouped, Placed, Masked, QTiles, Ragged, HeadGroups, WholeGroups, MlaKernel, Plain,
       MlaDims
  <2> QED BY <1>9, <2>2, <2>3 DEF Sound, Measuring
<1>10. CASE c.fn \in {"mla_decode_fp8", "mla_decode_fp8kv_mma", "mla_decode_bf16_mma_tma_pq",
                     "mla_decode_bf16_mma_split"}
  BY <1>10, LatentKernels, CallTypes, Zenon DEF Chosen, Sound, Measuring
<1>11. CASE c.fn = "mla_decode_bf16"
  <2>1. PICK L : L = MlaKernel(c, 1)
    OBVIOUS
  <2>2. /\ Chosen(c) = L /\ MlaDims(c) /\ MlaBuffers(c, 1) /\ Chosen(c) = mla_decode_bf16(c)
    BY <1>11, <2>1 DEF Chosen, mla_decode_bf16, Launch, Refused
  <2>3. Shaped(L, c)
    BY <2>2, LatentKernels
  <2>4. Roomy(L, c)
    BY <2>1, <2>2, CallTypes DEF Roomy, Ragged, MlaKernel, Plain, MlaDims, MlaBuffers, KvRows
  <2> QED BY <2>2, <2>3, <2>4 DEF Sound
<1>12. CASE c.fn = "mla_decode_fp8_auto"
  BY <1>12, LatentKernels DEF Chosen, mla_decode_fp8_auto, Sound, Measuring
<1>13. CASE c.fn = "mla_decode_bf16_auto"
  <2>1. TunedSplits(c) \in Nat
    BY SplitsTuned
  <2> QED BY <1>13, <2>1, LatentKernels DEF Chosen, mla_decode_bf16_auto, SplitOrNot, Sound,
         Measuring
<1>14. CASE c.fn = "mla_decode_bf16_auto_with_splits"
  BY <1>14, CallTypes, LatentKernels DEF Chosen, mla_decode_bf16_auto_with_splits, SplitOrNot,
     Sound, Measuring
<1> QED BY <1>1, <1>2, <1>3, <1>4, <1>5, <1>6, <1>7, <1>8, <1>9, <1>10, <1>11, <1>12, <1>13, <1>14 DEF
   LatentFns

\* Those of explicit masks and blocks.
LEMMA ExplicitSound ==
  ASSUME NEW c, Callable(c), c.fn \in ExplicitFns, Chosen(c).accepted = TRUE
  PROVE  Sound(Chosen(c), c)
<1>1. CASE c.fn = "tree_attention_bf16"
  <2>1. PICK L : L = TokenKernel(c, 1, "tree")
    OBVIOUS
  <2>2. /\ Chosen(c) = L /\ c.batch > 0 /\ c.heads > 0 /\ L.grid_x > 0
        /\ validate_attn_dims(c)
    BY <1>1, <2>1 DEF Chosen, tree_attention_bf16, Launch, Refused
  <2>3. Shaped(L, c)
    BY <1>1, <2>1, <2>2, CallTypes, CeilDivNat, AttnOK DEF Shaped, Typed, Tiled, Grouped,
       Placed, Masked, QTiles, Ragged, TokenKernel, Plain, validate_attn_dims
  <2> QED BY <1>1, <2>2, <2>3 DEF Sound, Measuring
<1>2. CASE c.fn = "nsa_attention_bf16"
  <2>1. PICK L : L = TokenKernel(c, c.block_size, "blocks")
    OBVIOUS
  <2>2. /\ Chosen(c) = L /\ c.batch > 0 /\ c.heads > 0 /\ L.grid_x > 0
        /\ validate_attn_dims(c) /\ c.block_size > 0
    BY <1>2, <2>1 DEF Chosen, nsa_attention_bf16, Launch, Refused
  <2>3. Shaped(L, c)
    BY <1>2, <2>1, <2>2, CallTypes, CeilDivNat, AttnOK DEF Shaped, Typed, Tiled, Grouped,
       Placed, Masked, QTiles, Ragged, TokenKernel, Plain, validate_attn_dims
  <2> QED BY <1>2, <2>2, <2>3 DEF Sound, Measuring
<1>3. CASE c.fn = "dsa_attention_bf16"
  <2>1. PICK L : L = TokenKernel(c, 1, "blocks")
    OBVIOUS
  <2>2. /\ Chosen(c) = L /\ c.batch > 0 /\ c.heads > 0 /\ L.grid_x > 0
        /\ validate_attn_dims(c)
    BY <1>3, <2>1 DEF Chosen, dsa_attention_bf16, nsa_attention_bf16, Launch, Refused
  <2>3. Shaped(L, c)
    BY <1>3, <2>1, <2>2, CallTypes, CeilDivNat, AttnOK DEF Shaped, Typed, Tiled, Grouped,
       Placed, Masked, QTiles, Ragged, TokenKernel, Plain, validate_attn_dims
  <2> QED BY <1>3, <2>2, <2>3 DEF Sound, Measuring
<1> QED BY <1>1, <1>2, <1>3 DEF ExplicitFns

\* Whatever the wrapper, a launch that is made is sound.
LEMMA ChosenSound ==
  ASSUME NEW c, Callable(c), Chosen(c).accepted = TRUE
  PROVE  Sound(Chosen(c), c)
BY CallTypes, DenseSound, VarlenSound, DecodeSound, LatentSound, ExplicitSound DEF Wrappers

-----------------------------------------------------------------------------
(* Rows of rows.                                                           *)

\* Of n rows of m, row r of row a is one of n * m,
LEMMA RowIn ==
  ASSUME NEW n \in Nat, NEW m \in Nat, NEW a \in 0 .. n - 1, NEW r \in 0 .. m - 1
  PROVE  a * m + r \in 0 .. n * m - 1
<1>1. (n - 1 - a) * m >= 0 /\ (n - 1 - a) * m = n * m - m - a * m /\ a * m \in Nat /\ n * m \in Nat
  <2>1. n - 1 - a \in Nat
    OBVIOUS
  <2> QED BY <2>1
<1> DEFINE am == a * m
           nm == n * m
<1> HIDE DEF am, nm
<1>2. am \in Nat /\ nm \in Nat /\ nm - m - am >= 0
  BY <1>1 DEF am, nm
<1>3. am + r \in 0 .. nm - 1
  BY <1>2
<1> QED BY <1>3 DEF am, nm

\* no two are the same,
LEMMA RowOnce ==
  ASSUME NEW m \in Nat, NEW a \in Nat, NEW b \in Nat, NEW r \in 0 .. m - 1, NEW s \in 0 .. m - 1,
         a * m + r = b * m + s
  PROVE  a = b /\ r = s
<1>1. m \in Nat \ {0}
  OBVIOUS
<1>2. (a * m + r) \div m = a /\ (b * m + s) \div m = b /\ (a * m + r) % m = r /\ (b * m + s) % m = s
  BY <1>1, Divided
<1> QED BY <1>2

\* and each of n * m is one.
LEMMA RowOf ==
  ASSUME NEW n \in Nat, NEW m \in Nat, NEW x \in 0 .. n * m - 1
  PROVE  \E a \in 0 .. n - 1, r \in 0 .. m - 1 : x = a * m + r
<1>1. m \in Nat \ {0} /\ x \in Nat
  <2>1. n * m \in Nat /\ (m = 0 => n * m = 0)
    OBVIOUS
  <2> QED BY <2>1
<1>2. PICK q \in Nat, r \in 0 .. m - 1 : x = q * m + r
  BY <1>1, DividedBack
<1>3. q < n
  <2> SUFFICES ASSUME q >= n PROVE FALSE
    BY <1>2
  <2>1. (q - n) * m >= 0 /\ (q - n) * m = q * m - n * m
    <3>1. q - n \in Nat
      BY <1>2
    <3> QED BY <3>1
  <2> DEFINE qm == q * m
             nm == n * m
  <2>2. qm \in Int /\ nm \in Int /\ qm - nm >= 0 /\ x = qm + r /\ x < nm
    BY <1>2, <2>1
  <2> HIDE DEF qm, nm
  <2> QED BY <2>2
<1> QED BY <1>2, <1>3

\* Sequences laid one behind the other: where each begins, and all end.
Ends(cu, n, total) ==
  /\ cu \in [0 .. n -> Nat] /\ cu[0] = 0 /\ cu[n] = total
  /\ \A b \in 0 .. n - 1 : cu[b] <= cu[b + 1]

\* A later sequence does not begin earlier.
LEMMA EndsAscend ==
  ASSUME NEW n \in Nat, NEW total, NEW cu, Ends(cu, n, total),
         NEW a \in 0 .. n, NEW b \in 0 .. n, a <= b
  PROVE  cu[a] <= cu[b]
<1> DEFINE T == {k \in Nat : a + k <= n => cu[a] <= cu[a + k]}
<1>1. 0 \in T
  BY DEF Ends
<1>2. ASSUME NEW k \in T PROVE k + 1 \in T
  <2> SUFFICES ASSUME a + (k + 1) <= n PROVE cu[a] <= cu[a + (k + 1)]
    OBVIOUS
  <2>1. cu[a] <= cu[a + k] /\ a + k \in 0 .. n - 1 /\ a + (k + 1) = (a + k) + 1
    BY <1>2
  <2>2. cu[a + k] <= cu[(a + k) + 1] /\ {cu[a], cu[a + k], cu[(a + k) + 1]} \subseteq Nat
    BY <2>1 DEF Ends
  <2> QED BY <2>1, <2>2
<1>3. T = Nat
  <2> HIDE DEF T
  <2>1. T \in SUBSET Nat
    BY DEF T
  <2> QED BY <1>1, <1>2, <2>1, NaturalInduction
<1>4. b - a \in Nat /\ a + (b - a) = b
  OBVIOUS
<1>5. b - a \in T
  BY <1>3, <1>4
<1> QED BY <1>4, <1>5

\* A token is in one sequence
LEMMA TokenOf ==
  ASSUME NEW n \in Nat, NEW total \in Nat, NEW cu, Ends(cu, n, total), NEW t \in 0 .. total - 1
  PROVE  \E b \in 0 .. n - 1 : cu[b] <= t /\ t < cu[b + 1]
<1> DEFINE T == {k \in Nat : k <= n /\ t < cu[k]}
<1>1. n \in T
  BY DEF Ends
<1>2. PICK k \in T : \A j \in T : k <= j
  <2> HIDE DEF T
  <2>1. T \in SUBSET Nat
    BY DEF T
  <2> QED BY <1>1, <2>1, LeastNat
<1>3. k # 0
  BY <1>2 DEF Ends
<1>4. k - 1 \in 0 .. n - 1 /\ k - 1 \notin T /\ (k - 1) + 1 = k
  BY <1>2, <1>3
<1>5. cu[k - 1] \in Nat /\ ~(t < cu[k - 1])
  BY <1>4 DEF Ends
<1> QED BY <1>2, <1>4, <1>5

\* and in no other.
LEMMA TokenOnce ==
  ASSUME NEW n \in Nat, NEW total, NEW cu, Ends(cu, n, total),
         NEW a \in 0 .. n - 1, NEW b \in 0 .. n - 1, NEW i \in Nat, NEW j \in Nat,
         cu[a] + i < cu[a + 1], cu[b] + j < cu[b + 1], cu[a] + i = cu[b] + j
  PROVE  a = b /\ i = j
<1>1. {cu[a], cu[b], cu[a + 1], cu[b + 1]} \subseteq Nat
  BY DEF Ends
<1>2. CASE a < b
  <2>1. cu[a + 1] <= cu[b]
    BY <1>2, EndsAscend
  <2> QED BY <1>1, <2>1
<1>3. CASE b < a
  <2>1. cu[b + 1] <= cu[a]
    BY <1>3, EndsAscend
  <2> QED BY <1>1, <2>1
<1>4. CASE a = b
  BY <1>1, <1>4
<1> QED BY <1>2, <1>3, <1>4

-----------------------------------------------------------------------------
(* The rows of O.                                                          *)

RowCount(L, c) == IF Ragged(L) THEN c.heads * c.cu_q[c.batch] ELSE c.batch * c.heads * L.rows

IsRow(L, c, b, h, i) == b \in Batches(c) /\ h \in 0 .. c.heads - 1 /\ i \in Nat /\ i < SeqQ(L, c, b)

\* Where the sequences of different lengths end.
LEMMA RaggedEnds ==
  ASSUME NEW c, Callable(c), NEW L, Shaped(L, c), Ragged(L)
  PROVE  \E cuq, cuk :
           /\ Ends(cuq, c.batch, c.total_q) /\ Ends(cuk, c.batch, c.total_kv)
           /\ \A b \in 0 .. c.batch : c.cu_q[b] = cuq[b] /\ c.cu_k[b] = cuk[b]
           /\ \A b \in Batches(c) : SeqQ(L, c, b) = cuq[b + 1] - cuq[b] /\ SeqQ(L, c, b) <= c.max_seqlen_q
                                    /\ SeqKv(L, c, b) = cuk[b + 1] - cuk[b]
           /\ RowCount(L, c) = c.heads * c.total_q
<1> DEFINE cuq == [b \in 0 .. c.batch |-> c.cu_q[b]]
           cuk == [b \in 0 .. c.batch |-> c.cu_k[b]]
<1>1. /\ c.fn \in VarlenFns /\ c.max_seqlen_q > 0 /\ c.batch \in Nat
      /\ \A b \in 0 .. c.batch : c.cu_q[b] \in Nat /\ c.cu_k[b] \in Nat
      /\ c.cu_q[0] = 0 /\ c.cu_q[c.batch] = c.total_q
      /\ c.cu_k[0] = 0 /\ c.cu_k[c.batch] = c.total_kv
      /\ \A b \in Batches(c) : c.cu_q[b] <= c.cu_q[b + 1] /\ c.cu_k[b] <= c.cu_k[b + 1]
      /\ \A b \in Batches(c) : c.cu_q[b + 1] - c.cu_q[b] <= c.max_seqlen_q
  BY CallTypes DEF Callable, Shaped, Placed
<1>2. cuq \in [0 .. c.batch -> Nat] /\ cuk \in [0 .. c.batch -> Nat]
  BY <1>1
<1>3. \A b \in 0 .. c.batch : c.cu_q[b] = cuq[b] /\ c.cu_k[b] = cuk[b]
  OBVIOUS
<1> HIDE DEF cuq, cuk
<1>4. \A b \in Batches(c) : b \in 0 .. c.batch /\ b + 1 \in 0 .. c.batch
  BY <1>1 DEF Batches
<1>5. 0 \in 0 .. c.batch /\ c.batch \in 0 .. c.batch
  BY <1>1
<1>6. Ends(cuq, c.batch, c.total_q) /\ Ends(cuk, c.batch, c.total_kv)
  BY <1>1, <1>2, <1>3, <1>4, <1>5 DEF Ends, Batches
<1>7. \A b \in Batches(c) : SeqQ(L, c, b) = cuq[b + 1] - cuq[b] /\ SeqQ(L, c, b) <= c.max_seqlen_q
                             /\ SeqKv(L, c, b) = cuk[b + 1] - cuk[b]
  <2> TAKE b \in Batches(c)
  <2>1. SeqQ(L, c, b) = c.cu_q[b + 1] - c.cu_q[b] /\ SeqKv(L, c, b) = c.cu_k[b + 1] - c.cu_k[b]
    BY DEF SeqQ, SeqKv, Shaped, Placed
  <2> QED BY <1>1, <1>3, <1>4, <2>1
<1>8. RowCount(L, c) = c.heads * c.total_q
  BY <1>1 DEF RowCount
<1> QED BY <1>3, <1>6, <1>7, <1>8

\* A row is a row of O,
LEMMA OutRowIn ==
  ASSUME NEW c, Callable(c), NEW L, Shaped(L, c), NEW b, NEW h, NEW i, IsRow(L, c, b, h, i)
  PROVE  OutRow(L, c, b, h, i) \in 0 .. RowCount(L, c) - 1
<1>1. /\ c.batch \in Nat /\ c.heads \in Nat /\ c.total_q \in Nat /\ L.rows \in Nat
      /\ L.layout \in {"dense", "token", "varlen", "packed"}
      /\ b \in 0 .. c.batch - 1 /\ h \in 0 .. c.heads - 1 /\ i \in Nat /\ i < SeqQ(L, c, b)
  BY CallTypes DEF Shaped, Typed, IsRow, Batches
<1>2. CASE Ragged(L)
  <2>1. PICK cuq : /\ Ends(cuq, c.batch, c.total_q) /\ c.cu_q[b] = cuq[b]
                   /\ SeqQ(L, c, b) = cuq[b + 1] - cuq[b]
                   /\ RowCount(L, c) = c.heads * c.total_q
    BY <1>1, <1>2, RaggedEnds DEF Batches
  <2>2. cuq[b] \in Nat /\ cuq[b + 1] \in Nat /\ cuq[c.batch] = c.total_q /\ cuq[b + 1] <= cuq[c.batch]
    <3>1. b + 1 \in 0 .. c.batch /\ b + 1 <= c.batch /\ b \in 0 .. c.batch /\ c.batch \in 0 .. c.batch
      BY <1>1
    <3> QED BY <1>1, <2>1, <3>1, EndsAscend DEF Ends
  <2>3. PICK t \in 0 .. c.total_q - 1 : t = c.cu_q[b] + i
    BY <1>1, <2>1, <2>2
  <2>4. h * c.total_q + t \in 0 .. c.heads * c.total_q - 1 /\ t * c.heads + h \in 0 .. c.total_q * c.heads - 1
    BY <1>1, RowIn
  <2>5. c.total_q * c.heads = c.heads * c.total_q /\ h * c.total_q \in Nat
    BY <1>1
  <2>6. CASE L.layout = "varlen"
    <3>1. OutRow(L, c, b, h, i) = h * c.total_q + c.cu_q[b] + i
      BY <2>6 DEF OutRow
    <3>2. OutRow(L, c, b, h, i) = h * c.total_q + t
      BY <1>1, <2>1, <2>2, <2>3, <2>5, <3>1
    <3> QED BY <2>1, <2>4, <3>2
  <2>7. CASE L.layout = "packed"
    <3>1. OutRow(L, c, b, h, i) = t * c.heads + h
      BY <2>3, <2>7 DEF OutRow
    <3> QED BY <2>1, <2>4, <2>5, <3>1
  <2> QED BY <1>2, <2>6, <2>7 DEF Ragged
<1>3. CASE ~Ragged(L)
  <2>1. i \in 0 .. L.rows - 1 /\ RowCount(L, c) = c.batch * c.heads * L.rows
    BY <1>1, <1>3 DEF SeqQ, RowCount
  <2>2. CASE L.layout = "token"
    <3>1. PICK n \in Nat : n = c.batch * L.rows
      BY <1>1
    <3>2. PICK x \in 0 .. n - 1 : x = b * L.rows + i
      BY <1>1, <2>1, <3>1, RowIn
    <3>3. x * c.heads + h \in 0 .. n * c.heads - 1
      BY <1>1, RowIn
    <3>4. n * c.heads = c.batch * c.heads * L.rows
      BY <1>1, <3>1
    <3> QED BY <2>1, <2>2, <3>2, <3>3, <3>4 DEF OutRow
  <2>3. CASE L.layout = "dense"
    <3>1. PICK n \in Nat : n = c.batch * c.heads
      BY <1>1
    <3>2. PICK x \in 0 .. n - 1 : x = b * c.heads + h
      BY <1>1, <2>1, <3>1, RowIn
    <3>3. x * L.rows + i \in 0 .. n * L.rows - 1
      BY <1>1, <2>1, RowIn
    <3> QED BY <2>1, <2>3, <3>1, <3>2, <3>3 DEF OutRow
  <2> QED BY <1>1, <1>3, <2>2, <2>3 DEF Ragged
<1> QED BY <1>2, <1>3

\* two rows are not the same row of O,
LEMMA OutRowOnce ==
  ASSUME NEW c, Callable(c), NEW L, Shaped(L, c),
         NEW b, NEW h, NEW i, IsRow(L, c, b, h, i), NEW bb, NEW hh, NEW ii, IsRow(L, c, bb, hh, ii),
         OutRow(L, c, b, h, i) = OutRow(L, c, bb, hh, ii)
  PROVE  b = bb /\ h = hh /\ i = ii
<1>1. /\ c.batch \in Nat /\ c.heads \in Nat /\ c.total_q \in Nat /\ L.rows \in Nat
      /\ L.layout \in {"dense", "token", "varlen", "packed"}
      /\ b \in 0 .. c.batch - 1 /\ h \in 0 .. c.heads - 1 /\ i \in Nat /\ i < SeqQ(L, c, b)
      /\ bb \in 0 .. c.batch - 1 /\ hh \in 0 .. c.heads - 1 /\ ii \in Nat /\ ii < SeqQ(L, c, bb)
  BY CallTypes DEF Shaped, Typed, IsRow, Batches
<1>2. CASE Ragged(L)
  <2>1. PICK cuq : /\ Ends(cuq, c.batch, c.total_q) /\ c.cu_q[b] = cuq[b] /\ c.cu_q[bb] = cuq[bb]
                   /\ SeqQ(L, c, b) = cuq[b + 1] - cuq[b] /\ SeqQ(L, c, bb) = cuq[bb + 1] - cuq[bb]
    BY <1>1, <1>2, RaggedEnds DEF Batches
  <2>2. /\ {cuq[b], cuq[b + 1], cuq[bb], cuq[bb + 1]} \subseteq Nat /\ cuq[c.batch] = c.total_q
        /\ cuq[b + 1] <= cuq[c.batch] /\ cuq[bb + 1] <= cuq[c.batch]
    <3>1. {b + 1, bb + 1, b, bb, c.batch} \subseteq 0 .. c.batch /\ b + 1 <= c.batch /\ bb + 1 <= c.batch
      BY <1>1
    <3> QED BY <1>1, <2>1, <3>1, EndsAscend DEF Ends
  <2>3. PICK t \in 0 .. c.total_q - 1 : t = cuq[b] + i
    BY <1>1, <2>1, <2>2
  <2>4. PICK u \in 0 .. c.total_q - 1 : u = cuq[bb] + ii
    BY <1>1, <2>1, <2>2
  <2>5. h * c.total_q \in Nat /\ hh * c.total_q \in Nat
    BY <1>1
  <2>6. t = u /\ h = hh
    <3>1. CASE L.layout = "varlen"
      <4>1. h * c.total_q + cuq[b] + i = hh * c.total_q + cuq[bb] + ii
        BY <2>1, <3>1 DEF OutRow
      <4>2. h * c.total_q + t = hh * c.total_q + u
        BY <1>1, <2>2, <2>3, <2>4, <2>5, <4>1
      <4> QED BY <1>1, <4>2, RowOnce
    <3>2. CASE L.layout = "packed"
      <4>1. t * c.heads + h = u * c.heads + hh
        BY <2>1, <2>3, <2>4, <3>2 DEF OutRow
      <4> QED BY <1>1, <4>1, RowOnce
    <3> QED BY <1>2, <3>1, <3>2 DEF Ragged
  <2>7. cuq[b] + i < cuq[b + 1] /\ cuq[bb] + ii < cuq[bb + 1]
    BY <1>1, <2>1, <2>2
  <2>8. b = bb /\ i = ii
    BY <1>1, <2>1, <2>3, <2>4, <2>6, <2>7, TokenOnce
  <2> QED BY <2>6, <2>8
<1>3. CASE ~Ragged(L)
  <2>1. i \in 0 .. L.rows - 1 /\ ii \in 0 .. L.rows - 1
    BY <1>1, <1>3 DEF SeqQ
  <2>2. CASE L.layout = "token"
    <3>1. PICK y \in Nat, z \in Nat : y = b * L.rows + i /\ z = bb * L.rows + ii
      BY <1>1, <2>1
    <3>2. y * c.heads + h = z * c.heads + hh
      BY <2>2, <3>1 DEF OutRow
    <3>3. y = z /\ h = hh
      BY <1>1, <3>2, RowOnce
    <3>4. b = bb /\ i = ii
      BY <1>1, <2>1, <3>1, <3>3, RowOnce
    <3> QED BY <3>3, <3>4
  <2>3. CASE L.layout = "dense"
    <3>1. PICK y \in Nat, z \in Nat : y = b * c.heads + h /\ z = bb * c.heads + hh
      BY <1>1
    <3>2. y * L.rows + i = z * L.rows + ii
      BY <2>3, <3>1 DEF OutRow
    <3>3. y = z /\ i = ii
      BY <1>1, <2>1, <3>2, RowOnce
    <3>4. b = bb /\ h = hh
      <4>1. b * c.heads + h = bb * c.heads + hh /\ b \in Nat /\ bb \in Nat
        BY <1>1, <3>1, <3>3
      <4> QED BY <1>1, <4>1, RowOnce
    <3> QED BY <3>3, <3>4
  <2> QED BY <1>1, <1>3, <2>2, <2>3 DEF Ragged
<1> QED BY <1>2, <1>3

\* and every row of O is one.
LEMMA OutRowOf ==
  ASSUME NEW c, Callable(c), NEW L, Shaped(L, c), NEW x \in 0 .. RowCount(L, c) - 1
  PROVE  \E b, h, i : IsRow(L, c, b, h, i) /\ OutRow(L, c, b, h, i) = x
<1>1. /\ c.batch \in Nat /\ c.heads \in Nat /\ c.total_q \in Nat /\ L.rows \in Nat
      /\ L.layout \in {"dense", "token", "varlen", "packed"}
  BY CallTypes DEF Shaped, Typed
<1>2. CASE Ragged(L)
  <2>1. PICK cuq : /\ Ends(cuq, c.batch, c.total_q) /\ \A b \in 0 .. c.batch : c.cu_q[b] = cuq[b]
                   /\ \A b \in Batches(c) : SeqQ(L, c, b) = cuq[b + 1] - cuq[b]
                   /\ RowCount(L, c) = c.heads * c.total_q
    BY <1>1, <1>2, RaggedEnds
  <2>2. PICK t \in 0 .. c.total_q - 1, h \in 0 .. c.heads - 1 :
          x = IF L.layout = "varlen" THEN h * c.total_q + t ELSE t * c.heads + h
    <3>1. x \in 0 .. c.heads * c.total_q - 1 /\ x \in 0 .. c.total_q * c.heads - 1
      <4>1. c.heads * c.total_q = c.total_q * c.heads
        BY <1>1
      <4> QED BY <2>1, <4>1
    <3>2. PICK h \in 0 .. c.heads - 1, t \in 0 .. c.total_q - 1 : x = h * c.total_q + t
      BY <1>1, <3>1, RowOf
    <3>3. PICK u \in 0 .. c.total_q - 1, g \in 0 .. c.heads - 1 : x = u * c.heads + g
      BY <1>1, <3>1, RowOf
    <3> QED BY <3>2, <3>3
  <2>3. PICK b \in 0 .. c.batch - 1 : cuq[b] <= t /\ t < cuq[b + 1]
    BY <1>1, <2>1, TokenOf
  <2>4. cuq[b] \in Nat /\ cuq[b + 1] \in Nat
    BY <1>1, <2>1, <2>3, SMTT(30) DEF Ends
  <2>5. PICK i \in Nat : t = cuq[b] + i /\ i < SeqQ(L, c, b)
    <3>1. t - cuq[b] \in Nat /\ t = cuq[b] + (t - cuq[b]) /\ t - cuq[b] < SeqQ(L, c, b)
      BY <2>1, <2>3, <2>4 DEF Batches
    <3> QED BY <3>1
  <2>6. IsRow(L, c, b, h, i)
    BY <2>3, <2>5 DEF IsRow, Batches
  <2>7. c.cu_q[b] = cuq[b] /\ h * c.total_q \in Nat
    BY <1>1, <2>1, <2>3
  <2>8. OutRow(L, c, b, h, i) = x
    <3>1. CASE L.layout = "varlen"
      <4>1. OutRow(L, c, b, h, i) = h * c.total_q + cuq[b] + i
        BY <2>7, <3>1 DEF OutRow
      <4>2. h * c.total_q + cuq[b] + i = h * c.total_q + t
        BY <2>4, <2>5, <2>7
      <4> QED BY <2>2, <3>1, <4>1, <4>2
    <3>2. CASE L.layout = "packed"
      BY <2>2, <2>5, <2>7, <3>2 DEF OutRow
    <3> QED BY <1>2, <3>1, <3>2 DEF Ragged
  <2> QED BY <2>6, <2>8
<1>3. CASE ~Ragged(L)
  <2>1. RowCount(L, c) = c.batch * c.heads * L.rows
    BY <1>3 DEF RowCount
  <2>2. CASE L.layout = "token"
    <3>1. PICK n \in Nat : n = c.batch * L.rows
      BY <1>1
    <3>2. c.batch * c.heads * L.rows = n * c.heads
      BY <1>1, <3>1
    <3>3. PICK y \in 0 .. n - 1, h \in 0 .. c.heads - 1 : x = y * c.heads + h
      <4>1. x \in 0 .. n * c.heads - 1
        BY <2>1, <3>2
      <4> QED BY <1>1, <4>1, RowOf
    <3>4. PICK b \in 0 .. c.batch - 1, i \in 0 .. L.rows - 1 : y = b * L.rows + i
      BY <1>1, <3>1, RowOf, Zenon
    <3>5. OutRow(L, c, b, h, i) = x
      BY <2>2, <3>3, <3>4 DEF OutRow
    <3>6. IsRow(L, c, b, h, i)
      BY <1>1, <1>3 DEF IsRow, Batches, SeqQ
    <3> QED BY <3>5, <3>6
  <2>3. CASE L.layout = "dense"
    <3>1. PICK n \in Nat : n = c.batch * c.heads
      BY <1>1
    <3>2. PICK y \in 0 .. n - 1, i \in 0 .. L.rows - 1 : x = y * L.rows + i
      <4>1. x \in 0 .. n * L.rows - 1
        BY <2>1, <3>1
      <4> QED BY <1>1, <4>1, RowOf
    <3>3. PICK b \in 0 .. c.batch - 1, h \in 0 .. c.heads - 1 : y = b * c.heads + h
      BY <1>1, <3>1, RowOf, Zenon
    <3>4. OutRow(L, c, b, h, i) = x
      BY <2>3, <3>2, <3>3 DEF OutRow
    <3>5. IsRow(L, c, b, h, i)
      BY <1>1, <1>3 DEF IsRow, Batches, SeqQ
    <3> QED BY <3>4, <3>5
  <2> QED BY <1>1, <1>3, <2>2, <2>3 DEF Ragged
<1> QED BY <1>2, <1>3

-----------------------------------------------------------------------------
(* The tiles of query rows.                                                *)

\* The tiles that begin in front of row a are the shares rounded up.
LEMMA CeilDivTiles ==
  ASSUME NEW a \in Nat, NEW b \in Nat \ {0}, NEW t \in Nat
  PROVE  t < CeilDiv(a, b) <=> t * b < a
<1> DEFINE q == CeilDiv(a, b)
<1>1. q \in Nat /\ b * q <= a + b - 1 /\ a + b - 1 < b * q + b
  BY CeilDivNat DEF CeilDiv
<1> HIDE DEF q
<1>2. CASE t < q
  <2>1. q - 1 - t \in Nat
    BY <1>1, <1>2
  <2>2. b * (q - 1 - t) >= 0 /\ b * (q - 1 - t) = b * q - b - t * b
    BY <1>1, <2>1
  <2> DEFINE bq == b * q
             tb == t * b
  <2>3. bq \in Nat /\ tb \in Nat /\ bq - b - tb >= 0 /\ bq <= a + b - 1
    BY <1>1, <2>2
  <2> HIDE DEF bq, tb
  <2>4. tb < a
    BY <2>3
  <2> QED BY <1>2, <2>4 DEF tb, q
<1>3. CASE t >= q
  <2>1. t - q \in Nat
    BY <1>1, <1>3
  <2>2. b * (t - q) >= 0 /\ b * (t - q) = t * b - b * q
    BY <1>1, <2>1
  <2> DEFINE bq == b * q
             tb == t * b
  <2>3. bq \in Nat /\ tb \in Nat /\ tb - bq >= 0 /\ a + b - 1 < bq + b
    BY <1>1, <2>2
  <2> HIDE DEF bq, tb
  <2>4. ~(tb < a)
    BY <2>3
  <2> QED BY <1>1, <1>3, <2>4 DEF tb, q
<1> QED BY <1>1, <1>2, <1>3

\* The block that row i falls to, and its tile.
TileFor(L, i) == <<IF L.step = 0 THEN i \div L.br ELSE (i \div L.br) % L.step, i \div L.br>>

\* A block comes to the tile of each row,
LEMMA TileHas ==
  ASSUME NEW c, Callable(c), NEW L, Shaped(L, c), NEW b, NEW h, NEW i, IsRow(L, c, b, h, i)
  PROVE  \E x \in 0 .. L.grid_x - 1 : \E qb \in TilesOfBlock(L, c, x) :
           TileFor(L, i) = <<x, qb>> /\ i \in qb * L.br .. qb * L.br + L.br - 1
<1>1. /\ L.br \in Nat \ {0} /\ L.step \in Nat /\ L.grid_x \in Nat \ {0} /\ L.rows \in Nat
      /\ c.max_seqlen_q \in Nat /\ i \in Nat /\ i < SeqQ(L, c, b)
  BY CallTypes DEF Shaped, Typed, IsRow
<1>2. PICK q \in Nat, r \in 0 .. L.br - 1 : i \div L.br = q /\ i = q * L.br + r
  BY <1>1, DividedBack
<1>3. q * L.br \in Nat /\ i \in q * L.br .. q * L.br + L.br - 1 /\ q * L.br <= i
  BY <1>1, <1>2
<1>4. CASE L.step = 0
  <2>1. PICK rows \in Nat : rows = IF Ragged(L) THEN c.max_seqlen_q ELSE L.rows
    BY <1>1
  <2>2. SeqQ(L, c, b) <= rows /\ SeqQ(L, c, b) \in Int
    <3>1. CASE Ragged(L)
      <4>1. SeqQ(L, c, b) <= c.max_seqlen_q
        BY <3>1, RaggedEnds DEF IsRow
      <4>2. PICK cuq : Ends(cuq, c.batch, c.total_q) /\ SeqQ(L, c, b) = cuq[b + 1] - cuq[b]
        BY <3>1, RaggedEnds DEF IsRow
      <4>3. cuq[b] \in Nat /\ cuq[b + 1] \in Nat
        <5>1. b \in 0 .. c.batch /\ b + 1 \in 0 .. c.batch
          BY CallTypes DEF IsRow, Batches
        <5> QED BY <4>2, <5>1 DEF Ends
      <4> QED BY <2>1, <3>1, <4>1, <4>2, <4>3
    <3>2. CASE ~Ragged(L)
      BY <1>1, <2>1, <3>2 DEF SeqQ
    <3> QED BY <3>1, <3>2
  <2>3. q < CeilDiv(rows, L.br)
    <3>1. q * L.br < rows
      BY <1>1, <1>3, <2>2
    <3> QED BY <1>1, <3>1, CeilDivTiles
  <2>4. q \in 0 .. L.grid_x - 1
    BY <1>1, <1>4, <2>1, <2>3 DEF Shaped, Tiled
  <2>5. q \in TilesOfBlock(L, c, q) /\ TileFor(L, i) = <<q, q>>
    BY <1>2, <1>4 DEF TilesOfBlock, TileFor
  <2> QED BY <1>3, <2>4, <2>5
<1>5. CASE L.step # 0
  <2>1. L.step \in Nat \ {0} /\ L.step = L.grid_x /\ ~Ragged(L)
    BY <1>1, <1>5 DEF Shaped, Tiled
  <2>2. PICK p \in Nat, x \in 0 .. L.step - 1 : q % L.step = x /\ q = p * L.step + x
    <3>1. PICK s \in Nat \ {0} : s = L.step
      BY <2>1
    <3>2. \E p \in Nat, x \in 0 .. s - 1 : q \div s = p /\ q % s = x /\ q = p * s + x
      BY DividedBack
    <3> QED BY <3>1, <3>2
  <2>3. q - x = p * L.step + 0 /\ q >= x
    BY <2>1, <2>2
  <2>4. (q - x) % L.step = 0
    BY <2>1, <2>3, Divided
  <2>5. q < QTiles(L.rows, L.br)
    <3>1. q * L.br < L.rows
      BY <1>1, <1>3, <2>1 DEF SeqQ
    <3> QED BY <1>1, <3>1, CeilDivTiles DEF QTiles
  <2>6. QTiles(L.rows, L.br) \in Nat
    BY <1>1, CeilDivNat DEF QTiles
  <2>7. q \in TilesOfBlock(L, c, x)
    BY <1>5, <2>3, <2>4, <2>5, <2>6 DEF TilesOfBlock
  <2>8. TileFor(L, i) = <<x, q>>
    BY <1>2, <1>5, <2>2 DEF TileFor
  <2> QED BY <1>3, <2>1, <2>7, <2>8
<1> QED BY <1>4, <1>5

\* and no other block does.
LEMMA TileOnly ==
  ASSUME NEW c, NEW L, Shaped(L, c), NEW x \in 0 .. L.grid_x - 1, NEW qb \in TilesOfBlock(L, c, x),
         NEW i \in qb * L.br .. qb * L.br + L.br - 1
  PROVE  i \in Nat /\ qb \in Nat /\ TileFor(L, i) = <<x, qb>>
<1>1. L.br \in Nat \ {0} /\ L.step \in Nat /\ L.grid_x \in Nat \ {0} /\ L.rows \in Nat
  BY DEF Shaped, Typed
<1>2. qb \in Nat
  <2>1. QTiles(L.rows, L.br) \in Nat
    BY <1>1, CeilDivNat DEF QTiles
  <2> QED BY <1>1, <2>1 DEF TilesOfBlock
<1>3. PICK m \in Nat : m = qb * L.br
  BY <1>1, <1>2
<1>4. i - m \in 0 .. L.br - 1 /\ i = qb * L.br + (i - m) /\ i \in Nat
  BY <1>1, <1>3
<1>5. i \div L.br = qb
  BY <1>1, <1>2, <1>4, Divided, Zenon
<1>6. CASE L.step = 0
  BY <1>2, <1>4, <1>5, <1>6 DEF TilesOfBlock, TileFor
<1>7. CASE L.step # 0
  <2>1. L.step \in Nat \ {0} /\ x \in 0 .. L.step - 1 /\ qb >= x /\ (qb - x) % L.step = 0
    BY <1>1, <1>7 DEF Shaped, Tiled, TilesOfBlock
  <2>2. qb - x \in Nat
    BY <1>2, <2>1
  <2>3. PICK p \in Nat, r \in 0 .. L.step - 1 : (qb - x) % L.step = r /\ qb - x = p * L.step + r
    <3>1. PICK s \in Nat \ {0}, n \in Nat : s = L.step /\ n = qb - x
      BY <2>1, <2>2
    <3>2. \E p \in Nat, r \in 0 .. s - 1 : n \div s = p /\ n % s = r /\ n = p * s + r
      BY DividedBack
    <3> QED BY <3>1, <3>2
  <2>4. qb = p * L.step + x
    BY <1>2, <2>1, <2>3
  <2>5. qb % L.step = x
    BY <2>1, <2>4, Divided
  <2> QED BY <1>2, <1>4, <1>5, <1>7, <2>5 DEF TileFor
<1> QED BY <1>6, <1>7

\* No head is left over.
LEMMA HeadsCovered ==
  ASSUME NEW c, Callable(c), NEW L, Shaped(L, c)
  PROVE  CoveredHeads(L, c) = 0 .. c.heads - 1
<1>1. L.group \in Nat \ {0} /\ c.heads \in Nat /\ c.heads % L.group = 0
  BY CallTypes DEF Shaped, Typed, Grouped
<1>2. PICK q \in Nat, r \in 0 .. L.group - 1 :
        c.heads \div L.group = q /\ c.heads % L.group = r /\ c.heads = q * L.group + r
  BY <1>1, DividedBack
<1>3. (c.heads \div L.group) * L.group = c.heads
  BY <1>1, <1>2
<1> QED BY <1>3 DEF CoveredHeads

-----------------------------------------------------------------------------
(* What is in O when it has been written.                                  *)

StoredRow(L, c, b, h, i, k) ==
  [at |-> OutRow(L, c, b, h, i), tile |-> TileFor(L, i), row |-> <<b, h, i>>,
   keys |-> Attended(L, c, b, h, i \div L.br, i, k)]

\* A launch stores each row once.
LEMMA StoresAre ==
  ASSUME NEW c, Callable(c), NEW L, Shaped(L, c), NEW k, NEW s
  PROVE  s \in Stores(L, c, k) <=> \E b, h, i : IsRow(L, c, b, h, i) /\ s = StoredRow(L, c, b, h, i, k)
<1>1. ASSUME s \in Stores(L, c, k)
      PROVE  \E b, h, i : IsRow(L, c, b, h, i) /\ s = StoredRow(L, c, b, h, i, k)
  <2>1. PICK b \in Batches(c), h \in CoveredHeads(L, c), x \in 0 .. L.grid_x - 1 :
          s \in UNION {{[at |-> OutRow(L, c, b, h, i), tile |-> <<x, qb>>, row |-> <<b, h, i>>,
                         keys |-> Attended(L, c, b, h, qb, i, k)] :
                          i \in {i \in qb * L.br .. qb * L.br + L.br - 1 : i < SeqQ(L, c, b)}} :
                         qb \in TilesOfBlock(L, c, x)}
    BY <1>1 DEF Stores
  <2>2. PICK qb \in TilesOfBlock(L, c, x) :
          s \in {[at |-> OutRow(L, c, b, h, i), tile |-> <<x, qb>>, row |-> <<b, h, i>>,
                  keys |-> Attended(L, c, b, h, qb, i, k)] :
                   i \in {i \in qb * L.br .. qb * L.br + L.br - 1 : i < SeqQ(L, c, b)}}
    BY <2>1
  <2>3. PICK i \in qb * L.br .. qb * L.br + L.br - 1 :
          /\ i < SeqQ(L, c, b)
          /\ s = [at |-> OutRow(L, c, b, h, i), tile |-> <<x, qb>>, row |-> <<b, h, i>>,
                  keys |-> Attended(L, c, b, h, qb, i, k)]
    BY <2>2
  <2>4. i \in Nat /\ TileFor(L, i) = <<x, qb>>
    BY TileOnly
  <2>5. i \div L.br = qb
    BY <2>4 DEF TileFor
  <2>6. IsRow(L, c, b, h, i)
    BY <2>3, <2>4, HeadsCovered DEF IsRow
  <2> QED BY <2>3, <2>4, <2>5, <2>6 DEF StoredRow
<1>2. ASSUME NEW b, NEW h, NEW i, IsRow(L, c, b, h, i), s = StoredRow(L, c, b, h, i, k)
      PROVE  s \in Stores(L, c, k)
  <2>1. PICK x \in 0 .. L.grid_x - 1 : \E qb \in TilesOfBlock(L, c, x) :
          TileFor(L, i) = <<x, qb>> /\ i \in qb * L.br .. qb * L.br + L.br - 1
    BY <1>2, TileHas
  <2>2. PICK qb \in TilesOfBlock(L, c, x) :
          TileFor(L, i) = <<x, qb>> /\ i \in qb * L.br .. qb * L.br + L.br - 1
    BY <2>1
  <2>3. i \div L.br = qb /\ i < SeqQ(L, c, b) /\ b \in Batches(c) /\ h \in CoveredHeads(L, c)
    BY <1>2, <2>2, HeadsCovered DEF TileFor, IsRow
  <2>4. s = [at |-> OutRow(L, c, b, h, i), tile |-> <<x, qb>>, row |-> <<b, h, i>>,
             keys |-> Attended(L, c, b, h, qb, i, k)]
    BY <1>2, <2>2, <2>3 DEF StoredRow
  <2>5. s \in {[at |-> OutRow(L, c, b, h, j), tile |-> <<x, qb>>, row |-> <<b, h, j>>,
                keys |-> Attended(L, c, b, h, qb, j, k)] :
                 j \in {j \in qb * L.br .. qb * L.br + L.br - 1 : j < SeqQ(L, c, b)}}
    BY <2>2, <2>3, <2>4
  <2>6. s \in UNION {{[at |-> OutRow(L, c, b, h, j), tile |-> <<x, q>>, row |-> <<b, h, j>>,
                       keys |-> Attended(L, c, b, h, q, j, k)] :
                        j \in {j \in q * L.br .. q * L.br + L.br - 1 : j < SeqQ(L, c, b)}} :
                       q \in TilesOfBlock(L, c, x)}
    BY <2>5
  <2> DEFINE Block(bb, hh, xx) ==
               UNION {{[at |-> OutRow(L, c, bb, hh, j), tile |-> <<xx, q>>, row |-> <<bb, hh, j>>,
                        keys |-> Attended(L, c, bb, hh, q, j, k)] :
                         j \in {j \in q * L.br .. q * L.br + L.br - 1 : j < SeqQ(L, c, bb)}} :
                        q \in TilesOfBlock(L, c, xx)}
  <2>7. Stores(L, c, k) =
          UNION {Block(bb, hh, xx) : bb \in Batches(c), hh \in CoveredHeads(L, c), xx \in 0 .. L.grid_x - 1}
    BY DEF Stores
  <2>8. s \in Block(b, h, x)
    BY <2>6
  <2> HIDE DEF Block
  <2> QED BY <2>3, <2>7, <2>8
<1> QED BY <1>1, <1>2

\* The keys of a row, of all splits.
SplitsOf(L) == IF L.split THEN 0 .. L.splits - 1 ELSE {0}

AllKeys(L, c, b, h, i) == UNION {Attended(L, c, b, h, i \div L.br, i, k) : k \in SplitsOf(L)}

FinalRow(L, c, b, h, i) ==
  [at |-> OutRow(L, c, b, h, i), tile |-> IF L.split THEN <<0, 0>> ELSE TileFor(L, i),
   row |-> <<b, h, i>>, keys |-> AllKeys(L, c, b, h, i)]

Final(L, c, o) == \A s : s \in o <=> \E b, h, i : IsRow(L, c, b, h, i) /\ s = FinalRow(L, c, b, h, i)

\* Without splits one launch is all,
LEMMA OneLaunch ==
  ASSUME NEW c, Callable(c), NEW L, Shaped(L, c), ~L.split
  PROVE  Final(L, c, Stores(L, c, 0))
<1>1. ASSUME NEW b, NEW h, NEW i PROVE StoredRow(L, c, b, h, i, 0) = FinalRow(L, c, b, h, i)
  <2>1. AllKeys(L, c, b, h, i) = Attended(L, c, b, h, i \div L.br, i, 0)
    BY DEF AllKeys, SplitsOf
  <2> QED BY <2>1 DEF StoredRow, FinalRow
<1> QED BY <1>1, StoresAre DEF Final

\* and otherwise the merge of the launches.
LEMMA MergedLaunches ==
  ASSUME NEW c, Callable(c), NEW L, Shaped(L, c), L.split, turn = L.splits,
         NEW rows, \A k \in 0 .. turn - 1 : rows[k] = Stores(L, c, k)
  PROVE  Final(L, c, Merged(rows))
<1>1. turn \in Nat \ {0} /\ 0 \in 0 .. turn - 1 /\ SplitsOf(L) = 0 .. turn - 1
  BY DEF Shaped, Typed, Masked, SplitsOf
<1> DEFINE MergedRow(s) ==
             [at |-> s.at, tile |-> <<0, 0>>, row |-> s.row,
              keys |-> UNION {p.keys : p \in {p \in UNION {rows[k] : k \in 0 .. turn - 1} : p.at = s.at}}]
<1>2. ASSUME NEW b, NEW h, NEW i, IsRow(L, c, b, h, i)
      PROVE  MergedRow(StoredRow(L, c, b, h, i, 0)) = FinalRow(L, c, b, h, i)
  <2> DEFINE same == {p \in UNION {rows[k] : k \in 0 .. turn - 1} : p.at = OutRow(L, c, b, h, i)}
             own == {StoredRow(L, c, b, h, i, k) : k \in 0 .. turn - 1}
  <2>1. ASSUME NEW p \in same PROVE p \in own
    <3>1. PICK k \in 0 .. turn - 1 : p \in Stores(L, c, k) /\ p.at = OutRow(L, c, b, h, i)
      OBVIOUS
    <3>2. PICK bb, hh, ii : IsRow(L, c, bb, hh, ii) /\ p = StoredRow(L, c, bb, hh, ii, k)
      BY <3>1, StoresAre
    <3>3. OutRow(L, c, bb, hh, ii) = OutRow(L, c, b, h, i)
      BY <3>1, <3>2 DEF StoredRow
    <3>4. bb = b /\ hh = h /\ ii = i
      BY <1>2, <3>2, <3>3, OutRowOnce
    <3> QED BY <3>2, <3>4
  <2>2. ASSUME NEW p \in own PROVE p \in same
    <3>1. PICK k \in 0 .. turn - 1 : p = StoredRow(L, c, b, h, i, k)
      OBVIOUS
    <3>2. p \in Stores(L, c, k)
      BY <1>2, <3>1, StoresAre
    <3>3. p.at = OutRow(L, c, b, h, i)
      BY <3>1 DEF StoredRow
    <3> QED BY <3>2, <3>3
  <2>3. same = own
    BY <2>1, <2>2
  <2>4. {p.keys : p \in own} = {Attended(L, c, b, h, i \div L.br, i, k) : k \in 0 .. turn - 1}
    <3>1. \A k : StoredRow(L, c, b, h, i, k).keys = Attended(L, c, b, h, i \div L.br, i, k)
      BY DEF StoredRow
    <3> QED BY <3>1
  <2> HIDE DEF same, own
  <2>5. UNION {p.keys : p \in same} = AllKeys(L, c, b, h, i)
    BY <1>1, <2>3, <2>4 DEF AllKeys
  <2>6. /\ StoredRow(L, c, b, h, i, 0).at = OutRow(L, c, b, h, i)
        /\ StoredRow(L, c, b, h, i, 0).row = <<b, h, i>>
    BY DEF StoredRow
  <2>7. MergedRow(StoredRow(L, c, b, h, i, 0)) =
          [at |-> OutRow(L, c, b, h, i), tile |-> <<0, 0>>, row |-> <<b, h, i>>,
           keys |-> UNION {p.keys : p \in same}]
    BY <2>6 DEF same
  <2> QED BY <2>5, <2>7 DEF FinalRow
<1>3. Merged(rows) = {MergedRow(s) : s \in rows[0]}
  BY DEF Merged
<1>4. rows[0] = Stores(L, c, 0)
  BY <1>1
<1> HIDE DEF MergedRow
<1>5. ASSUME NEW s \in Merged(rows)
      PROVE  \E b, h, i : IsRow(L, c, b, h, i) /\ s = FinalRow(L, c, b, h, i)
  <2>1. PICK r \in Stores(L, c, 0) : s = MergedRow(r)
    BY <1>3, <1>4
  <2>2. PICK b, h, i : IsRow(L, c, b, h, i) /\ r = StoredRow(L, c, b, h, i, 0)
    BY <2>1, StoresAre
  <2> QED BY <1>2, <2>1, <2>2
<1>6. ASSUME NEW b, NEW h, NEW i, IsRow(L, c, b, h, i)
      PROVE  FinalRow(L, c, b, h, i) \in Merged(rows)
  <2>1. StoredRow(L, c, b, h, i, 0) \in Stores(L, c, 0)
    BY <1>6, StoresAre
  <2> QED BY <1>2, <1>3, <1>4, <1>6, <2>1
<1> QED BY <1>5, <1>6 DEF Final

\* The inductive invariant: the launch is the wrapper's, each part is of its
\* launch, and O, once written, has the row of each query row.
WrittenInv ==
  /\ call \in Calls /\ launch = Chosen(call)
  /\ turn \in Nat /\ stored \in BOOLEAN /\ DOMAIN parts \subseteq Nat
  /\ launch.split => \A k \in 0 .. turn - 1 : parts[k] = Stores(launch, call, k)
  /\ IF stored
     THEN launch.accepted = TRUE /\ (launch.split => turn = launch.splits) /\ Final(launch, call, out)
     ELSE out = {}

LEMMA WrittenInitially == Init => WrittenInv
<1> SUFFICES ASSUME Init PROVE WrittenInv
  OBVIOUS
<1>1. turn = 0 /\ parts = <<>> /\ stored = FALSE /\ out = {} /\ call \in Calls /\ launch = Chosen(call)
  BY DEF Init
<1>2. \A k \in 0 .. turn - 1 : FALSE
  BY <1>1
<1>3. DOMAIN parts \subseteq Nat
  BY <1>1
<1> QED BY <1>1, <1>2, <1>3 DEF WrittenInv

LEMMA WrittenStep == WrittenInv /\ [Next]_vars => WrittenInv'
<1> SUFFICES ASSUME WrittenInv, [Next]_vars PROVE WrittenInv'
  OBVIOUS
<1>1. PICK L, c : L = launch /\ c = call
  OBVIOUS
<1>2. /\ c \in Calls /\ L = Chosen(c) /\ turn \in Nat /\ stored \in BOOLEAN /\ DOMAIN parts \subseteq Nat
      /\ L.split => \A k \in 0 .. turn - 1 : parts[k] = Stores(L, c, k)
      /\ stored => L.accepted = TRUE /\ (L.split => turn = L.splits) /\ Final(L, c, out)
      /\ ~stored => out = {}
  BY <1>1 DEF WrittenInv
<1>3. L.accepted = TRUE => Shaped(L, c) /\ Callable(c)
  BY <1>2, CallsOK, ChosenSound DEF Sound
<1>4. CASE Run
  <2>1. /\ L.accepted = TRUE /\ ~L.split /\ out' = Stores(L, c, 0) /\ stored' = TRUE /\ turn' = 1
        /\ call' = c /\ launch' = L /\ parts' = parts
    BY <1>1, <1>4 DEF Run
  <2>2. Final(L, c, out')
    BY <1>3, <2>1, OneLaunch
  <2> QED BY <1>2, <2>1, <2>2 DEF WrittenInv
<1>5. CASE RunSplit
  <2>1. /\ L.accepted = TRUE /\ L.split /\ turn < L.splits /\ turn' = turn + 1
        /\ parts' = [k \in 0 .. turn |-> IF k < turn THEN parts[k] ELSE Stores(L, c, turn)]
        /\ call' = c /\ launch' = L /\ stored' = stored /\ out' = out
    BY <1>1, <1>5 DEF RunSplit
  <2>2. ~stored
    BY <1>2, <2>1
  <2>3. DOMAIN parts' \subseteq Nat /\ turn' \in Nat
    BY <1>2, <2>1
  <2>4. ASSUME NEW k \in 0 .. turn' - 1 PROVE parts'[k] = Stores(L, c, k)
    <3>1. k \in 0 .. turn /\ (k < turn => k \in 0 .. turn - 1) /\ (~(k < turn) => k = turn)
      BY <1>2, <2>1, <2>4
    <3> QED BY <1>2, <2>1, <3>1
  <2> QED BY <1>2, <2>1, <2>2, <2>3, <2>4 DEF WrittenInv
<1>6. CASE RunAllSplits
  <2>1. /\ L.accepted = TRUE /\ L.split /\ turn = 0 /\ turn' = L.splits
        /\ parts' = [k \in 0 .. L.splits - 1 |-> Stores(L, c, k)]
        /\ call' = c /\ launch' = L /\ stored' = stored /\ out' = out
    BY <1>1, <1>6 DEF RunAllSplits
  <2>2. L.splits \in Nat \ {0}
    BY <1>3, <2>1 DEF Shaped, Typed, Masked
  <2>3. ~stored
    BY <1>2, <2>1, <2>2
  <2>4. DOMAIN parts' \subseteq Nat /\ turn' \in Nat
    BY <2>1, <2>2
  <2>5. \A k \in 0 .. turn' - 1 : parts'[k] = Stores(L, c, k)
    BY <2>1
  <2> QED BY <1>2, <2>1, <2>3, <2>4, <2>5 DEF WrittenInv
<1>7. CASE flash_decoding_combine
  <2>1. /\ L.accepted = TRUE /\ L.split /\ turn = L.splits /\ out' = Merged(parts) /\ stored' = TRUE
        /\ call' = c /\ launch' = L /\ turn' = turn /\ parts' = parts
    BY <1>1, <1>7 DEF flash_decoding_combine
  <2>2. Final(L, c, out')
    BY <1>2, <1>3, <2>1, MergedLaunches
  <2> QED BY <1>2, <2>1, <2>2 DEF WrittenInv
<1>8. CASE UNCHANGED vars
  <2>1. /\ call' = c /\ launch' = L /\ turn' = turn /\ parts' = parts /\ stored' = stored /\ out' = out
    BY <1>1, <1>8 DEF vars
  <2> QED BY <1>2, <2>1 DEF WrittenInv
<1> QED BY <1>4, <1>5, <1>6, <1>7, <1>8 DEF Next

\* Whatever O holds, it is what the launch of the wrapper computes.
THEOREM Inductive == Spec => []WrittenInv
BY WrittenInitially, WrittenStep, PTL DEF Spec

-----------------------------------------------------------------------------
(* The head of K, the number of keys and the row of K.                     *)

\* The head of K that a head attends is the one of its group.
LEMMA HeadOf ==
  ASSUME NEW c, Callable(c), NEW L, Shaped(L, c), NEW h \in 0 .. c.heads - 1
  PROVE  KvHead(L, c, h) = OwnHead(L, c, h) /\ OwnHead(L, c, h) \in 0 .. L.kv_heads - 1
<1>1. PICK n \in Nat \ {0}, heads \in Nat \ {0} :
        n = L.kv_heads /\ heads = c.heads /\ heads % n = 0 /\ h \in 0 .. heads - 1
  BY CallTypes DEF Shaped, Typed, Grouped
<1>2. PICK ratio \in Nat : heads \div n = ratio /\ heads = ratio * n
  <2>1. \E q \in Nat, r \in 0 .. n - 1 : heads \div n = q /\ heads % n = r /\ heads = q * n + r
    BY DividedBack
  <2>2. PICK q \in Nat, r \in 0 .. n - 1 : heads \div n = q /\ heads % n = r /\ heads = q * n + r
    BY <2>1
  <2>3. r = 0 /\ heads = q * n
    BY <1>1, <2>2
  <2> QED BY <2>2, <2>3
<1>3. ratio # 0 /\ heads = n * ratio
  BY <1>2
<1>4. PICK g \in 0 .. n - 1, m \in 0 .. ratio - 1 : h = g * ratio + m
  <2>1. h \in 0 .. n * ratio - 1
    BY <1>1, <1>3
  <2> QED BY <2>1, RowOf
<1>5. \A e \in 0 .. n - 1 : (\E r \in 0 .. ratio - 1 : h = e * ratio + r) => e = g
  <2> SUFFICES ASSUME NEW e \in 0 .. n - 1, NEW r \in 0 .. ratio - 1, h = e * ratio + r PROVE e = g
    OBVIOUS
  <2>1. e * ratio + r = g * ratio + m
    BY <1>4
  <2> QED BY <2>1, RowOnce
<1>6. OwnHead(L, c, h) = CHOOSE e \in 0 .. n - 1 : \E r \in 0 .. ratio - 1 : h = e * ratio + r
  BY <1>1, <1>2 DEF OwnHead
<1>7. OwnHead(L, c, h) = g
  BY <1>4, <1>5, <1>6
<1>8. KvHead(L, c, h) = g
  <2>1. CASE L.load = "tma"
    <3>1. m * n \in 0 .. heads - 1
      <4>1. m * n + 0 \in 0 .. ratio * n - 1
        BY RowIn
      <4> QED BY <1>2, <4>1
    <3>2. h * n = g * heads + m * n
      BY <1>2, <1>4
    <3>3. (h * n) \div heads = g
      BY <3>1, <3>2, Divided
    <3> QED BY <1>1, <2>1, <3>3 DEF KvHead
  <2>2. CASE L.load # "tma"
    <3>1. h \div ratio = g
      BY <1>3, <1>4, Divided
    <3> QED BY <1>1, <1>2, <2>2, <3>1 DEF KvHead
  <2> QED BY <2>1, <2>2
<1> QED BY <1>1, <1>7, <1>8

\* A sequence has a number of keys, and a position.
LEMMA KeysAndPosition ==
  ASSUME NEW c, Callable(c), NEW L, Shaped(L, c), NEW b \in Batches(c)
  PROVE  /\ SeqKv(L, c, b) \in Nat /\ Position(L, c, b) \in Nat /\ OwnPosition(L, c, b) \in Nat
         /\ OwnKv(L, c, b) \in Nat /\ SeqQ(L, c, b) \in Int
<1>1. /\ c.seq_kv \in Nat /\ c.pos[b] \in Nat /\ c.pos[0] \in Nat /\ c.lens[b] \in Nat /\ c.offset \in Nat
      /\ L.rows \in Nat /\ L.pos \in {"zero", "host", "device", "first"}
      /\ L.bound \in {"param", "first", "each", "lens"} /\ (Ragged(L) => L.bound = "param")
  <2>1. b \in Batches(c) /\ 0 \in Batches(c)
    BY CallTypes DEF Batches
  <2>2. c.pos[b] \in Nat /\ c.pos[0] \in Nat /\ c.lens[b] \in Nat
    BY <2>1 DEF Callable
  <2> QED BY <2>2, CallTypes DEF Shaped, Typed, Placed
<1>2. SeqKv(L, c, b) \in Nat /\ SeqQ(L, c, b) \in Int
  <2>1. CASE Ragged(L)
    <3>1. PICK cuq, cuk : /\ Ends(cuq, c.batch, c.total_q) /\ Ends(cuk, c.batch, c.total_kv)
                          /\ SeqQ(L, c, b) = cuq[b + 1] - cuq[b] /\ SeqKv(L, c, b) = cuk[b + 1] - cuk[b]
      BY <2>1, RaggedEnds
    <3>2. b \in 0 .. c.batch /\ b + 1 \in 0 .. c.batch
      BY CallTypes DEF Batches
    <3>3. cuk[b] <= cuk[b + 1] /\ {cuk[b], cuk[b + 1], cuq[b], cuq[b + 1]} \subseteq Nat
      BY <3>1, <3>2 DEF Ends, Batches
    <3> QED BY <3>1, <3>3
  <2>2. CASE ~Ragged(L)
    <3>1. SeqQ(L, c, b) \in Int
      BY <1>1, <2>2 DEF SeqQ
    <3>2. SeqKv(L, c, b) \in {c.pos[0] + 1, Least(c.seq_kv, c.pos[b] + 1), c.lens[b], c.seq_kv}
      BY <1>1, <2>2 DEF SeqKv
    <3> QED BY <1>1, <3>1, <3>2 DEF Least
  <2> QED BY <2>1, <2>2
<1>3. Position(L, c, b) \in {0, c.offset, c.pos[b], c.pos[0]}
  BY <1>1 DEF Position
<1> QED BY <1>1, <1>2, <1>3 DEF OwnPosition, OwnKv

\* The layout has a row of K for every key that is looked for.
LEMMA FlatKeyNat ==
  ASSUME NEW c, Callable(c), NEW L, Shaped(L, c), NEW b \in Batches(c),
         NEW g \in 0 .. L.kv_heads - 1, NEW key \in Nat, L.load = "paged" => key < SeqKv(L, c, b)
  PROVE  FlatKey(L, c, b, g, key) \in Nat
<1>1. /\ L.kv_heads \in Nat /\ L.stride \in Nat /\ c.total_kv \in Nat /\ c.heads \in Nat /\ b \in Nat
      /\ L.layout \in {"dense", "token", "varlen", "packed"} /\ c.page_size \in Nat \ {0} /\ c.batch \in Nat
      /\ c.seq_kv \in Nat
  BY CallTypes DEF Shaped, Typed, Batches
<1>2. b \in 0 .. c.batch /\ c.cu_k[b] \in Nat /\ c.lens[b] \in Nat
  BY <1>1 DEF Batches, Callable
<1>3. CASE L.load = "paged"
  <2>1. SeqKv(L, c, b) <= Greatest(c.seq_kv, c.lens[b])
    <3>1. ~Ragged(L) /\ L.bound \in {"param", "lens"}
      BY <1>3 DEF Shaped, Placed
    <3>2. SeqKv(L, c, b) \in {c.seq_kv, c.lens[b]}
      BY <3>1 DEF SeqKv
    <3> QED BY <1>1, <1>2, <3>2 DEF Greatest
  <2>2. PICK p \in Nat, r \in 0 .. c.page_size - 1 :
          key \div c.page_size = p /\ key % c.page_size = r /\ key = p * c.page_size + r
    BY <1>1, DividedBack
  <2>3. p <= key
    <3>1. PICK e \in Nat : c.page_size = e + 1
      <4>1. c.page_size - 1 \in Nat /\ c.page_size = (c.page_size - 1) + 1
        BY <1>1
      <4> QED BY <4>1
    <3>2. PICK f \in Nat : f = p * e
      OBVIOUS
    <3>3. p * c.page_size = f + p
      BY <3>1, <3>2
    <3> QED BY <1>1, <2>2, <3>3
  <2>4. p \in 0 .. Greatest(c.seq_kv, c.lens[b])
    <3>1. SeqKv(L, c, b) \in Nat /\ Greatest(c.seq_kv, c.lens[b]) \in Nat
      BY <1>1, <1>2, KeysAndPosition DEF Greatest
    <3> QED BY <1>3, <2>1, <2>3, <3>1
  <2>5. c.table[b][p] \in Nat
    BY <2>4 DEF Callable
  <2>6. (c.table[b][p] * c.page_size + r) * L.kv_heads + g \in Nat
    <3>1. PICK t \in Nat : t = c.table[b][p] * c.page_size + r
      BY <1>1, <2>5
    <3> QED BY <1>1, <3>1
  <2> QED BY <1>3, <2>2, <2>6 DEF FlatKey
<1>4. CASE L.load # "paged"
  <2>1. PICK t \in Nat, u \in Nat : t = b * L.stride + key /\ u = b * L.kv_heads + g
    BY <1>1
  <2>2. {g * c.total_kv + c.cu_k[b] + key, (c.cu_k[b] + key) * c.heads + g, t * L.kv_heads + g,
         u * L.stride + key} \subseteq Nat
    BY <1>1, <1>2, <2>1
  <2> QED BY <1>1, <1>4, <2>1, <2>2 DEF FlatKey
<1> QED BY <1>3, <1>4

-----------------------------------------------------------------------------
(* The keys of a row, one by one.                                          *)

\* The tiles of keys that the mask leaves query tile qb.
LeftByMask(L, c, b, qb, t) ==
  CASE L.mask = "causal" -> t < (qb * L.br + L.br - 1 + Position(L, c, b) + L.bc) \div L.bc
    [] L.mask \in {"diagonal", "window"} -> t <= qb
    [] L.mask = "blocks" -> t \in c.blocks[qb]
    [] OTHER             -> TRUE

LEMMA KvTilesAre ==
  ASSUME NEW c, Callable(c), NEW L, Shaped(L, c), NEW b \in Batches(c), NEW qb, NEW k, NEW t
  PROVE  t \in KvTiles(L, c, b, qb, k) <=>
           /\ t \in Nat /\ t < CeilDiv(SeqKv(L, c, b), L.bc)
           /\ L.split => t \in SplitBlocks(CeilDiv(SeqKv(L, c, b), L.bc), L.splits, k)
           /\ LeftByMask(L, c, b, qb, t)
<1>1. PICK all \in Nat : all = CeilDiv(SeqKv(L, c, b), L.bc)
  BY KeysAndPosition, CeilDivNat DEF Shaped, Typed
<1>2. PICK mine : mine = IF L.split THEN SplitBlocks(all, L.splits, k) ELSE 0 .. all - 1
  OBVIOUS
<1>3. t \in mine <=> t \in 0 .. all - 1 /\ (L.split => t \in SplitBlocks(all, L.splits, k))
  BY <1>2 DEF SplitBlocks
<1>4. t \in KvTiles(L, c, b, qb, k) <=> t \in mine /\ LeftByMask(L, c, b, qb, t)
  BY <1>1, <1>2 DEF KvTiles, LeftByMask
<1>5. t \in 0 .. all - 1 <=> t \in Nat /\ t < all
  BY <1>1
<1> QED BY <1>1, <1>3, <1>4, <1>5

\* The keys that row i attends of split k.
KeysOf(L, c, b, i, k) ==
  {key \in Nat :
     /\ key \div L.bc \in KvTiles(L, c, b, i \div L.br, k)
     /\ Unmasked(L, c, b, i \div L.br, i, key \div L.bc, key)
     /\ L.masks => key < SeqKv(L, c, b)}

LEMMA AttendedIs ==
  ASSUME NEW c, Callable(c), NEW L, Shaped(L, c), NEW b \in Batches(c), NEW h, NEW i, NEW k
  PROVE  Attended(L, c, b, h, i \div L.br, i, k) =
           {<<key, Fetch(L, c, b, KvHead(L, c, h), key), k>> : key \in KeysOf(L, c, b, i, k)}
<1> DEFINE qb == i \div L.br
           Left(t, key) == Unmasked(L, c, b, qb, i, t, key) /\ (L.masks => key < SeqKv(L, c, b))
           keys == UNION {{key \in t * L.bc .. t * L.bc + L.bc - 1 : Left(t, key)} :
                            t \in KvTiles(L, c, b, qb, k)}
<1>1. L.bc \in Nat \ {0}
  BY DEF Shaped, Typed
<1>2. \A t \in KvTiles(L, c, b, qb, k) : t \in Nat
  BY KvTilesAre
<1>3. KeysOf(L, c, b, i, k) =
        {key \in Nat : key \div L.bc \in KvTiles(L, c, b, qb, k) /\ Left(key \div L.bc, key)}
  BY DEF KeysOf
<1>4. Attended(L, c, b, h, qb, i, k) = {<<key, Fetch(L, c, b, KvHead(L, c, h), key), k>> : key \in keys}
  BY DEF Attended
<1> HIDE DEF Left, qb
<1>5. ASSUME NEW key \in keys PROVE key \in KeysOf(L, c, b, i, k)
  <2>1. PICK t \in KvTiles(L, c, b, qb, k) : key \in t * L.bc .. t * L.bc + L.bc - 1 /\ Left(t, key)
    BY <1>5
  <2>2. PICK m \in Nat : m = t * L.bc /\ t \in Nat
    BY <1>1, <1>2
  <2>3. key - m \in 0 .. L.bc - 1 /\ key = t * L.bc + (key - m) /\ key \in Nat
    BY <1>1, <2>1, <2>2
  <2>4. key \div L.bc = t
    BY <1>1, <2>2, <2>3, Divided
  <2> QED BY <1>3, <2>1, <2>3, <2>4
<1>6. ASSUME NEW key \in KeysOf(L, c, b, i, k) PROVE key \in keys
  <2>1. key \in Nat /\ key \div L.bc \in KvTiles(L, c, b, qb, k) /\ Left(key \div L.bc, key)
    BY <1>3, <1>6
  <2>2. PICK t \in Nat, r \in 0 .. L.bc - 1 : key \div L.bc = t /\ key = t * L.bc + r
    BY <1>1, <2>1, DividedBack
  <2>3. key \in t * L.bc .. t * L.bc + L.bc - 1
    BY <1>1, <2>2
  <2>4. key \in {kk \in t * L.bc .. t * L.bc + L.bc - 1 : Left(t, kk)}
    BY <2>1, <2>2, <2>3
  <2> QED BY <2>1, <2>2, <2>4
<1>7. keys = KeysOf(L, c, b, i, k)
  BY <1>5, <1>6
<1> HIDE DEF keys
<1> QED BY <1>4, <1>7 DEF qb

\* What all splits attend.
LEMMA KeyIs ==
  ASSUME NEW c, Callable(c), NEW L, Shaped(L, c), NEW b \in Batches(c), NEW h, NEW i, NEW x
  PROVE  x \in AllKeys(L, c, b, h, i) <=>
           \E k \in SplitsOf(L) : \E key \in KeysOf(L, c, b, i, k) :
             x = <<key, Fetch(L, c, b, KvHead(L, c, h), key), k>>
<1>1. x \in AllKeys(L, c, b, h, i) <=> \E k \in SplitsOf(L) : x \in Attended(L, c, b, h, i \div L.br, i, k)
  BY DEF AllKeys
<1>2. \A k : Attended(L, c, b, h, i \div L.br, i, k) =
               {<<key, Fetch(L, c, b, KvHead(L, c, h), key), k>> : key \in KeysOf(L, c, b, i, k)}
  BY AttendedIs
<1> QED BY <1>1, <1>2

\* What lands in shared memory is nothing or the row of the key's place.
LEMMA FetchIs ==
  ASSUME NEW c, Callable(c), NEW L, Shaped(L, c), NEW b \in Batches(c), NEW h \in 0 .. c.heads - 1,
         NEW key \in Nat
  PROVE  LET got == Fetch(L, c, b, KvHead(L, c, h), key)
         IN  /\ got = NoRow \/ got \in Nat
             /\ got # NoRow => /\ got = FlatKey(L, c, b, OwnHead(L, c, h), key)
                               /\ IF L.load = "tma" THEN got < DescriptorRows(L, c) ELSE key < SeqKv(L, c, b)
             /\ got = NoRow => IF L.load = "tma"
                               THEN ~(FlatKey(L, c, b, OwnHead(L, c, h), key) < DescriptorRows(L, c))
                               ELSE ~(key < SeqKv(L, c, b))
<1>1. PICK g \in 0 .. L.kv_heads - 1 : g = KvHead(L, c, h) /\ g = OwnHead(L, c, h)
  BY HeadOf
<1>2. (L.load = "paged" => key < SeqKv(L, c, b)) => FlatKey(L, c, b, g, key) \in Nat
  BY FlatKeyNat
<1>3. NoRow \notin Nat
  BY DEF NoRow
<1>4. CASE L.load = "tma"
  <2>1. FlatKey(L, c, b, g, key) \in Nat
    BY <1>2, <1>4
  <2>2. Fetch(L, c, b, g, key) = IF FlatKey(L, c, b, g, key) < DescriptorRows(L, c)
                                 THEN FlatKey(L, c, b, g, key) ELSE NoRow
    BY <1>4 DEF Fetch
  <2> QED BY <1>1, <1>3, <1>4, <2>1, <2>2
<1>5. CASE L.load # "tma"
  <2>1. Fetch(L, c, b, g, key) = IF key < SeqKv(L, c, b) THEN FlatKey(L, c, b, g, key) ELSE NoRow
    BY <1>5 DEF Fetch
  <2> QED BY <1>1, <1>2, <1>3, <1>5, <2>1
<1> QED BY <1>4, <1>5

\* The type invariant.
LEMMA WrittenTypes == WrittenInv => ForwardTypeOK
<1> SUFFICES ASSUME WrittenInv PROVE ForwardTypeOK
  OBVIOUS
<1>1. PICK L, c : L = launch /\ c = call
  OBVIOUS
<1>2. /\ c \in Calls /\ L = Chosen(c) /\ turn \in Nat /\ stored \in BOOLEAN /\ DOMAIN parts \subseteq Nat
      /\ stored => L.accepted = TRUE /\ Final(L, c, out)
      /\ ~stored => out = {}
  BY <1>1 DEF WrittenInv
<1>3. L.accepted = TRUE => Shaped(L, c) /\ Callable(c)
  BY <1>2, CallsOK, ChosenSound DEF Sound
<1>4. L.accepted => L.br > 0 /\ L.bc > 0 /\ L.grid_x > 0 /\ L.step <= NumSMs
  BY <1>3 DEF Shaped, Typed
<1>5. ASSUME NEW s \in out PROVE s.at \in Nat /\ \A k \in s.keys : k[1] \in Nat /\ k[2] \in Nat \cup {NoRow}
  <2>1. stored /\ Shaped(L, c) /\ Callable(c) /\ Final(L, c, out)
    BY <1>2, <1>3, <1>5
  <2>2. PICK b, h, i : IsRow(L, c, b, h, i) /\ s = FinalRow(L, c, b, h, i)
    BY <1>5, <2>1 DEF Final
  <2>3. s.at = OutRow(L, c, b, h, i) /\ s.keys = AllKeys(L, c, b, h, i)
    BY <2>2 DEF FinalRow
  <2>4. s.at \in Nat
    BY <2>1, <2>2, <2>3, OutRowIn
  <2>5. ASSUME NEW x \in s.keys PROVE x[1] \in Nat /\ x[2] \in Nat \cup {NoRow}
    <3>1. b \in Batches(c) /\ h \in 0 .. c.heads - 1
      BY <2>2 DEF IsRow
    <3>2. PICK k \in SplitsOf(L), key \in Nat : x = <<key, Fetch(L, c, b, KvHead(L, c, h), key), k>>
      BY <2>1, <2>3, <2>5, <3>1, KeyIs DEF KeysOf
    <3> QED BY <2>1, <3>1, <3>2, FetchIs
  <2> QED BY <2>4, <2>5
<1> QED BY <1>1, <1>2, <1>4, <1>5 DEF ForwardTypeOK

\* Threads that copy the tiles bring in no row of another sequence or head.
LEMMA WrittenIsolated == WrittenInv => Isolation
<1> SUFFICES ASSUME WrittenInv, stored, launch.load # "tma", NEW s \in out, NEW x \in s.keys,
                    x[2] # NoRow
             PROVE  LET b == s.row[1]  h == s.row[2]
                    IN  /\ x[1] < SeqKv(launch, call, b)
                        /\ x[2] = FlatKey(launch, call, b, OwnHead(launch, call, h), x[1])
  BY DEF Isolation
<1>1. PICK L, c : L = launch /\ c = call
  OBVIOUS
<1>2. Shaped(L, c) /\ Callable(c) /\ Final(L, c, out)
  BY <1>1, CallsOK, ChosenSound DEF WrittenInv, Sound
<1>3. PICK b, h, i : IsRow(L, c, b, h, i) /\ s = FinalRow(L, c, b, h, i)
  BY <1>2 DEF Final
<1>4. s.row[1] = b /\ s.row[2] = h /\ s.keys = AllKeys(L, c, b, h, i)
  BY <1>3 DEF FinalRow
<1>5. b \in Batches(c) /\ h \in 0 .. c.heads - 1
  BY <1>3 DEF IsRow
<1>6. PICK k \in SplitsOf(L), key \in Nat : x = <<key, Fetch(L, c, b, KvHead(L, c, h), key), k>>
  BY <1>2, <1>4, <1>5, KeyIs DEF KeysOf
<1>7. x[1] = key /\ x[2] = Fetch(L, c, b, KvHead(L, c, h), key)
  BY <1>6
<1>8. x[1] < SeqKv(L, c, b) /\ x[2] = FlatKey(L, c, b, OwnHead(L, c, h), x[1])
  BY <1>1, <1>2, <1>5, <1>7, FetchIs
<1> QED BY <1>1, <1>4, <1>8

\* The state has its types, for every call.
THEOREM TypeCorrect == Spec => []ForwardTypeOK
BY Inductive, WrittenTypes, PTL

\* No sequence or head is given rows of another by threads that copy the tiles.
THEOREM RowsIsolated == Spec => []Isolation
BY Inductive, WrittenIsolated, PTL

-----------------------------------------------------------------------------
(* Each row once, and within the buffers.                                  *)

\* What has one element for each of S has as many.
LEMMA OneForEach ==
  ASSUME NEW S, IsFiniteSet(S), NEW T, \A t \in T : t[1] \in S,
         \A x \in S : \E t \in T : t[1] = x, \A t \in T, u \in T : t[1] = u[1] => t = u
  PROVE  Cardinality(T) = Cardinality(S)
<1> DEFINE f == [x \in S |-> CHOOSE t \in T : t[1] = x]
<1>1. \A x \in S : f[x] \in T /\ f[x][1] = x
  OBVIOUS
<1>2. f \in [S -> T]
  BY <1>1
<1> HIDE DEF f
<1>3. \A x \in S, y \in S : f[x] = f[y] => x = y
  BY <1>1
<1>4. \A t \in T : \E x \in S : f[x] = t
  BY <1>1
<1>5. f \in Bijection(S, T)
  BY <1>2, <1>3, <1>4 DEF Bijection, Injection, IsInjective, Surjection
<1> QED BY <1>5, FS_Bijection DEF ExistsBijection

LEMMA WrittenOnce == WrittenInv => RowsWrittenOnce
<1> SUFFICES ASSUME WrittenInv, stored
             PROVE  LET rows == IF Ragged(launch) THEN call.heads * call.cu_q[call.batch]
                                ELSE call.batch * call.heads * launch.rows
                    IN  /\ {s.at : s \in out} = 0 .. rows - 1
                        /\ Cardinality({<<s.at, s.tile, s.row>> : s \in out}) = rows
  BY DEF RowsWrittenOnce
<1>1. PICK L, c : L = launch /\ c = call
  OBVIOUS
<1>2. Shaped(L, c) /\ Callable(c) /\ Final(L, c, out)
  BY <1>1, CallsOK, ChosenSound DEF WrittenInv, Sound
<1>3. PICK rows \in Nat : rows = RowCount(L, c)
  <2>1. CASE Ragged(L)
    <3>1. RowCount(L, c) = c.heads * c.total_q
      BY <1>2, <2>1, RaggedEnds
    <3> QED BY <1>2, <3>1, CallTypes
  <2>2. CASE ~Ragged(L)
    <3>1. RowCount(L, c) = c.batch * c.heads * L.rows
      BY <2>2 DEF RowCount
    <3>2. c.batch \in Nat /\ c.heads \in Nat /\ L.rows \in Nat
      BY <1>2, CallTypes DEF Shaped, Typed
    <3> QED BY <3>1, <3>2
  <2> QED BY <2>1, <2>2
<1>4. ASSUME NEW s \in out PROVE s.at \in 0 .. rows - 1
  <2>1. PICK b, h, i : IsRow(L, c, b, h, i) /\ s = FinalRow(L, c, b, h, i)
    BY <1>2 DEF Final
  <2> QED BY <1>2, <1>3, <2>1, OutRowIn DEF FinalRow
<1>5. ASSUME NEW x \in 0 .. rows - 1 PROVE \E s \in out : s.at = x
  <2>1. PICK b, h, i : IsRow(L, c, b, h, i) /\ OutRow(L, c, b, h, i) = x
    BY <1>2, <1>3, OutRowOf
  <2>2. FinalRow(L, c, b, h, i) \in out
    BY <1>2, <2>1 DEF Final
  <2> QED BY <2>1, <2>2 DEF FinalRow
<1>6. ASSUME NEW s \in out, NEW t \in out, s.at = t.at PROVE s = t
  <2>1. PICK b, h, i : IsRow(L, c, b, h, i) /\ s = FinalRow(L, c, b, h, i)
    BY <1>2 DEF Final
  <2>2. PICK bb, hh, ii : IsRow(L, c, bb, hh, ii) /\ t = FinalRow(L, c, bb, hh, ii)
    BY <1>2 DEF Final
  <2>3. OutRow(L, c, b, h, i) = OutRow(L, c, bb, hh, ii)
    BY <1>6, <2>1, <2>2 DEF FinalRow
  <2>4. b = bb /\ h = hh /\ i = ii
    BY <1>2, <2>1, <2>2, <2>3, OutRowOnce
  <2> QED BY <2>1, <2>2, <2>4
<1>7. {s.at : s \in out} = 0 .. rows - 1
  BY <1>4, <1>5
<1>8. Cardinality({<<s.at, s.tile, s.row>> : s \in out}) = rows
  <2> DEFINE T == {<<s.at, s.tile, s.row>> : s \in out}
  <2>1. \A t \in T : t[1] \in 0 .. rows - 1
    BY <1>4
  <2>2. ASSUME NEW x \in 0 .. rows - 1 PROVE \E t \in T : t[1] = x
    <3>1. PICK s \in out : s.at = x
      BY <1>5
    <3>2. <<s.at, s.tile, s.row>> \in T /\ <<s.at, s.tile, s.row>>[1] = x
      BY <3>1
    <3> QED BY <3>2
  <2>3. \A t \in T, u \in T : t[1] = u[1] => t = u
    BY <1>6
  <2>4. IsFiniteSet(0 .. rows - 1) /\ Cardinality(0 .. rows - 1) = rows
    BY FS_Interval
  <2> HIDE DEF T
  <2>5. Cardinality(T) = rows
    BY <2>1, <2>2, <2>3, <2>4, OneForEach
  <2> QED BY <2>5 DEF T
<1> QED BY <1>1, <1>3, <1>7, <1>8 DEF RowCount

\* The row of a key within the stride is within the cache.
LEMMA FlatKeyIn ==
  ASSUME NEW c, Callable(c), NEW L, Shaped(L, c), ~Ragged(L), L.load # "paged", NEW b \in Batches(c),
         NEW g \in 0 .. L.kv_heads - 1, NEW key \in Nat, key < L.stride
  PROVE  FlatKey(L, c, b, g, key) < c.batch * L.kv_heads * L.stride
<1>1. /\ c.batch \in Nat /\ L.kv_heads \in Nat \ {0} /\ L.stride \in Nat /\ b \in 0 .. c.batch - 1
      /\ key \in 0 .. L.stride - 1 /\ L.layout \in {"dense", "token"}
  BY CallTypes DEF Shaped, Typed, Ragged, Batches
<1>2. CASE L.layout = "token"
  <2>1. PICK n \in Nat : n = c.batch * L.stride
    BY <1>1
  <2>2. PICK x \in 0 .. n - 1 : x = b * L.stride + key
    BY <1>1, <2>1, RowIn
  <2>3. x * L.kv_heads + g \in 0 .. n * L.kv_heads - 1
    BY <1>1, RowIn
  <2>4. n * L.kv_heads = c.batch * L.kv_heads * L.stride /\ n * L.kv_heads \in Nat
    BY <1>1, <2>1
  <2>5. FlatKey(L, c, b, g, key) = x * L.kv_heads + g
    BY <1>2, <2>2 DEF FlatKey
  <2> QED BY <2>3, <2>4, <2>5
<1>3. CASE L.layout = "dense"
  <2>1. PICK n \in Nat : n = c.batch * L.kv_heads
    BY <1>1
  <2>2. PICK x \in 0 .. n - 1 : x = b * L.kv_heads + g
    BY <1>1, <2>1, RowIn
  <2>3. x * L.stride + key \in 0 .. n * L.stride - 1
    BY <1>1, RowIn
  <2>4. n * L.stride = c.batch * L.kv_heads * L.stride /\ n * L.stride \in Nat
    BY <1>1, <2>1
  <2>5. FlatKey(L, c, b, g, key) = x * L.stride + key
    BY <1>3, <2>2 DEF FlatKey
  <2> QED BY <2>3, <2>4, <2>5
<1> QED BY <1>1, <1>2, <1>3

\* A measured launch reads and writes nothing behind its buffers.
LEMMA WrittenInBounds == WrittenInv => InBounds
<1> SUFFICES ASSUME WrittenInv, stored, call.fn \in Measuring,
                    launch.bound = "first" => call.pos[0] < call.kv_stride
             PROVE  /\ launch.v_stride <= call.v
                    /\ \A s \in out : s.at < call.o
                                      /\ \A k \in s.keys : k[2] < call.k
                                                           /\ (launch.v_stride = 0 => k[2] < call.v)
  BY DEF InBounds
<1>1. PICK L, c : L = launch /\ c = call
  OBVIOUS
<1>2. Shaped(L, c) /\ Callable(c) /\ Final(L, c, out) /\ Roomy(L, c)
  BY <1>1, CallsOK, ChosenSound DEF WrittenInv, Sound
<1>3. PICK space \in Nat : space = c.batch * L.kv_heads * L.stride
  <2>1. c.batch \in Nat /\ L.kv_heads \in Nat /\ L.stride \in Nat
    BY <1>2, CallTypes DEF Shaped, Typed
  <2> QED BY <2>1
<1>4. /\ ~Ragged(L) /\ L.load # "paged" /\ L.v_stride <= c.v /\ space <= c.k /\ (L.v_stride = 0 => space <= c.v)
      /\ c.k \in Nat /\ c.v \in Nat
  BY <1>2, <1>3, CallTypes DEF Roomy
<1>5. ASSUME NEW s \in out
      PROVE  s.at < c.o /\ \A x \in s.keys : x[2] < space
  <2>1. PICK b, h, i : IsRow(L, c, b, h, i) /\ s = FinalRow(L, c, b, h, i)
    BY <1>2 DEF Final
  <2>2. b \in Batches(c) /\ h \in 0 .. c.heads - 1
    BY <2>1 DEF IsRow
  <2>3. s.at < c.o
    <3>1. s.at \in 0 .. RowCount(L, c) - 1
      BY <1>2, <2>1, OutRowIn DEF FinalRow
    <3>2. PICK rows \in Nat : rows = c.batch * c.heads * L.rows
      <4>1. c.batch \in Nat /\ c.heads \in Nat /\ L.rows \in Nat
        BY <1>2, CallTypes DEF Shaped, Typed
      <4> QED BY <4>1
    <3>3. RowCount(L, c) = rows /\ rows <= c.o /\ c.o \in Nat
      BY <1>2, <1>4, <3>2, CallTypes DEF RowCount, Roomy
    <3> QED BY <3>1, <3>3
  <2>4. ASSUME NEW x \in s.keys PROVE x[2] < space
    <3>1. s.keys = AllKeys(L, c, b, h, i)
      BY <2>1 DEF FinalRow
    <3>2. PICK k \in SplitsOf(L), key \in Nat : x = <<key, Fetch(L, c, b, KvHead(L, c, h), key), k>>
      BY <1>2, <2>2, <2>4, <3>1, KeyIs DEF KeysOf
    <3>3. PICK got : got = Fetch(L, c, b, KvHead(L, c, h), key) /\ x[2] = got
      BY <3>2
    <3>4. PICK g \in 0 .. L.kv_heads - 1 : g = OwnHead(L, c, h)
      BY <1>2, <2>2, HeadOf
    <3>5. CASE got = NoRow
      BY <3>3, <3>5 DEF NoRow
    <3>6. CASE got # NoRow /\ L.load = "tma"
      <4>1. got < DescriptorRows(L, c)
        BY <1>2, <2>2, <3>3, <3>6, FetchIs
      <4>2. DescriptorRows(L, c) = c.batch * L.kv_heads * c.seq_kv /\ L.stride = c.seq_kv
        BY <1>2, <1>4, <3>6 DEF DescriptorRows, KvRows, Ragged, Shaped, Placed
      <4> QED BY <1>3, <3>3, <4>1, <4>2
    <3>7. CASE got # NoRow /\ L.load # "tma"
      <4>1. key < SeqKv(L, c, b) /\ got = FlatKey(L, c, b, g, key)
        BY <1>2, <2>2, <3>3, <3>4, <3>7, FetchIs
      <4>2. SeqKv(L, c, b) <= L.stride /\ SeqKv(L, c, b) \in Nat /\ L.stride \in Nat
        <5>1. /\ L.bound \in {"param", "first", "each"} /\ c.seq_kv \in Nat /\ c.kv_stride \in Nat
              /\ c.pos[0] \in Nat /\ c.pos[b] \in Nat /\ L.stride \in Nat
          <6>1. b \in Batches(c) /\ 0 \in Batches(c)
            BY <1>2, <2>2, CallTypes DEF Batches
          <6>2. c.pos[0] \in Nat /\ c.pos[b] \in Nat
            BY <1>2, <6>1 DEF Callable
          <6> QED BY <1>2, <1>4, <6>2, CallTypes DEF Shaped, Typed, Placed
        <5>2. /\ L.bound \in {"param", "each"} => c.seq_kv <= L.stride
              /\ L.bound = "first" => L.stride = c.kv_stride /\ c.pos[0] < c.kv_stride
          BY <1>1, <1>2 DEF Roomy
        <5>3. SeqKv(L, c, b) = CASE L.bound = "first" -> c.pos[0] + 1
                                 [] L.bound = "each" -> Least(c.seq_kv, c.pos[b] + 1)
                                 [] L.bound = "param" -> c.seq_kv
          BY <1>4, <5>1 DEF SeqKv
        <5> QED BY <5>1, <5>2, <5>3 DEF Least
      <4>3. key < L.stride
        BY <4>1, <4>2
      <4>4. FlatKey(L, c, b, g, key) < c.batch * L.kv_heads * L.stride
        BY <1>2, <1>4, <2>2, <4>3, FlatKeyIn
      <4> QED BY <1>3, <3>3, <4>1, <4>4
    <3> QED BY <3>5, <3>6, <3>7
  <2> QED BY <2>3, <2>4
<1>6. ASSUME NEW s \in out, NEW x \in s.keys PROVE x[2] < c.k /\ (L.v_stride = 0 => x[2] < c.v)
  <2>1. x[2] < space /\ x[2] \in Int
    <3>1. ForwardTypeOK
      BY WrittenTypes
    <3>2. x[2] \in Nat \cup {NoRow}
      BY <3>1, <1>6 DEF ForwardTypeOK
    <3> QED BY <1>5, <1>6, <3>2 DEF NoRow
  <2> QED BY <1>3, <1>4, <2>1
<1> QED BY <1>1, <1>4, <1>5, <1>6

\* No block leaves out or repeats a row of O, whatever the grid, the layout and the splits.
THEOREM RowsOnce == Spec => []RowsWrittenOnce
BY Inductive, WrittenOnce, PTL

\* The wrappers that measure the buffers launch nothing that goes behind them.
THEOREM BoundsKept == Spec => []InBounds
BY Inductive, WrittenInBounds, PTL

-----------------------------------------------------------------------------
(* A row attends what is asked for and the padding, once.                  *)

\* Every block of keys is in one split,
LEMMA SplitHas ==
  ASSUME NEW all \in Nat, NEW n \in Nat \ {0}, NEW t \in 0 .. all - 1
  PROVE  \E k \in 0 .. n - 1 : t \in SplitBlocks(all, n, k)
<1>1. PICK size \in Nat : size = CeilDiv(all, n)
  BY CeilDivNat
<1>2. ~(size * n < all)
  BY <1>1, CeilDivTiles
<1>3. t \in 0 .. n * size - 1
  <2>1. PICK m \in Nat : m = n * size
    BY <1>1
  <2>2. m = size * n
    BY <2>1
  <2> QED BY <1>2, <2>1, <2>2
<1>4. PICK k \in 0 .. n - 1, r \in 0 .. size - 1 : t = k * size + r
  BY <1>3, RowOf
<1>5. PICK m \in Nat : m = k * size
  BY <1>1
<1>6. (k + 1) * size = m + size
  BY <1>1, <1>5
<1>7. k * size <= t /\ t < (k + 1) * size
  BY <1>1, <1>4, <1>5, <1>6
<1> QED BY <1>1, <1>7 DEF SplitBlocks

\* and in no other.
LEMMA SplitOnce ==
  ASSUME NEW all \in Nat, NEW n \in Nat \ {0}, NEW k \in Nat, NEW j \in Nat,
         NEW t \in SplitBlocks(all, n, k), t \in SplitBlocks(all, n, j)
  PROVE  k = j
<1>1. PICK size \in Nat : size = CeilDiv(all, n)
  BY CeilDivNat
<1>2. /\ t \in 0 .. all - 1 /\ k * size <= t /\ t < (k + 1) * size
      /\ j * size <= t /\ t < (j + 1) * size
  BY <1>1 DEF SplitBlocks
<1>3. PICK m \in Nat, l \in Nat : m = k * size /\ l = j * size
  BY <1>1
<1>4. (k + 1) * size = m + size /\ (j + 1) * size = l + size
  BY <1>1, <1>3
<1>5. t - m \in 0 .. size - 1 /\ t - l \in 0 .. size - 1 /\ m + (t - m) = l + (t - l)
  BY <1>1, <1>2, <1>3, <1>4
<1>6. k * size + (t - m) = j * size + (t - l)
  BY <1>3, <1>5
<1> QED BY <1>1, <1>5, <1>6, RowOnce

\* A kernel that reads one position for the batch reads that of the sequence.
LEMMA OwnAre ==
  ASSUME NEW c, Callable(c), NEW L, Shaped(L, c), OnePosition(L, c), NEW b \in Batches(c)
  PROVE  OwnPosition(L, c, b) = Position(L, c, b) /\ OwnKv(L, c, b) = SeqKv(L, c, b)
<1>1. /\ L.bound = "first" <=> L.pos = "first"
      /\ Ragged(L) => L.bound = "param"
      /\ L.bound = "first" => c.pos[b] = c.pos[0]
  BY DEF Shaped, Placed, OnePosition
<1>2. CASE L.bound = "first"
  <2>1. Position(L, c, b) = c.pos[0] /\ SeqKv(L, c, b) = c.pos[0] + 1
    BY <1>1, <1>2 DEF Position, SeqKv
  <2> QED BY <1>1, <1>2, <2>1 DEF OwnPosition, OwnKv
<1>3. CASE L.bound # "first"
  BY <1>1, <1>3 DEF OwnPosition, OwnKv
<1> QED BY <1>2, <1>3

\* What the loop over the tiles and the mask leave a row.
Left(L, c, b, i, key) ==
  /\ key \div L.bc < CeilDiv(SeqKv(L, c, b), L.bc)
  /\ LeftByMask(L, c, b, i \div L.br, key \div L.bc)
  /\ Unmasked(L, c, b, i \div L.br, i, key \div L.bc, key)
  /\ L.masks => key < SeqKv(L, c, b)

\* A tile of keys that are looked at is one that the causal loop comes to.
LEMMA CausalTiles ==
  ASSUME NEW br \in Nat \ {0}, NEW bc \in Nat \ {0}, NEW pos \in Nat, NEW i \in Nat, NEW key \in Nat,
         key <= i + pos
  PROVE  key \div bc < ((i \div br) * br + br - 1 + pos + bc) \div bc
<1>1. PICK qb \in Nat, r \in 0 .. br - 1 : i \div br = qb /\ i = qb * br + r
  BY DividedBack
<1>2. PICK t \in Nat, s \in 0 .. bc - 1 : key \div bc = t /\ key = t * bc + s
  BY DividedBack
<1>3. PICK m \in Nat, l \in Nat : m = qb * br /\ l = t * bc
  BY <1>1, <1>2
<1>4. m + br + pos \in Nat /\ l < m + br + pos
  BY <1>1, <1>2, <1>3
<1>5. t < CeilDiv(m + br + pos, bc)
  BY <1>3, <1>4, CeilDivTiles
<1>6. CeilDiv(m + br + pos, bc) = (m + br - 1 + pos + bc) \div bc
  <2>1. m + br + pos + bc - 1 = m + br - 1 + pos + bc
    BY <1>3
  <2> QED BY <2>1 DEF CeilDiv
<1> QED BY <1>1, <1>2, <1>3, <1>5, <1>6

\* Where a key of a tile that the loop comes to is.
LEMMA TileEnd ==
  ASSUME NEW kv \in Nat, NEW bc \in Nat \ {0}, NEW t \in Nat, NEW s \in 0 .. bc - 1, NEW l \in Nat, l = t * bc
  PROVE  /\ CeilDiv(kv, bc) * bc \in Nat
         /\ l < kv <=> l + s < CeilDiv(kv, bc) * bc
<1>1. PICK n \in Nat : n = CeilDiv(kv, bc)
  BY CeilDivNat
<1>2. PICK m \in Nat : m = n * bc
  OBVIOUS
<1>3. t < n <=> l < kv
  BY <1>1, CeilDivTiles
<1>4. t < n => l + s < m
  <2> SUFFICES ASSUME t < n PROVE l + s < m
    OBVIOUS
  <2>1. t \in 0 .. n - 1
    OBVIOUS
  <2>2. t * bc + s \in 0 .. n * bc - 1
    BY <2>1, RowIn
  <2> QED BY <1>2, <2>2
<1>5. n <= t => m <= l
  <2> SUFFICES ASSUME n <= t PROVE m <= l
    OBVIOUS
  <2>1. PICK d \in Nat : t = n + d
    <3>1. t - n \in Nat /\ t = n + (t - n)
      OBVIOUS
    <3> QED BY <3>1
  <2>2. PICK e \in Nat : e = d * bc
    OBVIOUS
  <2>3. l = m + e
    BY <1>2, <2>1, <2>2
  <2> QED BY <2>3
<1> QED BY <1>1, <1>2, <1>3, <1>4, <1>5

\* Whole tiles have no padding.
LEMMA WholeTiles ==
  ASSUME NEW kv \in Nat, NEW bc \in Nat \ {0}, kv % bc = 0, NEW key \in Nat,
         key < CeilDiv(kv, bc) * bc
  PROVE  key < kv
<1>1. PICK t \in Nat, s \in 0 .. bc - 1 : key = t * bc + s
  <2>1. \E q \in Nat, r \in 0 .. bc - 1 : key \div bc = q /\ key % bc = r /\ key = q * bc + r
    BY DividedBack
  <2> QED BY <2>1
<1>2. PICK l \in Nat : l = t * bc
  OBVIOUS
<1>3. l < kv
  BY <1>1, <1>2, TileEnd
<1>4. PICK n \in Nat : kv = n * bc
  <2>1. \E p \in Nat, q \in 0 .. bc - 1 : kv \div bc = p /\ kv % bc = q /\ kv = p * bc + q
    BY DividedBack
  <2>2. PICK p \in Nat, q \in 0 .. bc - 1 : kv % bc = q /\ kv = p * bc + q
    BY <2>1
  <2>3. q = 0 /\ p * bc \in Nat
    BY <2>2
  <2>4. kv = p * bc
    BY <2>2, <2>3
  <2> QED BY <2>4
<1>5. t < n
  <2> SUFFICES ASSUME n <= t PROVE FALSE
    OBVIOUS
  <2>1. PICK d \in Nat : t = n + d
    <3>1. t - n \in Nat /\ t = n + (t - n)
      OBVIOUS
    <3> QED BY <3>1
  <2>2. PICK m \in Nat : m = d * bc
    OBVIOUS
  <2>3. t * bc = n * bc + m
    BY <2>1, <2>2
  <2> QED BY <1>2, <1>3, <1>4, <2>3
<1>6. t * bc + s \in 0 .. n * bc - 1
  <2>1. t \in 0 .. n - 1
    BY <1>5
  <2> QED BY <2>1, RowIn
<1> QED BY <1>1, <1>4, <1>6

\* The loops and masks leave a row the keys it is to attend, and the padding.
LEMMA LeftAre ==
  ASSUME NEW c, Callable(c), NEW L, Shaped(L, c), OnePosition(L, c),
         NEW b, NEW h, NEW i, IsRow(L, c, b, h, i), NEW key \in Nat
  PROVE  Left(L, c, b, i, key) <=> key \in ReferenceKeys(L, c, b, i) \cup Padding(L, c, b, i)
<1>1. b \in Batches(c) /\ i \in Nat /\ i < SeqQ(L, c, b) /\ L.br \in Nat \ {0} /\ L.bc \in Nat \ {0}
  BY DEF IsRow, Shaped, Typed
<1>2. PICK kv \in Nat, pos \in Nat :
        /\ kv = SeqKv(L, c, b) /\ pos = Position(L, c, b)
        /\ kv = OwnKv(L, c, b) /\ pos = OwnPosition(L, c, b)
  BY <1>1, KeysAndPosition, OwnAre
<1>3. PICK br \in Nat \ {0}, bc \in Nat \ {0} : br = L.br /\ bc = L.bc
  BY <1>1
<1>4. PICK qb \in Nat, r \in 0 .. br - 1 : i \div br = qb /\ i = qb * br + r
  BY <1>1, DividedBack
<1>5. PICK t \in Nat, s \in 0 .. bc - 1 : key \div bc = t /\ key = t * bc + s
  BY DividedBack
<1>6. PICK l \in Nat : l = t * bc /\ key = l + s
  BY <1>5
<1>7. t < CeilDiv(kv, bc) <=> l < kv
  BY <1>6, CeilDivTiles
<1>8. Left(L, c, b, i, key) <=> /\ l < kv /\ (L.masks => key < kv)
                                /\ LeftByMask(L, c, b, qb, t) /\ Unmasked(L, c, b, qb, i, t, key)
  BY <1>2, <1>3, <1>4, <1>5, <1>7 DEF Left
<1>9. key \in ReferenceKeys(L, c, b, i) \cup Padding(L, c, b, i) <=>
        /\ l < kv /\ (L.masks => key < kv)
        /\ MaskLeaves(L, c, b, i, key)
  <2>1. PICK m \in Nat : m = CeilDiv(kv, bc) * bc /\ (l < kv <=> key < m)
    BY <1>6, TileEnd
  <2>2. key \in ReferenceKeys(L, c, b, i) <=> key < kv /\ MaskLeaves(L, c, b, i, key)
    BY <1>2 DEF ReferenceKeys
  <2>3. key \in Padding(L, c, b, i) <=> ~(key < kv) /\ key < m /\ ~L.masks /\ MaskLeaves(L, c, b, i, key)
    BY <1>2, <1>3, <2>1 DEF Padding
  <2>4. key < kv => l < kv
    BY <1>6
  <2> QED BY <2>1, <2>2, <2>3, <2>4
<1>10. /\ L.masks \in BOOLEAN /\ c.window \in Nat
       /\ L.mask \in {"none", "causal", "diagonal", "window", "sliding", "tree", "blocks"}
       /\ L.mask \in {"diagonal", "window"} => br = bc /\ L.pos = "zero" /\ ~L.masks
       /\ L.mask \in {"sliding", "tree", "blocks"} => L.masks /\ ~Ragged(L)
       /\ L.mask = "blocks" => br = 1 /\ L.rows = c.seq_q
  BY <1>3, CallTypes DEF Shaped, Typed, Masked
<1> SUFFICES MaskLeaves(L, c, b, i, key) <=> LeftByMask(L, c, b, qb, t) /\ Unmasked(L, c, b, qb, i, t, key)
  BY <1>8, <1>9
<1>11. MaskLeaves(L, c, b, i, key) <=>
        /\ L.mask \in {"causal", "diagonal", "window"} => key <= i + pos
        /\ L.mask = "window" => i - key < c.window
        /\ L.mask = "sliding" /\ c.window > 0 => pos - key < c.window
        /\ L.mask = "tree" => <<i, key>> \in c.tree
        /\ L.mask = "blocks" => \E u \in c.blocks[i] : u * bc <= key /\ key < (u + 1) * bc
  BY <1>2, <1>3 DEF MaskLeaves
<1>12. CASE L.mask = "none"
  <2>1. LeftByMask(L, c, b, qb, t) /\ Unmasked(L, c, b, qb, i, t, key)
    BY <1>12 DEF LeftByMask, Unmasked
  <2> QED BY <1>11, <1>12, <2>1
<1>13. CASE L.mask = "causal"
  <2>1. Unmasked(L, c, b, qb, i, t, key) <=> key <= i + pos
    BY <1>2, <1>13 DEF Unmasked
  <2>2. LeftByMask(L, c, b, qb, t) <=> t < (qb * br + br - 1 + pos + bc) \div bc
    BY <1>2, <1>3, <1>13 DEF LeftByMask
  <2>3. key <= i + pos => LeftByMask(L, c, b, qb, t)
    BY <1>1, <1>4, <1>5, <2>2, CausalTiles
  <2> QED BY <1>11, <1>13, <2>1, <2>3
<1>14. CASE L.mask \in {"diagonal", "window"}
  <2>1. pos = 0 /\ br = bc
    BY <1>2, <1>10, <1>14 DEF Position
  <2>2. LeftByMask(L, c, b, qb, t) <=> t <= qb
    BY <1>14 DEF LeftByMask
  <2>3. t < qb => key < i
    <3> SUFFICES ASSUME t < qb PROVE key < i
      OBVIOUS
    <3>1. PICK d \in Nat : qb = t + 1 + d
      <4>1. qb - t - 1 \in Nat /\ qb = t + 1 + (qb - t - 1)
        OBVIOUS
      <4> QED BY <4>1
    <3>2. PICK m \in Nat : m = d * bc
      OBVIOUS
    <3>3. qb * br = l + bc + m
      BY <1>6, <2>1, <3>1, <3>2
    <3> QED BY <1>4, <1>6, <3>3
  <2>4. qb < t => i < key
    <3> SUFFICES ASSUME qb < t PROVE i < key
      OBVIOUS
    <3>1. PICK d \in Nat : t = qb + 1 + d
      <4>1. t - qb - 1 \in Nat /\ t = qb + 1 + (t - qb - 1)
        OBVIOUS
      <4> QED BY <4>1
    <3>2. PICK m \in Nat, e \in Nat : m = d * bc /\ e = qb * bc
      OBVIOUS
    <3>3. l = e + bc + m
      BY <1>6, <3>1, <3>2
    <3> QED BY <1>4, <1>6, <2>1, <3>2, <3>3
  <2>6. CASE L.mask = "diagonal"
    <3>1. Unmasked(L, c, b, qb, i, t, key) <=> (t = qb => key <= i)
      BY <2>6 DEF Unmasked
    <3>2. LeftByMask(L, c, b, qb, t) /\ Unmasked(L, c, b, qb, i, t, key) <=> key <= i
      BY <1>1, <2>2, <2>3, <2>4, <3>1
    <3> QED BY <1>1, <1>11, <2>1, <2>6, <3>2
  <2>7. CASE L.mask = "window"
    <3>1. Unmasked(L, c, b, qb, i, t, key) <=> key <= i /\ i - key < c.window
      BY <2>7 DEF Unmasked
    <3>2. LeftByMask(L, c, b, qb, t) /\ Unmasked(L, c, b, qb, i, t, key) <=> key <= i /\ i - key < c.window
      BY <1>1, <2>2, <2>4, <3>1
    <3> QED BY <1>1, <1>11, <2>1, <2>7, <3>2
  <2> QED BY <1>14, <2>6, <2>7
<1>15. CASE L.mask = "sliding"
  <2>1. Unmasked(L, c, b, qb, i, t, key) <=> c.window = 0 \/ key + c.window > pos
    BY <1>2, <1>15 DEF Unmasked
  <2>2. LeftByMask(L, c, b, qb, t)
    BY <1>15 DEF LeftByMask
  <2>3. (c.window = 0 \/ key + c.window > pos) <=> (c.window > 0 => pos - key < c.window)
    BY <1>10
  <2> QED BY <1>11, <1>15, <2>1, <2>2, <2>3
<1>16. CASE L.mask = "tree"
  <2>1. Unmasked(L, c, b, qb, i, t, key) <=> <<i, key>> \in c.tree
    BY <1>16 DEF Unmasked
  <2>2. LeftByMask(L, c, b, qb, t)
    BY <1>16 DEF LeftByMask
  <2> QED BY <1>11, <1>16, <2>1, <2>2
<1>17. CASE L.mask = "blocks"
  <2>1. Unmasked(L, c, b, qb, i, t, key)
    BY <1>17 DEF Unmasked
  <2>2. qb = i
    BY <1>1, <1>4, <1>10, <1>17, WholeDivision
  <2>3. LeftByMask(L, c, b, qb, t) <=> t \in c.blocks[i]
    BY <1>17, <2>2 DEF LeftByMask
  <2>4. c.blocks[i] \subseteq Nat
    <3>1. i \in 0 .. c.seq_q
      BY <1>1, <1>10, <1>17, CallTypes DEF SeqQ
    <3> QED BY <3>1 DEF Callable
  <2>5. t \in c.blocks[i] => t * bc <= key /\ key < (t + 1) * bc
    <3>1. (t + 1) * bc = l + bc
      BY <1>6
    <3> QED BY <1>5, <1>6, <3>1
  <2>6. ASSUME NEW u \in c.blocks[i], u * bc <= key, key < (u + 1) * bc PROVE u = t
    <3>1. PICK m \in Nat : m = u * bc /\ u \in Nat
      BY <2>4
    <3>2. (u + 1) * bc = m + bc
      BY <3>1
    <3>3. key - m \in 0 .. bc - 1 /\ u * bc + (key - m) = t * bc + s
      BY <1>5, <2>6, <3>1, <3>2
    <3> QED BY <3>1, <3>3, RowOnce
  <2>7. t \in c.blocks[i] <=> \E u \in c.blocks[i] : u * bc <= key /\ key < (u + 1) * bc
    BY <2>5, <2>6
  <2> QED BY <1>11, <1>17, <2>1, <2>3, <2>7
<1> QED BY <1>10, <1>12, <1>13, <1>14, <1>15, <1>16, <1>17

\* There are finitely many of them, all natural numbers.
LEMMA PaddedBounds ==
  ASSUME NEW c, Callable(c), NEW L, Shaped(L, c), OnePosition(L, c), NEW b \in Batches(c), NEW i
  PROVE  /\ ReferenceKeys(L, c, b, i) \subseteq 0 .. SeqKv(L, c, b) - 1
         /\ \E n \in Nat : ReferenceKeys(L, c, b, i) \cup Padding(L, c, b, i) \subseteq 0 .. n
         /\ SeqKv(L, c, b) \in Nat
<1>1. PICK kv \in Nat : kv = SeqKv(L, c, b) /\ OwnKv(L, c, b) = kv
  BY KeysAndPosition, OwnAre
<1>2. PICK m \in Nat : m = CeilDiv(kv, L.bc) * L.bc
  <2>1. PICK bc \in Nat \ {0}, n \in Nat : bc = L.bc /\ n = CeilDiv(kv, bc)
    BY CeilDivNat DEF Shaped, Typed
  <2>2. n * bc \in Nat
    OBVIOUS
  <2> QED BY <2>1, <2>2
<1>3. ReferenceKeys(L, c, b, i) \subseteq 0 .. kv - 1
  BY <1>1 DEF ReferenceKeys
<1>4. Padding(L, c, b, i) \subseteq kv .. m - 1
  BY <1>1, <1>2 DEF Padding
<1>5. ReferenceKeys(L, c, b, i) \cup Padding(L, c, b, i) \subseteq 0 .. kv + m
  BY <1>3, <1>4
<1> QED BY <1>1, <1>3, <1>5

\* One split has each key that is to be attended,
LEMMA KeysAreReference ==
  ASSUME NEW c, Callable(c), NEW L, Shaped(L, c), OnePosition(L, c),
         NEW b, NEW h, NEW i, IsRow(L, c, b, h, i), NEW key
  PROVE  (\E k \in SplitsOf(L) : key \in KeysOf(L, c, b, i, k)) <=>
           key \in ReferenceKeys(L, c, b, i) \cup Padding(L, c, b, i)
<1>1. b \in Batches(c) /\ L.bc \in Nat \ {0} /\ L.split \in BOOLEAN
  BY DEF IsRow, Shaped, Typed
<1>2. key \in ReferenceKeys(L, c, b, i) \cup Padding(L, c, b, i) => key \in Nat
  BY <1>1, PaddedBounds
<1>3. PICK all \in Nat : all = CeilDiv(SeqKv(L, c, b), L.bc)
  BY <1>1, KeysAndPosition, CeilDivNat
<1>4. ASSUME NEW k
      PROVE  key \in KeysOf(L, c, b, i, k) <=>
               /\ key \in Nat /\ Left(L, c, b, i, key)
               /\ L.split => key \div L.bc \in SplitBlocks(all, L.splits, k)
  <2>1. key \in KeysOf(L, c, b, i, k) <=>
          /\ key \in Nat
          /\ key \div L.bc \in KvTiles(L, c, b, i \div L.br, k)
          /\ Unmasked(L, c, b, i \div L.br, i, key \div L.bc, key)
          /\ L.masks => key < SeqKv(L, c, b)
    BY DEF KeysOf
  <2>2. key \div L.bc \in KvTiles(L, c, b, i \div L.br, k) <=>
          /\ key \div L.bc \in Nat /\ key \div L.bc < CeilDiv(SeqKv(L, c, b), L.bc)
          /\ L.split => key \div L.bc \in SplitBlocks(CeilDiv(SeqKv(L, c, b), L.bc), L.splits, k)
          /\ LeftByMask(L, c, b, i \div L.br, key \div L.bc)
    BY <1>1, KvTilesAre
  <2>3. key \in Nat => key \div L.bc \in Nat
    <3> SUFFICES ASSUME key \in Nat PROVE key \div L.bc \in Nat
      OBVIOUS
    <3>1. PICK a \in Nat, m \in Nat \ {0} : a = key /\ m = L.bc
      BY <1>1
    <3>2. \E q \in Nat, r \in 0 .. m - 1 : a \div m = q /\ a % m = r /\ a = q * m + r
      BY DividedBack
    <3> QED BY <3>1, <3>2
  <2> QED BY <1>3, <2>1, <2>2, <2>3 DEF Left
<1>5. key \in Nat => (Left(L, c, b, i, key) <=> key \in ReferenceKeys(L, c, b, i) \cup Padding(L, c, b, i))
  BY LeftAre
<1>6. CASE ~L.split
  <2>1. SplitsOf(L) = {0}
    BY <1>6 DEF SplitsOf
  <2> QED BY <1>2, <1>4, <1>5, <1>6, <2>1
<1>7. CASE L.split
  <2>1. SplitsOf(L) = 0 .. L.splits - 1 /\ L.splits \in Nat \ {0}
    BY <1>7 DEF SplitsOf, Shaped, Typed, Masked
  <2>2. ASSUME key \in Nat, Left(L, c, b, i, key)
        PROVE  \E k \in 0 .. L.splits - 1 : key \div L.bc \in SplitBlocks(all, L.splits, k)
    <3>1. PICK q \in Nat : q = key \div L.bc
      <4>1. PICK a \in Nat, m \in Nat \ {0} : a = key /\ m = L.bc
        BY <1>1, <2>2
      <4>2. \E p \in Nat, r \in 0 .. m - 1 : a \div m = p /\ a % m = r /\ a = p * m + r
        BY DividedBack
      <4> QED BY <4>1, <4>2
    <3>2. q \in 0 .. all - 1
      BY <1>3, <2>2, <3>1 DEF Left
    <3>3. \E k \in 0 .. L.splits - 1 : q \in SplitBlocks(all, L.splits, k)
      BY <2>1, <3>2, SplitHas
    <3> QED BY <3>1, <3>3
  <2> QED BY <1>2, <1>4, <1>5, <1>7, <2>1, <2>2
<1> QED BY <1>1, <1>6, <1>7

\* and no second one.
LEMMA KeyOnce ==
  ASSUME NEW c, Callable(c), NEW L, Shaped(L, c), NEW b \in Batches(c), NEW i,
         NEW k \in SplitsOf(L), NEW j \in SplitsOf(L),
         NEW key \in KeysOf(L, c, b, i, k), key \in KeysOf(L, c, b, i, j)
  PROVE  k = j
<1>1. CASE ~L.split
  BY <1>1 DEF SplitsOf
<1>2. CASE L.split
  <2>1. SplitsOf(L) = 0 .. L.splits - 1 /\ L.splits \in Nat \ {0} /\ L.bc \in Nat \ {0}
    BY <1>2 DEF SplitsOf, Shaped, Typed, Masked
  <2>2. PICK all \in Nat : all = CeilDiv(SeqKv(L, c, b), L.bc)
    BY <2>1, KeysAndPosition, CeilDivNat
  <2>3. /\ key \div L.bc \in KvTiles(L, c, b, i \div L.br, k)
        /\ key \div L.bc \in KvTiles(L, c, b, i \div L.br, j)
    BY DEF KeysOf
  <2>4. /\ key \div L.bc \in SplitBlocks(all, L.splits, k)
        /\ key \div L.bc \in SplitBlocks(all, L.splits, j)
    BY <1>2, <2>2, <2>3, KvTilesAre
  <2> QED BY <2>1, <2>2, <2>4, SplitOnce
<1> QED BY <1>1, <1>2 DEF Shaped, Typed

\* The row fetched for a key of the sequence is the key's row.
LEMMA KeyFetched ==
  ASSUME NEW c, Callable(c), NEW L, Shaped(L, c), NEW b \in Batches(c), NEW h \in 0 .. c.heads - 1,
         NEW key \in Nat, key < SeqKv(L, c, b)
  PROVE  Fetch(L, c, b, KvHead(L, c, h), key) = FlatKey(L, c, b, OwnHead(L, c, h), key)
<1>1. PICK got : got = Fetch(L, c, b, KvHead(L, c, h), key)
  OBVIOUS
<1>2. PICK g \in 0 .. L.kv_heads - 1 : g = OwnHead(L, c, h)
  BY HeadOf
<1>3. /\ got # NoRow => got = FlatKey(L, c, b, g, key)
      /\ got = NoRow => IF L.load = "tma" THEN ~(FlatKey(L, c, b, g, key) < DescriptorRows(L, c))
                                          ELSE ~(key < SeqKv(L, c, b))
  BY <1>1, <1>2, FetchIs
<1>4. CASE L.load # "tma"
  BY <1>1, <1>2, <1>3, <1>4
<1>5. CASE L.load = "tma" /\ ~Ragged(L)
  <2>1. L.stride = c.seq_kv /\ L.bound = "param"
    BY <1>5 DEF Shaped, Placed
  <2>2. key < L.stride
    BY <1>5, <2>1 DEF SeqKv
  <2>3. FlatKey(L, c, b, g, key) < c.batch * L.kv_heads * L.stride
    BY <1>5, <2>2, FlatKeyIn
  <2>4. DescriptorRows(L, c) = c.batch * L.kv_heads * L.stride
    BY <1>5, <2>1 DEF DescriptorRows, KvRows, Ragged
  <2> QED BY <1>1, <1>2, <1>3, <1>5, <2>3, <2>4
<1>6. CASE L.load = "tma" /\ Ragged(L)
  <2>1. L.layout = "varlen"
    BY <1>6 DEF Shaped, Placed, Ragged
  <2>2. PICK cuk : /\ Ends(cuk, c.batch, c.total_kv) /\ \A a \in 0 .. c.batch : c.cu_k[a] = cuk[a]
                   /\ \A a \in Batches(c) : SeqKv(L, c, a) = cuk[a + 1] - cuk[a]
    BY <1>6, RaggedEnds
  <2>3. c.batch \in Nat /\ b \in 0 .. c.batch /\ b + 1 \in 0 .. c.batch /\ c.batch \in 0 .. c.batch
    BY CallTypes DEF Batches
  <2>4. /\ cuk[b] \in Nat /\ cuk[b + 1] \in Nat /\ cuk[c.batch] = c.total_kv
        /\ cuk[b + 1] <= cuk[c.batch]
    <3>1. cuk[b + 1] <= cuk[c.batch]
      BY <2>2, <2>3, EndsAscend
    <3> QED BY <2>2, <2>3, <3>1 DEF Ends
  <2>5. PICK x \in 0 .. c.total_kv - 1 : x = cuk[b] + key
    <3>1. cuk[b + 1] - cuk[b] > key
      BY <1>1, <2>2
    <3>2. cuk[b] + key \in 0 .. c.total_kv - 1
      BY <2>4, <3>1, CallTypes
    <3> QED BY <3>2
  <2>6. PICK n \in Nat, total \in Nat : n = L.kv_heads /\ total = c.total_kv
    BY CallTypes DEF Shaped, Typed
  <2>7. g * total + x \in 0 .. n * total - 1
    BY <2>5, <2>6, RowIn
  <2>8. FlatKey(L, c, b, g, key) = g * total + x
    <3>1. FlatKey(L, c, b, g, key) = g * c.total_kv + c.cu_k[b] + key
      BY <1>6, <2>1 DEF FlatKey
    <3>2. PICK m \in Nat : m = g * total
      BY <2>6
    <3>3. FlatKey(L, c, b, g, key) = m + cuk[b] + key
      BY <2>2, <2>3, <2>6, <3>1, <3>2
    <3> QED BY <2>4, <2>5, <3>2, <3>3
  <2>9. DescriptorRows(L, c) = n * total
    BY <2>1, <2>6 DEF DescriptorRows
  <2>10. n * total \in Nat
    BY <2>6
  <2> QED BY <1>1, <1>2, <1>3, <1>6, <2>7, <2>8, <2>9, <2>10
<1> QED BY <1>4, <1>5, <1>6

\* The row attends exactly the keys the reference lists and the padding, and reads
\* the rows of the former.
RowWhole(L, c, b, h, i) ==
  /\ {k[1] : k \in AllKeys(L, c, b, h, i)} = ReferenceKeys(L, c, b, i) \cup Padding(L, c, b, i)
  /\ Cardinality(AllKeys(L, c, b, h, i)) = Cardinality(ReferenceKeys(L, c, b, i) \cup Padding(L, c, b, i))
  /\ \A k \in AllKeys(L, c, b, h, i) : k[1] \in ReferenceKeys(L, c, b, i) =>
       k[2] = FlatKey(L, c, b, OwnHead(L, c, h), k[1])

\* The keys of a row are those asked for and the padding, one for each.
LEMMA RowKeys ==
  ASSUME NEW c, Callable(c), NEW L, Shaped(L, c), OnePosition(L, c),
         NEW b, NEW h, NEW i, IsRow(L, c, b, h, i)
  PROVE  RowWhole(L, c, b, h, i)
<1> DEFINE want == ReferenceKeys(L, c, b, i)
           all  == ReferenceKeys(L, c, b, i) \cup Padding(L, c, b, i)
           keys == AllKeys(L, c, b, h, i)
           Got(key) == Fetch(L, c, b, KvHead(L, c, h), key)
<1>1. b \in Batches(c) /\ h \in 0 .. c.heads - 1
  BY DEF IsRow
<1>2. PICK kv \in Nat : kv = SeqKv(L, c, b) /\ want \subseteq 0 .. kv - 1
  BY <1>1, PaddedBounds
<1>3. PICK n \in Nat : all \subseteq 0 .. n
  BY <1>1, PaddedBounds
<1>4. \A key \in want : Got(key) = FlatKey(L, c, b, OwnHead(L, c, h), key)
  <2> SUFFICES ASSUME NEW key \in want PROVE Got(key) = FlatKey(L, c, b, OwnHead(L, c, h), key)
    OBVIOUS
  <2>1. key \in Nat /\ key < SeqKv(L, c, b)
    BY <1>2
  <2> QED BY <1>1, <2>1, KeyFetched
<1>5. ASSUME NEW x \in keys
      PROVE  \E key \in all : \E k \in SplitsOf(L) : key \in KeysOf(L, c, b, i, k) /\ x = <<key, Got(key), k>>
  <2>1. PICK k \in SplitsOf(L) : \E key \in KeysOf(L, c, b, i, k) :
          x = <<key, Fetch(L, c, b, KvHead(L, c, h), key), k>>
    BY <1>1, <1>5, KeyIs
  <2>2. PICK key \in KeysOf(L, c, b, i, k) : x = <<key, Fetch(L, c, b, KvHead(L, c, h), key), k>>
    BY <2>1
  <2>3. key \in all
    BY <2>2, KeysAreReference
  <2> QED BY <2>2, <2>3
<1>6. ASSUME NEW key \in all PROVE \E k \in SplitsOf(L) : <<key, Got(key), k>> \in keys
  <2>1. PICK k \in SplitsOf(L) : key \in KeysOf(L, c, b, i, k)
    BY <1>6, KeysAreReference
  <2>2. <<key, Fetch(L, c, b, KvHead(L, c, h), key), k>> \in keys
    BY <1>1, <2>1, KeyIs
  <2> QED BY <2>2
<1>7. ASSUME NEW x \in keys, NEW y \in keys, x[1] = y[1] PROVE x = y
  <2>1. PICK key \in all, k \in SplitsOf(L) : key \in KeysOf(L, c, b, i, k) /\ x = <<key, Got(key), k>>
    BY <1>5
  <2>2. PICK key2 \in all, j \in SplitsOf(L) : key2 \in KeysOf(L, c, b, i, j) /\ y = <<key2, Got(key2), j>>
    BY <1>5
  <2>3. key = key2
    BY <1>7, <2>1, <2>2
  <2>4. k = j
    BY <1>1, <2>1, <2>2, <2>3, KeyOnce
  <2> QED BY <2>1, <2>2, <2>3, <2>4
<1> HIDE DEF want, all, keys, Got
<1>8. \A x \in keys : x[1] \in all /\ x[2] = Got(x[1])
  BY <1>5
<1>9. \A key \in all : \E x \in keys : x[1] = key
  BY <1>6
<1>10. {k[1] : k \in keys} = all
  BY <1>8, <1>9
<1>11. Cardinality(keys) = Cardinality(all)
  <2>1. IsFiniteSet(0 .. n)
    BY FS_Interval
  <2>2. IsFiniteSet(all)
    BY <1>3, <2>1, FS_Subset
  <2> QED BY <1>7, <1>8, <1>9, <2>2, OneForEach
<1>12. \A k \in keys : k[1] \in want => k[2] = FlatKey(L, c, b, OwnHead(L, c, h), k[1])
  BY <1>4, <1>8
<1> QED BY <1>10, <1>11, <1>12 DEF want, all, keys, RowWhole

\* Each row attends the keys the reference lists, and the padding.
LEMMA WrittenKeys == WrittenInv => KeysExact
<1> SUFFICES ASSUME WrittenInv, stored, OnePosition(launch, call), NEW s \in out
             PROVE  LET b == s.row[1]  h == s.row[2]  i == s.row[3]
                        want == ReferenceKeys(launch, call, b, i)
                        rest == Padding(launch, call, b, i)
                    IN  /\ {k[1] : k \in s.keys} = want \cup rest
                        /\ Cardinality(s.keys) = Cardinality(want \cup rest)
                        /\ \A k \in s.keys : k[1] \in want =>
                             k[2] = FlatKey(launch, call, b, OwnHead(launch, call, h), k[1])
  BY DEF KeysExact
<1>1. PICK L, c : L = launch /\ c = call
  OBVIOUS
<1>2. Shaped(L, c) /\ Callable(c) /\ Final(L, c, out) /\ OnePosition(L, c)
  BY <1>1, CallsOK, ChosenSound DEF WrittenInv, Sound
<1>3. PICK b, h, i : IsRow(L, c, b, h, i) /\ s = FinalRow(L, c, b, h, i)
  BY <1>2 DEF Final
<1>4. s.row[1] = b /\ s.row[2] = h /\ s.row[3] = i /\ s.keys = AllKeys(L, c, b, h, i)
  BY <1>3 DEF FinalRow
<1>5. /\ {k[1] : k \in s.keys} = ReferenceKeys(L, c, b, i) \cup Padding(L, c, b, i)
      /\ Cardinality(s.keys) = Cardinality(ReferenceKeys(L, c, b, i) \cup Padding(L, c, b, i))
      /\ \A k \in s.keys : k[1] \in ReferenceKeys(L, c, b, i) =>
           k[2] = FlatKey(L, c, b, OwnHead(L, c, h), k[1])
  <2>1. RowWhole(L, c, b, h, i)
    BY <1>2, <1>3, RowKeys
  <2> QED BY <1>4, <2>1 DEF RowWhole
<1> QED BY <1>1, <1>4, <1>5

\* Whatever the wrapper, its tiles, loops, masks, splits and lengths, a row
\* attends each key its mask leaves it, once, in its own sequence and head, and
\* nothing else but the padding of the last tile where its kernel does not mask
\* it.  Where a kernel reads one position for a batch, the sequences have one.
THEOREM KeysRight == Spec => []KeysExact
BY Inductive, WrittenKeys, PTL

-----------------------------------------------------------------------------
(* A session: where the caches keep a token.                               *)

\* The row of K and V at which session x keeps head g of place p of sequence b.
PlaceOf(x, b, g, p) ==
  IF x.paged
  THEN (((p \div x.page_size) * x.batch + b) * x.page_size + (p % x.page_size)) * x.kv_heads + g
  ELSE (b * x.kv_heads + g) * MaxSeq + p

\* The caches have a row for every place,
LEMMA PlaceIn ==
  ASSUME NEW x, Coupled(x), NEW b \in 0 .. x.batch - 1, NEW g \in 0 .. x.kv_heads - 1,
         NEW p \in 0 .. MaxSeq - 1
  PROVE  PlaceOf(x, b, g, p) \in 0 .. (MaxSeq + 1) * x.batch * x.page_size * x.kv_heads - 1
<1>1. PICK n \in Nat \ {0}, kv \in Nat \ {0}, ps \in Nat \ {0} :
        n = x.batch /\ kv = x.kv_heads /\ ps = x.page_size
  BY DEF Coupled
<1>2. MaxSeq \in Nat \ {0}
  BY SessionOK
<1>3. CASE x.paged
  <2>1. PICK q \in Nat, r \in 0 .. ps - 1 : p \div ps = q /\ p % ps = r /\ p = q * ps + r
    <3>1. \E q \in Nat, r \in 0 .. ps - 1 : p \div ps = q /\ p % ps = r /\ p = q * ps + r
      BY <1>2, DividedBack
    <3> QED BY <3>1
  <2>2. q \in 0 .. MaxSeq
    <3>1. PICK e \in Nat : ps = e + 1
      <4>1. ps - 1 \in Nat /\ ps = (ps - 1) + 1
        OBVIOUS
      <4> QED BY <4>1
    <3>2. PICK f \in Nat : f = q * e
      OBVIOUS
    <3>3. q * ps = f + q
      BY <3>1, <3>2
    <3> QED BY <1>2, <2>1, <3>3
  <2>3. PICK pages \in Nat : pages = (MaxSeq + 1) * n
    BY <1>2
  <2>4. PICK page \in 0 .. pages - 1 : page = q * n + b
    <3>1. q \in 0 .. (MaxSeq + 1) - 1 /\ MaxSeq + 1 \in Nat
      BY <1>2, <2>2
    <3>2. q * n + b \in 0 .. (MaxSeq + 1) * n - 1
      BY <1>1, <3>1, RowIn
    <3> QED BY <2>3, <3>2
  <2>5. PICK slots \in Nat : slots = pages * ps
    OBVIOUS
  <2>6. PICK slot \in 0 .. slots - 1 : slot = page * ps + r
    <3>1. page * ps + r \in 0 .. pages * ps - 1
      BY RowIn
    <3> QED BY <2>5, <3>1
  <2>7. slot * kv + g \in 0 .. slots * kv - 1
    BY <1>1, RowIn
  <2>8. PlaceOf(x, b, g, p) = slot * kv + g
    <3>1. PlaceOf(x, b, g, p) = (((p \div ps) * n + b) * ps + (p % ps)) * kv + g
      BY <1>1, <1>3, Zenon DEF PlaceOf
    <3>2. p \div ps = q /\ p % ps = r
      BY <2>1
    <3>3. (p \div ps) * n + b = page
      BY <2>4, <3>2
    <3>4. page * ps + (p % ps) = slot
      BY <2>6, <3>2, Zenon
    <3> QED BY <3>1, <3>3, <3>4, Zenon
  <2> QED BY <1>1, <2>3, <2>5, <2>7, <2>8
<1>4. CASE ~x.paged
  <2>1. PICK rows \in Nat : rows = n * kv
    OBVIOUS
  <2>2. PICK a \in 0 .. rows - 1 : a = b * kv + g
    <3>1. b * kv + g \in 0 .. n * kv - 1
      BY <1>1, RowIn
    <3> QED BY <2>1, <3>1
  <2>3. a * MaxSeq + p \in 0 .. rows * MaxSeq - 1
    BY <1>2, RowIn
  <2>4. PlaceOf(x, b, g, p) = a * MaxSeq + p
    BY <1>1, <1>4, <2>2 DEF PlaceOf
  <2>5. PICK all \in Nat : all = rows * MaxSeq
    BY <1>2
  <2>6. PICK e \in Nat : ps = e + 1
    <3>1. ps - 1 \in Nat /\ ps = (ps - 1) + 1
      OBVIOUS
    <3> QED BY <3>1
  <2>7. PICK more \in Nat : more = (all + rows) * e
    BY <2>1, <2>5
  <2>8. (MaxSeq + 1) * n * ps * kv = all + rows + more
    <3>1. (MaxSeq + 1) * n * ps * kv = (MaxSeq * n * kv + n * kv) * ps
      BY <1>2
    <3>2. MaxSeq * n * kv = all
      BY <1>2, <2>1, <2>5
    <3>3. (MaxSeq + 1) * n * ps * kv = (all + rows) * (e + 1)
      BY <2>1, <2>6, <3>1, <3>2
    <3> QED BY <2>1, <2>5, <2>7, <3>3
  <2> QED BY <1>1, <2>1, <2>3, <2>4, <2>5, <2>8
<1> QED BY <1>3, <1>4

\* and no two are the same.
LEMMA PlaceOnce ==
  ASSUME NEW x, Coupled(x), NEW b \in 0 .. x.batch - 1, NEW g \in 0 .. x.kv_heads - 1,
         NEW p \in 0 .. MaxSeq - 1, NEW bb \in 0 .. x.batch - 1, NEW gg \in 0 .. x.kv_heads - 1,
         NEW pp \in 0 .. MaxSeq - 1, PlaceOf(x, b, g, p) = PlaceOf(x, bb, gg, pp)
  PROVE  b = bb /\ g = gg /\ p = pp
<1>1. PICK n \in Nat \ {0}, kv \in Nat \ {0}, ps \in Nat \ {0} :
        n = x.batch /\ kv = x.kv_heads /\ ps = x.page_size
  BY DEF Coupled
<1>2. MaxSeq \in Nat \ {0}
  BY SessionOK
<1>3. CASE x.paged
  <2>1. PICK q \in Nat, r \in 0 .. ps - 1 : p \div ps = q /\ p % ps = r /\ p = q * ps + r
    <3>1. \E q \in Nat, r \in 0 .. ps - 1 : p \div ps = q /\ p % ps = r /\ p = q * ps + r
      <4>1. p \in Nat
        BY <1>2
      <4> QED BY <4>1, DividedBack
    <3> QED BY <3>1
  <2>2. PICK qq \in Nat, rr \in 0 .. ps - 1 : pp \div ps = qq /\ pp % ps = rr /\ pp = qq * ps + rr
    <3>1. \E q2 \in Nat, r2 \in 0 .. ps - 1 : pp \div ps = q2 /\ pp % ps = r2 /\ pp = q2 * ps + r2
      <4>1. pp \in Nat
        BY <1>2
      <4> QED BY <4>1, DividedBack
    <3> QED BY <3>1
  <2>3. PICK page \in Nat, page2 \in Nat : page = q * n + b /\ page2 = qq * n + bb
    BY <1>1
  <2>4. PICK slot \in Nat, slot2 \in Nat : slot = page * ps + r /\ slot2 = page2 * ps + rr
    OBVIOUS
  <2>5. slot * kv + g = slot2 * kv + gg
    <3>1. PlaceOf(x, b, g, p) = (((p \div ps) * n + b) * ps + (p % ps)) * kv + g
      BY <1>1, <1>3, Zenon DEF PlaceOf
    <3>2. PlaceOf(x, bb, gg, pp) = (((pp \div ps) * n + bb) * ps + (pp % ps)) * kv + gg
      BY <1>1, <1>3, Zenon DEF PlaceOf
    <3>3. p \div ps = q /\ p % ps = r /\ pp \div ps = qq /\ pp % ps = rr
      BY <2>1, <2>2
    <3>4. (p \div ps) * n + b = page /\ (pp \div ps) * n + bb = page2
      BY <2>3, <3>3
    <3>5. page * ps + (p % ps) = slot /\ page2 * ps + (pp % ps) = slot2
      BY <2>4, <3>3, Zenon
    <3>6. PlaceOf(x, b, g, p) = slot * kv + g
      BY <3>1, <3>4, <3>5, Zenon
    <3>7. PlaceOf(x, bb, gg, pp) = slot2 * kv + gg
      BY <3>2, <3>4, <3>5, Zenon
    <3> QED BY <3>6, <3>7
  <2>6. slot = slot2 /\ g = gg
    BY <1>1, <2>5, RowOnce
  <2>7. page * ps + r = page2 * ps + rr
    BY <2>4, <2>6
  <2>8. page = page2 /\ r = rr
    BY <2>7, RowOnce
  <2>9. q * n + b = qq * n + bb
    BY <2>3, <2>8
  <2>10. q = qq /\ b = bb
    BY <1>1, <2>9, RowOnce
  <2> QED BY <2>1, <2>2, <2>6, <2>8, <2>10
<1>4. CASE ~x.paged
  <2>1. PICK a \in Nat, aa \in Nat : a = b * kv + g /\ aa = bb * kv + gg
    BY <1>1
  <2>2. a * MaxSeq + p = aa * MaxSeq + pp
    BY <1>1, <1>4, <2>1 DEF PlaceOf
  <2>3. a = aa /\ p = pp
    BY <1>2, <2>2, RowOnce
  <2>4. b * kv + g = bb * kv + gg
    BY <2>1, <2>3
  <2>5. b = bb /\ g = gg
    BY <1>1, <2>4, RowOnce
  <2> QED BY <2>3, <2>5
<1> QED BY <1>3, <1>4

\* Whether a session's blocks and dimensions are such as its append takes.
Accepts(x) ==
  \/ x.paged
  \/ /\ x.head_dim > 0
     /\ IF x.append \in {"kv_append_strided_fp8", "kv_append_strided_fp8_full_view",
                         "kv_append_strided_fp8_pos_dev"}
        THEN x.head_dim % 2 = 0 /\ x.head_dim \div 2 <= MaxThreads ELSE x.head_dim <= MaxThreads

Multi(x) == x.append = "kv_append_multihead_bf16_pos_dev"

Lays(w, b, p, tensor) ==
  /\ w.accepted <=> Accepts(chain) /\ (PlaceIsChecked => p < MaxSeq)
  /\ w.accepted =>
       /\ w.tensors = IF Multi(chain) THEN {tensor} ELSE {"K", "V"}
       /\ DOMAIN w.rows = 0 .. chain.kv_heads - 1
       /\ \A g \in 0 .. chain.kv_heads - 1 : w.rows[g] = PlaceOf(chain, b, g, p)

\* What an append does if its position and the device's agree.
LEMMA AppendIs ==
  ASSUME Coupled(chain), NEW b \in Slots, NEW p \in 0 .. MaxSeq, NEW tensor
  PROVE  Lays(Appended(AppendCall(b, p), p, tensor), b, p, tensor)
<1>1. PICK x : x = chain
  OBVIOUS
<1>2. PICK n \in Nat \ {0}, kv \in Nat \ {0}, ps \in Nat \ {0}, dim \in Nat :
        n = x.batch /\ kv = x.kv_heads /\ ps = x.page_size /\ dim = x.head_dim
  BY <1>1 DEF Coupled
<1>3. MaxSeq \in Nat \ {0} /\ b \in 0 .. n - 1
  BY <1>1, <1>2, SessionOK DEF Slots
<1>4. PICK a : a = AppendCall(b, p)
  OBVIOUS
<1>5. /\ a.batch = n /\ a.kv_heads = kv /\ a.head_dim = dim /\ a.max_seq = MaxSeq /\ a.position = p
      /\ a.base = b * kv * MaxSeq /\ a.src = kv * dim /\ a.dst = kv * MaxSeq * dim
      /\ a.page = Table(b)[p \div ps] /\ a.slot = p % ps /\ a.page_size = ps
  BY <1>1, <1>2, <1>4 DEF AppendCall
<1>6. AppendDims(a) <=> dim > 0
  BY <1>2, <1>3, <1>5 DEF AppendDims
<1>7. AppendFits(a)
  <2>1. kv * dim \in Nat /\ kv * MaxSeq * dim \in Nat
    BY <1>2, <1>3
  <2> QED BY <1>5, <2>1 DEF AppendFits
<1>8. (Bf16Block(a) <=> dim <= MaxThreads) /\ (Fp8Block(a) <=> dim % 2 = 0 /\ dim \div 2 <= MaxThreads)
  BY <1>5 DEF Bf16Block, Fp8Block
<1>9. CASE ~x.paged
  <2>1. \A g \in 0 .. kv - 1 : a.base + g * a.max_seq + p = PlaceOf(x, b, g, p)
    <3> SUFFICES ASSUME NEW g \in 0 .. kv - 1
                 PROVE  b * kv * MaxSeq + g * MaxSeq + p = (b * kv + g) * MaxSeq + p
      BY <1>2, <1>5, <1>9 DEF PlaceOf
    <3>1. PICK m \in Nat : m = b * kv
      BY <1>3
    <3> QED BY <1>3, <3>1
  <2>2. ASSUME NEW tensors
        PROVE  /\ HeadMajor(a, p, tensors).accepted = TRUE /\ HeadMajor(a, p, tensors).tensors = tensors
               /\ DOMAIN HeadMajor(a, p, tensors).rows = 0 .. kv - 1
               /\ \A g \in 0 .. kv - 1 : HeadMajor(a, p, tensors).rows[g] = PlaceOf(x, b, g, p)
    BY <1>5, <2>1 DEF HeadMajor
  <2>3. ASSUME NEW block \in BOOLEAN
        PROVE  LET w == AtHostPosition(a, block)
               IN  /\ w.accepted <=> dim > 0 /\ block /\ p < MaxSeq
                   /\ w.accepted =>
                        /\ w.tensors = {"K", "V"} /\ DOMAIN w.rows = 0 .. kv - 1
                        /\ \A g \in 0 .. kv - 1 : w.rows[g] = PlaceOf(x, b, g, p)
    <3>1. AtHostPosition(a, block) =
            IF AppendDims(a) /\ p < MaxSeq /\ block /\ AppendFits(a)
            THEN HeadMajor(a, p, {"K", "V"}) ELSE NotAppended
      BY <1>5, Zenon DEF AtHostPosition
    <3>2. CASE dim > 0 /\ block /\ p < MaxSeq
      <4>1. AtHostPosition(a, block) = HeadMajor(a, p, {"K", "V"})
        BY <1>6, <1>7, <3>1, <3>2
      <4>2. /\ HeadMajor(a, p, {"K", "V"}).accepted = TRUE
            /\ HeadMajor(a, p, {"K", "V"}).tensors = {"K", "V"}
            /\ DOMAIN HeadMajor(a, p, {"K", "V"}).rows = 0 .. kv - 1
            /\ \A g \in 0 .. kv - 1 : HeadMajor(a, p, {"K", "V"}).rows[g] = PlaceOf(x, b, g, p)
        BY <2>2
      <4>3. /\ AtHostPosition(a, block).accepted = TRUE
            /\ AtHostPosition(a, block).tensors = {"K", "V"}
            /\ DOMAIN AtHostPosition(a, block).rows = 0 .. kv - 1
            /\ \A g \in 0 .. kv - 1 : AtHostPosition(a, block).rows[g] = PlaceOf(x, b, g, p)
        BY <4>1, <4>2, Zenon
      <4> QED BY <3>2, <4>3
    <3>3. CASE ~(dim > 0 /\ block /\ p < MaxSeq)
      BY <1>6, <1>7, <3>1, <3>3 DEF NotAppended
    <3> QED BY <3>2, <3>3
  <2>4. ASSUME NEW block \in BOOLEAN, NEW tensors
        PROVE  LET w == AtDevicePosition(a, block, tensors, p)
               IN  /\ w.accepted <=> dim > 0 /\ block
                   /\ w.accepted =>
                        /\ w.tensors = tensors /\ DOMAIN w.rows = 0 .. kv - 1
                        /\ \A g \in 0 .. kv - 1 : w.rows[g] = PlaceOf(x, b, g, p)
    BY <1>6, <1>7, <2>2 DEF AtDevicePosition, NotAppended
  <2>5. Bf16Block(a) \in BOOLEAN /\ Fp8Block(a) \in BOOLEAN
    BY DEF Bf16Block, Fp8Block
  <2>6. CASE x.append \in {"kv_append_strided_bf16", "kv_append_strided_bf16_src_view",
                           "kv_append_strided_bf16_full_view"}
    <3>1. Appended(a, p, tensor) = AtHostPosition(a, Bf16Block(a))
      BY <1>1, <2>6 DEF Appended, kv_append_strided_bf16, kv_append_strided_bf16_src_view,
         kv_append_strided_bf16_full_view
    <3>2. PlaceIsChecked /\ ~Multi(x) /\ (Accepts(x) <=> dim > 0 /\ Bf16Block(a))
      BY <1>1, <1>2, <1>8, <1>9, <2>6 DEF PlaceIsChecked, Multi, Accepts
    <3> QED BY <1>1, <1>2, <1>4, <2>3, <2>5, <3>1, <3>2 DEF Lays
  <2>7. CASE x.append \in {"kv_append_strided_fp8", "kv_append_strided_fp8_full_view"}
    <3>1. Appended(a, p, tensor) = AtHostPosition(a, Fp8Block(a))
      BY <1>1, <2>7 DEF Appended, kv_append_strided_fp8, kv_append_strided_fp8_full_view
    <3>2. PlaceIsChecked /\ ~Multi(x) /\ (Accepts(x) <=> dim > 0 /\ Fp8Block(a))
      BY <1>1, <1>2, <1>8, <1>9, <2>7 DEF PlaceIsChecked, Multi, Accepts
    <3> QED BY <1>1, <1>2, <1>4, <2>3, <2>5, <3>1, <3>2 DEF Lays
  <2>8. CASE x.append = "kv_append_strided_bf16_pos_dev"
    <3>1. Appended(a, p, tensor) = AtDevicePosition(a, Bf16Block(a), {"K", "V"}, p)
      BY <1>1, <2>8 DEF Appended, kv_append_strided_bf16_pos_dev
    <3>2. ~PlaceIsChecked /\ ~Multi(x) /\ (Accepts(x) <=> dim > 0 /\ Bf16Block(a))
      BY <1>1, <1>2, <1>8, <1>9, <2>8 DEF PlaceIsChecked, Multi, Accepts
    <3> QED BY <1>1, <1>2, <1>4, <2>4, <2>5, <3>1, <3>2 DEF Lays
  <2>9. CASE x.append = "kv_append_strided_fp8_pos_dev"
    <3>1. Appended(a, p, tensor) = AtDevicePosition(a, Fp8Block(a), {"K", "V"}, p)
      BY <1>1, <2>9 DEF Appended, kv_append_strided_fp8_pos_dev
    <3>2. ~PlaceIsChecked /\ ~Multi(x) /\ (Accepts(x) <=> dim > 0 /\ Fp8Block(a))
      BY <1>1, <1>2, <1>8, <1>9, <2>9 DEF PlaceIsChecked, Multi, Accepts
    <3> QED BY <1>1, <1>2, <1>4, <2>4, <2>5, <3>1, <3>2 DEF Lays
  <2>10. CASE x.append = "kv_append_multihead_bf16_pos_dev"
    <3>1. Appended(a, p, tensor) = AtDevicePosition(a, Bf16Block(a), {tensor}, p)
      BY <1>1, <2>10 DEF Appended, kv_append_multihead_bf16_pos_dev
    <3>2. ~PlaceIsChecked /\ Multi(x) /\ (Accepts(x) <=> dim > 0 /\ Bf16Block(a))
      BY <1>1, <1>2, <1>8, <1>9, <2>10 DEF PlaceIsChecked, Multi, Accepts
    <3> QED BY <1>1, <1>2, <1>4, <2>4, <2>5, <3>1, <3>2 DEF Lays
  <2> QED BY <1>1, <1>9, <2>6, <2>7, <2>8, <2>9, <2>10 DEF Coupled, Appends
<1>10. CASE x.paged
  <2>1. x.append = "kv_cache_fp8_write"
    BY <1>1, <1>10 DEF Coupled
  <2>2. p \div ps \in 0 .. MaxSeq
    <3>1. PICK q \in Nat, r \in 0 .. ps - 1 : p \div ps = q /\ p = q * ps + r
      <4>1. \E q \in Nat, r \in 0 .. ps - 1 : p \div ps = q /\ p % ps = r /\ p = q * ps + r
        BY <1>3, DividedBack
      <4> QED BY <4>1
    <3>2. PICK e \in Nat : ps = e + 1
      <4>1. ps - 1 \in Nat /\ ps = (ps - 1) + 1
        OBVIOUS
      <4> QED BY <4>1
    <3>3. PICK f \in Nat : f = q * e
      OBVIOUS
    <3>4. q * ps = f + q
      BY <3>2, <3>3
    <3> QED BY <1>3, <3>1, <3>4
  <2>3. a.page = (p \div ps) * n + b
    BY <1>1, <1>2, <1>5, <2>2 DEF Table
  <2>4. Appended(a, p, tensor) =
          [accepted |-> TRUE, tensors |-> {"K", "V"},
           rows |-> [h \in 0 .. kv - 1 |-> (a.page * ps + a.slot) * kv + h]]
    <3>1. Appended(a, p, tensor) = kv_cache_fp8_write(a)
      BY <1>1, <2>1 DEF Appended
    <3>2. a.batch > 0 /\ a.kv_heads > 0 /\ a.page_size > 0
      BY <1>2, <1>5
    <3> QED BY <1>5, <3>1, <3>2 DEF kv_cache_fp8_write
  <2>5. \A g \in 0 .. kv - 1 : (a.page * ps + a.slot) * kv + g = PlaceOf(x, b, g, p)
    <3> SUFFICES ASSUME NEW g \in 0 .. kv - 1
                 PROVE  (a.page * ps + a.slot) * kv + g = PlaceOf(x, b, g, p)
      OBVIOUS
    <3>1. PlaceOf(x, b, g, p) = (((p \div ps) * n + b) * ps + (p % ps)) * kv + g
      BY <1>2, <1>10, Zenon DEF PlaceOf
    <3>2. a.slot = p % ps
      BY <1>5
    <3>3. a.page = (p \div ps) * n + b
      BY <2>3
    <3>4. a.page * ps + a.slot = ((p \div ps) * n + b) * ps + (p % ps)
      BY <3>2, <3>3, Zenon
    <3> QED BY <3>1, <3>4, Zenon
  <2>6. ~PlaceIsChecked /\ ~Multi(x) /\ Accepts(x)
    BY <1>1, <1>10, <2>1 DEF PlaceIsChecked, Multi, Accepts
  <2> QED BY <1>1, <1>2, <1>4, <2>4, <2>5, <2>6 DEF Lays
<1> QED BY <1>9, <1>10

-----------------------------------------------------------------------------
(* A session: what the operations on the stream will leave in the caches.  *)

Ops(x) ==
  [op : {"positions"}, at : [0 .. x.batch - 1 -> Nat]]
    \cup [op : {"append"}, b : 0 .. x.batch - 1, at : Nat, token : Nat, tensor : {"K", "V"}]
    \cup [op : {"attend"}, length : Nat, due : SUBSET (Nat \X Nat \X Nat \X Nat)]

\* Whether operation e appends a token to tensor t at place p of sequence b.
Writes(x, e, t, b, p) ==
  e.op = "append" /\ e.b = b /\ e.at = p /\ (Multi(x) => e.tensor = t)

\* The caches hold token at place p of sequence b,
Held(x, ca, t, b, p, token) ==
  \A g \in 0 .. x.kv_heads - 1 : ca[t][PlaceOf(x, b, g, p)] = <<b, g, token>>

\* or will when the device comes to operation j of the stream s.
Will(x, s, ca, j, t, b, p, token) ==
  \/ \E i \in 1 .. j - 1 : /\ Writes(x, s[i], t, b, p) /\ s[i].token = token
                           /\ \A m \in i + 1 .. j - 1 : ~Writes(x, s[m], t, b, p)
  \/ Held(x, ca, t, b, p, token) /\ \A m \in 1 .. j - 1 : ~Writes(x, s[m], t, b, p)

\* The positions in device memory are then at.
PosIs(s, dp, j, at) ==
  \/ \E i \in 1 .. j - 1 : /\ s[i].op = "positions" /\ s[i].at = at
                           /\ \A m \in i + 1 .. j - 1 : s[m].op # "positions"
  \/ dp = at /\ \A m \in 1 .. j - 1 : s[m].op # "positions"

\* The tokens of each sequence, as the host may have them.
Seen(x, now) ==
  /\ now \in [0 .. x.batch - 1 -> Seq(Nat)]
  /\ \A b \in 0 .. x.batch - 1 : Len(now[b]) <= MaxSeq
  /\ ~x.perSequence => \A b \in 0 .. x.batch - 1 : Len(now[b]) = Len(now[0])

Agreed(x, s, ca, j, now) ==
  \A t \in {"K", "V"}, b \in 0 .. x.batch - 1 : \A p \in 0 .. Len(now[b]) - 1 :
    Will(x, s, ca, j, t, b, p, now[b][p + 1])

DueOf(x, now) ==
  {<<y[1], y[2], y[3], now[y[1]][y[3] + 1]>> :
     y \in {y \in (0 .. x.batch - 1) \X (0 .. x.heads - 1) \X (0 .. MaxSeq - 1) :
             y[3] < Len(now[y[1]]) /\ (x.window > 0 => y[3] + x.window >= Len(now[y[1]]))}}

AppendOK(x, s, dp, j) ==
  /\ s[j].at < MaxSeq /\ Accepts(x)
  /\ \E at : PosIs(s, dp, j, at) /\ at[s[j].b] = s[j].at

AttendOK(x, s, ca, dp, j) ==
  /\ x.paged => s[j].length % Tile = 0
  /\ \E now, at :
       /\ Seen(x, now) /\ Agreed(x, s, ca, j, now)
       /\ at \in [0 .. x.batch - 1 -> Nat] /\ PosIs(s, dp, j, at)
       /\ \A b \in 0 .. x.batch - 1 : Len(now[b]) = at[b] + 1
       /\ s[j].length = Len(now[0]) /\ s[j].due = DueOf(x, now)

OpsOK(x, s, ca, dp) ==
  \A j \in 1 .. Len(s) : /\ s[j].op = "append" => AppendOK(x, s, dp, j)
                         /\ s[j].op = "attend" => AttendOK(x, s, ca, dp, j)

\* Only what is in front of an operation matters to it.
LEMMA WillSame ==
  ASSUME NEW x, NEW s, NEW r, NEW ca, NEW j \in Nat, NEW t, NEW b, NEW p, NEW token,
         \A i \in 1 .. j - 1 : s[i] = r[i], Will(x, s, ca, j, t, b, p, token)
  PROVE  Will(x, r, ca, j, t, b, p, token)
<1>1. ASSUME NEW i \in 1 .. j - 1, Writes(x, s[i], t, b, p), s[i].token = token,
             \A m \in i + 1 .. j - 1 : ~Writes(x, s[m], t, b, p)
      PROVE  Will(x, r, ca, j, t, b, p, token)
  <2>1. Writes(x, r[i], t, b, p) /\ r[i].token = token
    BY <1>1
  <2>2. \A m \in i + 1 .. j - 1 : ~Writes(x, r[m], t, b, p)
    BY <1>1
  <2> QED BY <2>1, <2>2 DEF Will
<1>2. ASSUME Held(x, ca, t, b, p, token), \A m \in 1 .. j - 1 : ~Writes(x, s[m], t, b, p)
      PROVE  Will(x, r, ca, j, t, b, p, token)
  <2>1. \A m \in 1 .. j - 1 : ~Writes(x, r[m], t, b, p)
    BY <1>2
  <2> QED BY <1>2, <2>1 DEF Will
<1> QED BY <1>1, <1>2 DEF Will

LEMMA PosSame ==
  ASSUME NEW s, NEW r, NEW dp, NEW j \in Nat, NEW at,
         \A i \in 1 .. j - 1 : s[i] = r[i], PosIs(s, dp, j, at)
  PROVE  PosIs(r, dp, j, at)
BY DEF PosIs

\* An operation the device has run is off the stream.
LEMMA Dropped ==
  ASSUME NEW S, NEW s \in Seq(S), s # << >>
  PROVE  /\ Len(s) \in Nat \ {0} /\ Tail(s) \in Seq(S) /\ Len(Tail(s)) = Len(s) - 1
         /\ \A i \in 1 .. Len(s) - 1 : Tail(s)[i] = s[i + 1]
         /\ Head(s) = s[1]
OBVIOUS

\* What it wrote is in the caches,
LEMMA WillDropped ==
  ASSUME NEW x, NEW S, NEW s \in Seq(S), s # << >>, NEW ca, NEW cb, NEW j \in 1 .. Len(s),
         NEW t, NEW b, NEW p, NEW token, Will(x, s, ca, j + 1, t, b, p, token),
         Writes(x, s[1], t, b, p) /\ s[1].token = token => Held(x, cb, t, b, p, token),
         ~Writes(x, s[1], t, b, p) /\ Held(x, ca, t, b, p, token) => Held(x, cb, t, b, p, token)
  PROVE  Will(x, Tail(s), cb, j, t, b, p, token)
<1>1. /\ \A i \in 1 .. j - 1 : Tail(s)[i] = s[i + 1] /\ i + 1 \in 1 .. j
      /\ j \in Nat /\ 1 \in 1 .. j /\ (j + 1) - 1 = j
  BY Dropped
<1>2. ASSUME NEW i \in 1 .. j, Writes(x, s[i], t, b, p), s[i].token = token,
             \A m \in i + 1 .. j : ~Writes(x, s[m], t, b, p)
      PROVE  Will(x, Tail(s), cb, j, t, b, p, token)
  <2>1. CASE i = 1
    <3>1. \A m \in 1 .. j - 1 : ~Writes(x, Tail(s)[m], t, b, p)
      <4> SUFFICES ASSUME NEW m \in 1 .. j - 1
                   PROVE  ~Writes(x, Tail(s)[m], t, b, p)
        OBVIOUS
      <4>1. m + 1 \in i + 1 .. j /\ Tail(s)[m] = s[m + 1]
        BY <1>1, <2>1
      <4> QED BY <1>2, <4>1
    <3>2. Held(x, cb, t, b, p, token)
      BY <1>2, <2>1
    <3> QED BY <3>1, <3>2 DEF Will
  <2>2. CASE i # 1
    <3>1. PICK n \in 1 .. j - 1 : i = n + 1
      <4>1. i - 1 \in 1 .. j - 1 /\ i = (i - 1) + 1
        BY <1>1, <2>2
      <4> QED BY <4>1
    <3>2. Writes(x, Tail(s)[n], t, b, p) /\ Tail(s)[n].token = token
      BY <1>1, <1>2, <3>1
    <3>3. \A m \in n + 1 .. j - 1 : ~Writes(x, Tail(s)[m], t, b, p)
      <4> SUFFICES ASSUME NEW m \in n + 1 .. j - 1
                   PROVE  ~Writes(x, Tail(s)[m], t, b, p)
        OBVIOUS
      <4>1. m + 1 \in i + 1 .. j /\ m \in 1 .. j - 1
        BY <1>1, <3>1
      <4> QED BY <1>1, <1>2, <4>1
    <3> QED BY <3>2, <3>3 DEF Will
  <2> QED BY <2>1, <2>2
<1>3. ASSUME Held(x, ca, t, b, p, token), \A m \in 1 .. j : ~Writes(x, s[m], t, b, p)
      PROVE  Will(x, Tail(s), cb, j, t, b, p, token)
  <2>1. \A m \in 1 .. j - 1 : ~Writes(x, Tail(s)[m], t, b, p)
    BY <1>1, <1>3
  <2>2. Held(x, cb, t, b, p, token)
    BY <1>1, <1>3
  <2> QED BY <2>1, <2>2 DEF Will
<1> QED BY <1>1, <1>2, <1>3 DEF Will

\* and the positions it copied are on the device.
LEMMA PosDropped ==
  ASSUME NEW S, NEW s \in Seq(S), s # << >>, NEW dp, NEW dq, NEW j \in 1 .. Len(s), NEW at,
         PosIs(s, dp, j + 1, at),
         s[1].op = "positions" => dq = s[1].at, s[1].op # "positions" => dq = dp
  PROVE  PosIs(Tail(s), dq, j, at)
<1>1. /\ \A i \in 1 .. j - 1 : Tail(s)[i] = s[i + 1] /\ i + 1 \in 1 .. j
      /\ j \in Nat /\ 1 \in 1 .. j /\ (j + 1) - 1 = j
  BY Dropped
<1>2. ASSUME NEW i \in 1 .. j, s[i].op = "positions", s[i].at = at,
             \A m \in i + 1 .. j : s[m].op # "positions"
      PROVE  PosIs(Tail(s), dq, j, at)
  <2>1. CASE i = 1
    <3>1. \A m \in 1 .. j - 1 : Tail(s)[m].op # "positions"
      <4> SUFFICES ASSUME NEW m \in 1 .. j - 1
                   PROVE  Tail(s)[m].op # "positions"
        OBVIOUS
      <4>1. m + 1 \in i + 1 .. j /\ Tail(s)[m] = s[m + 1]
        BY <1>1, <2>1
      <4> QED BY <1>2, <4>1
    <3>2. dq = at
      BY <1>2, <2>1
    <3> QED BY <3>1, <3>2 DEF PosIs
  <2>2. CASE i # 1
    <3>1. PICK n \in 1 .. j - 1 : i = n + 1
      <4>1. i - 1 \in 1 .. j - 1 /\ i = (i - 1) + 1
        BY <1>1, <2>2
      <4> QED BY <4>1
    <3>2. Tail(s)[n].op = "positions" /\ Tail(s)[n].at = at
      BY <1>1, <1>2, <3>1
    <3>3. \A m \in n + 1 .. j - 1 : Tail(s)[m].op # "positions"
      <4> SUFFICES ASSUME NEW m \in n + 1 .. j - 1
                   PROVE  Tail(s)[m].op # "positions"
        OBVIOUS
      <4>1. m + 1 \in i + 1 .. j /\ m \in 1 .. j - 1
        BY <1>1, <3>1
      <4> QED BY <1>1, <1>2, <4>1
    <3> QED BY <3>2, <3>3 DEF PosIs
  <2> QED BY <2>1, <2>2
<1>3. ASSUME dp = at, \A m \in 1 .. j : s[m].op # "positions"
      PROVE  PosIs(Tail(s), dq, j, at)
  <2>1. \A m \in 1 .. j - 1 : Tail(s)[m].op # "positions"
    BY <1>1, <1>3
  <2>2. dq = at
    BY <1>1, <1>3
  <2> QED BY <2>1, <2>2 DEF PosIs
<1> QED BY <1>1, <1>2, <1>3 DEF PosIs

\* A device that has run an operation leaves the others what they are for.
LEMMA OpsDropped ==
  ASSUME NEW x, NEW S, NEW s \in Seq(S), s # << >>, NEW ca, NEW cb, NEW dp, NEW dq, OpsOK(x, s, ca, dp),
         \A t \in {"K", "V"}, b \in 0 .. x.batch - 1 : \A p \in 0 .. MaxSeq - 1 : \A token :
           /\ Writes(x, s[1], t, b, p) /\ s[1].token = token => Held(x, cb, t, b, p, token)
           /\ ~Writes(x, s[1], t, b, p) /\ Held(x, ca, t, b, p, token) => Held(x, cb, t, b, p, token),
         s[1].op = "positions" => dq = s[1].at, s[1].op # "positions" => dq = dp
  PROVE  /\ OpsOK(x, Tail(s), cb, dq)
         /\ \A now : Seen(x, now) /\ Agreed(x, s, ca, Len(s) + 1, now)
                     => Agreed(x, Tail(s), cb, Len(Tail(s)) + 1, now)
<1>1. /\ Len(s) \in Nat \ {0} /\ Len(Tail(s)) = Len(s) - 1
      /\ \A i \in 1 .. Len(s) - 1 : Tail(s)[i] = s[i + 1]
  BY Dropped
<1>2. MaxSeq \in Nat
  BY SessionOK
<1>3. ASSUME NEW now, Seen(x, now), NEW j \in 1 .. Len(s), Agreed(x, s, ca, j + 1, now)
      PROVE  Agreed(x, Tail(s), cb, j, now)
  <2> SUFFICES ASSUME NEW t \in {"K", "V"}, NEW b \in 0 .. x.batch - 1, NEW p \in 0 .. Len(now[b]) - 1
               PROVE  Will(x, Tail(s), cb, j, t, b, p, now[b][p + 1])
    BY DEF Agreed
  <2>1. p \in 0 .. MaxSeq - 1
    <3>1. now[b] \in Seq(Nat) /\ Len(now[b]) <= MaxSeq
      BY <1>3 DEF Seen
    <3>2. Len(now[b]) \in Nat
      BY <3>1
    <3> QED BY <1>2, <3>1, <3>2
  <2>2. Will(x, s, ca, j + 1, t, b, p, now[b][p + 1])
    BY <1>3 DEF Agreed
  <2> QED BY <2>1, <2>2, WillDropped
<1>4. ASSUME NEW j \in 1 .. Len(Tail(s)), Tail(s)[j].op = "append"
      PROVE  AppendOK(x, Tail(s), dq, j)
  <2>1. j \in 1 .. Len(s) - 1 /\ j \in 1 .. Len(s) /\ j + 1 \in 1 .. Len(s) /\ Tail(s)[j] = s[j + 1]
    BY <1>1
  <2>2. AppendOK(x, s, dp, j + 1)
    BY <1>4, <2>1 DEF OpsOK
  <2>3. PICK at : PosIs(s, dp, j + 1, at) /\ at[s[j + 1].b] = s[j + 1].at
    BY <2>2 DEF AppendOK
  <2>4. PosIs(Tail(s), dq, j, at)
    BY <2>1, <2>3, PosDropped
  <2> QED BY <2>1, <2>2, <2>3, <2>4 DEF AppendOK
<1>5. ASSUME NEW j \in 1 .. Len(Tail(s)), Tail(s)[j].op = "attend"
      PROVE  AttendOK(x, Tail(s), cb, dq, j)
  <2>1. j \in 1 .. Len(s) - 1 /\ j \in 1 .. Len(s) /\ j + 1 \in 1 .. Len(s) /\ Tail(s)[j] = s[j + 1]
    BY <1>1
  <2>2. AttendOK(x, s, ca, dp, j + 1)
    BY <1>5, <2>1 DEF OpsOK
  <2>3. PICK now, at :
          /\ Seen(x, now) /\ Agreed(x, s, ca, j + 1, now)
          /\ at \in [0 .. x.batch - 1 -> Nat] /\ PosIs(s, dp, j + 1, at)
          /\ \A b \in 0 .. x.batch - 1 : Len(now[b]) = at[b] + 1
          /\ s[j + 1].length = Len(now[0]) /\ s[j + 1].due = DueOf(x, now)
    BY <2>2 DEF AttendOK
  <2>4. PosIs(Tail(s), dq, j, at)
    BY <2>1, <2>3, PosDropped
  <2>5. Agreed(x, Tail(s), cb, j, now)
    BY <1>3, <2>1, <2>3
  <2> QED BY <2>1, <2>2, <2>3, <2>4, <2>5 DEF AttendOK
<1>6. ASSUME NEW now, Seen(x, now), Agreed(x, s, ca, Len(s) + 1, now)
      PROVE  Agreed(x, Tail(s), cb, Len(Tail(s)) + 1, now)
  <2>1. Len(s) \in 1 .. Len(s) /\ Len(Tail(s)) + 1 = Len(s)
    BY <1>1
  <2>2. Agreed(x, Tail(s), cb, Len(s), now)
    BY <1>3, <1>6, <2>1
  <2> QED BY <2>1, <2>2
<1> QED BY <1>4, <1>5, <1>6 DEF OpsOK

-----------------------------------------------------------------------------
(* A session: what an append leaves, and what an attention reads.          *)

\* The caches when append e has stored what it is to store, w.
RowsAfter(ca, e, w) ==
  [t \in {"K", "V"} |-> [r \in Rows |->
     IF t \in w.tensors /\ \E h \in DOMAIN w.rows : w.rows[h] = r
     THEN <<e.b, CHOOSE h \in DOMAIN w.rows : w.rows[h] = r, e.token>> ELSE ca[t][r]]]

\* An append leaves its token in its place and every other token in its own.
LEMMA AppendRun ==
  ASSUME Coupled(chain), NEW e, e.op = "append", e.b \in 0 .. chain.batch - 1, e.at \in 0 .. MaxSeq - 1,
         Accepts(chain), NEW ca, NEW cb, NEW w,
         w = Appended(AppendCall(e.b, e.at), e.at, e.tensor),
         cb = RowsAfter(ca, e, w),
         NEW t \in {"K", "V"}, NEW b \in 0 .. chain.batch - 1, NEW p \in 0 .. MaxSeq - 1, NEW token
  PROVE  /\ Writes(chain, e, t, b, p) /\ e.token = token => Held(chain, cb, t, b, p, token)
         /\ ~Writes(chain, e, t, b, p) /\ Held(chain, ca, t, b, p, token) => Held(chain, cb, t, b, p, token)
<1>1. MaxSeq \in Nat \ {0} /\ e.at \in 0 .. MaxSeq /\ e.at < MaxSeq /\ e.b \in Slots
  BY SessionOK DEF Slots
<1>2. /\ w.tensors = IF Multi(chain) THEN {e.tensor} ELSE {"K", "V"}
      /\ DOMAIN w.rows = 0 .. chain.kv_heads - 1
      /\ \A h \in 0 .. chain.kv_heads - 1 : w.rows[h] = PlaceOf(chain, e.b, h, e.at)
  <2>1. Lays(w, e.b, e.at, e.tensor)
    BY <1>1, AppendIs
  <2> QED BY <1>1, <2>1 DEF Lays
<1>3. ASSUME NEW g \in 0 .. chain.kv_heads - 1
      PROVE  PlaceOf(chain, b, g, p) \in Rows
  <2>1. PlaceOf(chain, b, g, p) \in 0 .. (MaxSeq + 1) * chain.batch * chain.page_size * chain.kv_heads - 1
    BY PlaceIn
  <2> QED BY <2>1 DEF Rows
<1>4. ASSUME NEW g \in 0 .. chain.kv_heads - 1, NEW h \in DOMAIN w.rows, w.rows[h] = PlaceOf(chain, b, g, p)
      PROVE  b = e.b /\ g = h /\ p = e.at
  <2>1. h \in 0 .. chain.kv_heads - 1 /\ PlaceOf(chain, e.b, h, e.at) = PlaceOf(chain, b, g, p)
    BY <1>2, <1>4
  <2> QED BY <2>1, PlaceOnce
<1>5. ASSUME Writes(chain, e, t, b, p), e.token = token, NEW g \in 0 .. chain.kv_heads - 1
      PROVE  cb[t][PlaceOf(chain, b, g, p)] = <<b, g, token>>
  <2>1. e.b = b /\ e.at = p /\ t \in w.tensors
    BY <1>2, <1>5 DEF Writes
  <2>2. g \in DOMAIN w.rows /\ w.rows[g] = PlaceOf(chain, b, g, p)
    BY <1>2, <2>1
  <2>3. (CHOOSE h \in DOMAIN w.rows : w.rows[h] = PlaceOf(chain, b, g, p)) = g
    BY <1>4, <2>2, SMTT(30)
  <2> QED BY <1>3, <1>5, <2>1, <2>2, <2>3 DEF RowsAfter
<1>6. ASSUME ~Writes(chain, e, t, b, p), Held(chain, ca, t, b, p, token), NEW g \in 0 .. chain.kv_heads - 1
      PROVE  cb[t][PlaceOf(chain, b, g, p)] = <<b, g, token>>
  <2>1. ca[t][PlaceOf(chain, b, g, p)] = <<b, g, token>>
    BY <1>6 DEF Held
  <2>2. ~(t \in w.tensors /\ \E h \in DOMAIN w.rows : w.rows[h] = PlaceOf(chain, b, g, p))
    <3> SUFFICES ASSUME t \in w.tensors, NEW h \in DOMAIN w.rows, w.rows[h] = PlaceOf(chain, b, g, p)
                 PROVE  FALSE
      OBVIOUS
    <3>1. b = e.b /\ p = e.at
      BY <1>4
    <3> QED BY <1>2, <1>6, <3>1 DEF Writes
  <2> QED BY <1>3, <2>1, <2>2 DEF RowsAfter
<1> QED BY <1>5, <1>6 DEF Held

AttendLength(now) == IF chain.perSequence THEN MaxSeq ELSE Len(now[0])

\* What the attentions of a session are called with.
LEMMA AttendCallable ==
  ASSUME Coupled(chain), NEW n \in 1 .. MaxSeq, NEW at \in [0 .. chain.batch - 1 -> Nat]
  PROVE  Callable(AttendCall(n, at))
<1>1. PICK batch \in Nat \ {0}, heads \in Nat \ {0}, kv \in Nat \ {0}, ps \in Nat \ {0}, win \in Nat :
        batch = chain.batch /\ heads = chain.heads /\ kv = chain.kv_heads /\ ps = chain.page_size
        /\ win = chain.window
  BY DEF Coupled
<1>2. MaxSeq \in Nat \ {0} /\ n \in Nat /\ n - 1 \in Nat
  BY SessionOK
<1>3. PICK qs \in Nat, ks \in Nat : qs = batch * heads /\ ks = batch * kv * MaxSeq
  <2>1. batch * heads \in Nat /\ batch * kv * MaxSeq \in Nat
    BY <1>2
  <2> QED BY <2>1
<1>4. PICK c : c = AttendCall(n, at)
  OBVIOUS
<1>5. /\ c.fn = chain.attend /\ c.batch = batch /\ c.heads = heads /\ c.kv_heads = kv /\ c.seq_q = 1
      /\ c.seq_kv = n /\ c.kv_stride = MaxSeq /\ c.offset = n - 1 /\ c.q = qs /\ c.o = qs /\ c.k = ks
      /\ c.v = ks /\ c.pos = at /\ c.pos_len = batch /\ c.window = win /\ c.num_splits = 1
      /\ c.page_size = ps /\ c.max_seqlen_q = 1 /\ c.total_q = 0 /\ c.total_kv = 0 /\ c.cu_len = 0
      /\ c.max_pages = MaxSeq /\ c.mask_len = 0 /\ c.block_size = 0 /\ c.k_top = 0 /\ c.idx_len = 0
  BY <1>1, <1>3, <1>4 DEF AttendCall
<1>6. /\ c.table = [b \in Slots |-> Table(b)] /\ c.lens = [b \in Slots |-> n]
      /\ c.cu_q = [b \in 0 .. batch |-> 0] /\ c.cu_k = [b \in 0 .. batch |-> 0]
      /\ c.blocks = [i \in 0 .. 1 |-> {}]
  BY <1>1, <1>4 DEF AttendCall
<1>7. c.fn \in Wrappers /\ c.fn \notin VarlenFns /\ c.fn \notin UncheckedFns
  <2>1. c.fn \in UpToLength \cup UpToPosition \cup UpToEach \cup OverPages
    BY <1>5 DEF Coupled
  <2>2. CASE c.fn \in UpToLength \cup UpToPosition
    <3>1. c.fn \in DecodeFns
      BY <2>2 DEF UpToLength, UpToPosition, DecodeFns
    <3>2. c.fn \notin VarlenFns
      BY <2>2 DEF UpToLength, UpToPosition, VarlenFns
    <3>3. c.fn \notin UncheckedFns
      BY <2>2 DEF UpToLength, UpToPosition, UncheckedFns
    <3> QED BY <3>1, <3>2, <3>3 DEF Wrappers
  <2>3. CASE c.fn \in UpToEach
    <3>1. c.fn \in LatentFns /\ c.fn \notin VarlenFns /\ c.fn \notin UncheckedFns
      BY <2>3 DEF UpToEach, LatentFns, VarlenFns, UncheckedFns
    <3> QED BY <3>1 DEF Wrappers
  <2>4. CASE c.fn \in OverPages
    <3>1. c.fn \in DenseFns
      BY <2>4 DEF OverPages, DenseFns
    <3>2. c.fn \notin VarlenFns /\ c.fn \notin UncheckedFns
      BY <2>4 DEF OverPages, VarlenFns, UncheckedFns
    <3> QED BY <3>1, <3>2 DEF Wrappers
  <2> QED BY <2>1, <2>2, <2>3, <2>4
<1>8. Dimensions \subseteq DOMAIN c
  BY <1>4 DEF AttendCall, Dimensions
<1>9. \A d \in Dimensions : c[d] \in Nat
  BY <1>2, <1>5, SMTT(30) DEF Dimensions
<1>10. \A b \in Batches(c) : {c.pos[b], c.lens[b]} \subseteq Nat
  BY <1>1, <1>2, <1>5, <1>6 DEF Batches, Slots
<1>11. \A b \in 0 .. c.batch : {c.cu_q[b], c.cu_k[b]} \subseteq Nat
  BY <1>5, <1>6
<1>12. \A i \in 0 .. c.seq_q : c.blocks[i] \subseteq Nat
  BY <1>5, <1>6
<1>13. \A b \in Batches(c) : \A p \in 0 .. Greatest(c.seq_kv, c.lens[b]) : c.table[b][p] \in Nat
  <2> SUFFICES ASSUME NEW b \in Batches(c), NEW p \in 0 .. Greatest(c.seq_kv, c.lens[b])
               PROVE  c.table[b][p] \in Nat
    OBVIOUS
  <2>1. b \in 0 .. batch - 1 /\ b \in Slots
    BY <1>1, <1>5 DEF Batches, Slots
  <2>2. p \in 0 .. MaxSeq
    BY <1>2, <1>5, <1>6, <2>1 DEF Greatest
  <2>3. c.table[b][p] = p * batch + b
    BY <1>1, <1>6, <2>1, <2>2 DEF Table
  <2> QED BY <1>2, <2>1, <2>2, <2>3
<1> QED BY <1>4, <1>5, <1>7, <1>8, <1>9, <1>10, <1>11, <1>12, <1>13, SMTT(30) DEF Callable

\* The launch of a session's attention: one query row, and the keys of the layout
\* the appends write.
LaunchOf(L) ==
  /\ L.accepted = TRUE /\ L.split = FALSE /\ L.rows = 1 /\ L.layout = "dense"
  /\ L.kv_heads = chain.kv_heads
  /\ IF chain.paged
     THEN L.load = "paged" /\ L.bound = "param" /\ L.mask = "none" /\ L.masks = FALSE /\ L.bc = Tile
     ELSE L.load = "rows" /\ L.stride = MaxSeq /\ L.masks = TRUE
  /\ L.bound = IF chain.attend \in UpToPosition THEN "first"
               ELSE IF chain.attend \in UpToEach THEN "each" ELSE "param"
  /\ L.bound = "first" => L.pos = "first"
  /\ \/ L.mask = "none" /\ chain.window = 0
     \/ L.mask = "sliding" /\ L.pos \in {"host", "first"} /\ L.bound # "each"

LEMMA AttendLaunched ==
  ASSUME Coupled(chain), NEW n \in 1 .. MaxSeq, chain.attend \in UpToEach => n = MaxSeq,
         NEW at \in [0 .. chain.batch - 1 -> Nat]
  PROVE  LaunchOf(Chosen(AttendCall(n, at)))
<1>1. PICK batch \in Nat \ {0}, heads \in Nat \ {0}, kv \in Nat \ {0}, win \in Nat :
        batch = chain.batch /\ heads = chain.heads /\ kv = chain.kv_heads /\ win = chain.window
        /\ heads % kv = 0
  BY DEF Coupled
<1>2. MaxSeq \in Nat \ {0} /\ n \in Nat /\ n > 0 /\ n <= MaxSeq
  BY SessionOK
<1>3. PICK qs \in Nat, ks \in Nat : qs = batch * heads /\ ks = batch * kv * MaxSeq
  <2>1. batch * heads \in Nat /\ batch * kv * MaxSeq \in Nat
    BY <1>2
  <2> QED BY <2>1
<1>4. PICK c : c = AttendCall(n, at)
  OBVIOUS
<1>5. /\ c.fn = chain.attend /\ c.batch = batch /\ c.heads = heads /\ c.kv_heads = kv /\ c.seq_q = 1
      /\ c.seq_kv = n /\ c.kv_stride = MaxSeq /\ c.q = qs /\ c.o = qs /\ c.k = ks
      /\ c.v = ks /\ c.pos_len = batch /\ c.window = win
  BY <1>1, <1>3, <1>4 DEF AttendCall
<1>6. CacheDims(c) /\ CacheBuffers(c) /\ Strided(c) /\ PosDevOK(c)
  <2>1. CacheDims(c)
    BY <1>1, <1>2, <1>5 DEF CacheDims
  <2>2. CacheRows(c) = ks /\ c.batch * c.heads = qs
    BY <1>3, <1>5 DEF CacheRows
  <2>3. CacheBuffers(c)
    BY <1>5, <2>2 DEF CacheBuffers
  <2> QED BY <1>1, <1>2, <1>5, <2>1, <2>3 DEF Strided, PosDevOK
<1>7. CASE chain.attend \in UpToLength
  <2>1. ~chain.paged /\ chain.attend \notin UpToPosition /\ chain.attend \notin UpToEach
    BY <1>7, SMTT(30) DEF Coupled, UpToLength, UpToPosition, UpToEach, OverPages
  <2>2. CASE chain.attend # "flash_attn_bf16_decode_d256_gqa"
    <3>1. Chosen(c) = Launch(Strided(c), c, DecodeKernel(c, "none", "param"))
      BY <1>5, <1>7, <2>2, Zenon DEF UpToLength, Chosen, flash_attn_bf16_decode_d128_gqa,
         flash_attn_bf16_decode_d192_dv128_gqa, fa_bf16_fp8kv_decode_d128_gqa,
         flash_attn_bf16_decode_d512_gqa
    <3>2. PICK L : L = DecodeKernel(c, "none", "param")
      OBVIOUS
    <3>3. /\ L.accepted = TRUE /\ L.split = FALSE /\ L.rows = 1 /\ L.layout = "dense"
          /\ L.kv_heads = kv /\ L.load = "rows" /\ L.stride = MaxSeq /\ L.masks = TRUE
          /\ L.bound = "param" /\ L.mask = "none" /\ L.grid_x = 1
      BY <1>5, <3>2 DEF DecodeKernel, Gqa, Plain
    <3>4. Chosen(c) = L
      BY <1>1, <1>5, <1>6, <3>1, <3>2, <3>3 DEF Launch
    <3>5. chain.window = 0
      BY <1>1, <1>7, <2>2 DEF Coupled, UpToLength, Windowed
    <3>6. LaunchOf(L)
      BY <1>1, <2>1, <3>3, <3>5 DEF LaunchOf
    <3> QED BY <1>4, <3>4, <3>6
  <2>3. CASE chain.attend = "flash_attn_bf16_decode_d256_gqa"
    <3>1. Chosen(c) = Launch(Strided(c), c, [DecodeKernel(c, "sliding", "param") EXCEPT !.pos = "host"])
      BY <1>5, <2>3 DEF Chosen, flash_attn_bf16_decode_d256_gqa
    <3>2. PICK L : L = [DecodeKernel(c, "sliding", "param") EXCEPT !.pos = "host"]
      OBVIOUS
    <3>3. /\ L.accepted = TRUE /\ L.split = FALSE /\ L.rows = 1 /\ L.layout = "dense"
          /\ L.kv_heads = kv /\ L.load = "rows" /\ L.stride = MaxSeq /\ L.masks = TRUE
          /\ L.bound = "param" /\ L.mask = "sliding" /\ L.grid_x = 1 /\ L.pos = "host"
      BY <1>5, <3>2 DEF DecodeKernel, Gqa, Plain
    <3>4. Chosen(c) = L
      BY <1>1, <1>5, <1>6, <3>1, <3>2, <3>3 DEF Launch
    <3> QED BY <1>1, <1>4, <2>1, <3>3, <3>4 DEF LaunchOf
  <2> QED BY <2>2, <2>3
<1>8. ASSUME NEW mask
      PROVE  LET L == PosDev(c, mask)
             IN  /\ L.accepted = TRUE /\ L.split = FALSE /\ L.rows = 1 /\ L.layout = "dense"
                 /\ L.kv_heads = kv /\ L.load = "rows" /\ L.stride = MaxSeq /\ L.masks = TRUE
                 /\ L.bound = "first" /\ L.mask = mask /\ L.grid_x = 1 /\ L.pos = "first"
  BY <1>5 DEF PosDev, DecodeKernel, Gqa, Plain
<1>9. CASE chain.attend \in UpToPosition
  <2>1. ~chain.paged
    BY <1>9, SMTT(30) DEF Coupled, UpToPosition, OverPages
  <2>2. CASE chain.attend \in Windowed
    <3>1. Chosen(c) = Launch(PosDevOK(c), c, PosDev(c, "sliding"))
          \/ Chosen(c) = Launch(CacheDims(c), c, PosDev(c, "sliding"))
      BY <1>5, <1>9, <2>2, Zenon DEF UpToPosition, Windowed, Chosen, flash_attn_bf16_fp8kv_decode_d256_gqa_pos_dev,
         flash_attn_bf16_decode_d256_gqa_pos_dev, flash_attn_bf16_decode_d256_gqa_pos_dev_view
    <3>2. PICK L : L = PosDev(c, "sliding")
      OBVIOUS
    <3>3. /\ L.accepted = TRUE /\ L.split = FALSE /\ L.rows = 1 /\ L.layout = "dense"
          /\ L.kv_heads = kv /\ L.load = "rows" /\ L.stride = MaxSeq /\ L.masks = TRUE
          /\ L.bound = "first" /\ L.mask = "sliding" /\ L.grid_x = 1 /\ L.pos = "first"
      BY <1>8, <3>2
    <3>4. Chosen(c) = L
      BY <1>1, <1>5, <1>6, <3>1, <3>2, <3>3, SMTT(30) DEF Launch
    <3>5. LaunchOf(L)
      BY <1>1, <1>9, <2>1, <3>3 DEF LaunchOf
    <3> QED BY <1>4, <3>4, <3>5
  <2>3. CASE chain.attend \notin Windowed
    <3>1. Chosen(c) = Launch(PosDevOK(c), c, PosDev(c, "none"))
          \/ Chosen(c) = Launch(CacheDims(c), c, PosDev(c, "none"))
      BY <1>5, <1>9, <2>3, Zenon DEF UpToPosition, Windowed, Chosen, flash_attn_bf16_fp8kv_decode_d512_gqa_pos_dev,
         flash_attn_bf16_decode_d512_gqa_pos_dev, flash_attn_bf16_decode_d512_gqa_pos_dev_view
    <3>2. PICK L : L = PosDev(c, "none")
      OBVIOUS
    <3>3. /\ L.accepted = TRUE /\ L.split = FALSE /\ L.rows = 1 /\ L.layout = "dense"
          /\ L.kv_heads = kv /\ L.load = "rows" /\ L.stride = MaxSeq /\ L.masks = TRUE
          /\ L.bound = "first" /\ L.mask = "none" /\ L.grid_x = 1 /\ L.pos = "first"
      BY <1>8, <3>2
    <3>4. Chosen(c) = L
      BY <1>1, <1>5, <1>6, <3>1, <3>2, <3>3 DEF Launch
    <3>5. chain.window = 0
      BY <1>1, <2>3 DEF Coupled
    <3>6. LaunchOf(L)
      BY <1>1, <1>9, <2>1, <3>3, <3>5 DEF LaunchOf
    <3> QED BY <1>4, <3>4, <3>6
  <2> QED BY <2>2, <2>3
<1>10. CASE chain.attend \in UpToEach
  <2>1. ~chain.paged /\ chain.attend \notin UpToPosition /\ chain.attend \notin Windowed
    BY <1>10 DEF Coupled, UpToPosition, UpToEach, OverPages, Windowed
  <2>2. heads = kv /\ n = MaxSeq /\ win = 0
    BY <1>1, <1>10, <2>1 DEF Coupled
  <2>3. KvRows(c, c.heads) = ks
    BY <1>3, <1>5, <2>2 DEF KvRows
  <2>4. PICK L : L = [DecodeKernel(c, "none", "each") EXCEPT !.kv_heads = c.heads, !.stride = c.seq_kv]
    OBVIOUS
  <2>5. /\ L.accepted = TRUE /\ L.split = FALSE /\ L.rows = 1 /\ L.layout = "dense"
        /\ L.kv_heads = kv /\ L.load = "rows" /\ L.stride = MaxSeq /\ L.masks = TRUE
        /\ L.bound = "each" /\ L.mask = "none" /\ L.grid_x = 1
    BY <1>5, <2>2, <2>4, SMTT(30) DEF DecodeKernel, Gqa, Plain
  <2>6. Chosen(c) = fa_bf16_fp8kv_decode_d128_causal(c)
    BY <1>5, <1>10, Zenon DEF Chosen, UpToEach
  <2>7. c.batch * c.heads = qs
    BY <1>3, <1>5
  <2>8. Chosen(c) = L
    BY <1>1, <1>2, <1>5, <2>3, <2>4, <2>5, <2>6, <2>7 DEF Launch, fa_bf16_fp8kv_decode_d128_causal
  <2>9. LaunchOf(L)
    BY <1>1, <1>10, <2>1, <2>2, <2>5 DEF LaunchOf
  <2> QED BY <1>4, <2>8, <2>9
<1>11. CASE chain.attend \in OverPages
  <2>1. chain.paged /\ chain.attend \notin UpToPosition /\ chain.attend \notin UpToEach
        /\ chain.attend \notin Windowed
    BY <1>11, SMTT(30) DEF Coupled, UpToPosition, UpToEach, OverPages, Windowed
  <2>2. Chosen(c) = Launch(GqaDims(c), c, Paged(c, V3(c, "none")))
    BY <1>5, <1>11, Zenon DEF Chosen, OverPages, flash_attn_bf16_v3_paged_kv, flash_attn_fp8_v3_paged_kv
  <2>3. PICK L : L = Paged(c, V3(c, "none"))
    OBVIOUS
  <2>4. /\ L.accepted = TRUE /\ L.split = FALSE /\ L.rows = 1 /\ L.layout = "dense"
        /\ L.kv_heads = kv /\ L.load = "paged" /\ L.masks = FALSE /\ L.bc = Tile
        /\ L.bound = "param" /\ L.mask = "none" /\ L.grid_x = CeilDiv(1, 2 * Tile)
    BY <1>5, <2>3 DEF Paged, V3, Gqa, Plain, QTiles
  <2>5. L.grid_x > 0
    <3>1. 2 * Tile \in Nat \ {0}
      BY AttnOK
    <3>2. CeilDiv(1, 2 * Tile) \in Nat /\ 0 < CeilDiv(1, 2 * Tile)
      <4>1. PICK m \in Nat \ {0} : m = 2 * Tile
        BY <3>1
      <4>2. CeilDiv(1, m) \in Nat /\ (0 < CeilDiv(1, m) <=> 0 * m < 1)
        BY CeilDivNat, CeilDivTiles
      <4> QED BY <4>1, <4>2
    <3> QED BY <2>4, <3>2
  <2>6. GqaDims(c)
    BY <1>1, <1>2, <1>5 DEF GqaDims, Divides, validate_attn_dims
  <2>7. Chosen(c) = L
    BY <1>1, <1>5, <2>2, <2>3, <2>5, <2>6 DEF Launch
  <2>8. chain.window = 0
    BY <1>1, <2>1 DEF Coupled
  <2>9. LaunchOf(L)
    BY <1>1, <2>1, <2>4, <2>8 DEF LaunchOf
  <2> QED BY <1>4, <2>7, <2>9
<1> QED BY <1>7, <1>9, <1>10, <1>11 DEF Coupled

\* The tokens of now are all of the cache that the attention comes to, each in
\* the place its append put it.
InWindow(now, b, p) == p < Len(now[b]) /\ (chain.window > 0 => p + chain.window >= Len(now[b]))

Comes(L, c, now) ==
  /\ Callable(c) /\ Shaped(L, c) /\ OnePosition(L, c) /\ LaunchOf(L)
  /\ \A b \in 0 .. chain.batch - 1 : Padding(L, c, b, 0) = {}
  /\ \A b, h, i : IsRow(L, c, b, h, i) <=> b \in 0 .. chain.batch - 1 /\ h \in 0 .. chain.heads - 1 /\ i = 0
  /\ \A b \in 0 .. chain.batch - 1 : \A p : p \in ReferenceKeys(L, c, b, 0) <=> p \in Nat /\ InWindow(now, b, p)
  /\ \A b \in 0 .. chain.batch - 1, g \in 0 .. chain.kv_heads - 1 : \A p \in Nat :
       p < Len(now[b]) => p < MaxSeq /\ FlatKey(L, c, b, g, p) = PlaceOf(chain, b, g, p)
  /\ \A h \in 0 .. chain.heads - 1 :
       /\ OwnHead(L, c, h) = h \div (chain.heads \div chain.kv_heads)
       /\ OwnHead(L, c, h) \in 0 .. chain.kv_heads - 1

LEMMA AttendFacts ==
  ASSUME Coupled(chain), NEW now, Seen(chain, now), NEW at \in [0 .. chain.batch - 1 -> Nat],
         \A b \in 0 .. chain.batch - 1 : Len(now[b]) = at[b] + 1,
         chain.paged => Len(now[0]) % Tile = 0,
         NEW c, c = AttendCall(AttendLength(now), at), NEW L, L = Chosen(c)
  PROVE  Comes(L, c, now)
<1>1. PICK batch \in Nat \ {0}, heads \in Nat \ {0}, kv \in Nat \ {0}, ps \in Nat \ {0}, win \in Nat :
        batch = chain.batch /\ heads = chain.heads /\ kv = chain.kv_heads /\ ps = chain.page_size
        /\ win = chain.window
  BY DEF Coupled
<1>2. MaxSeq \in Nat \ {0}
  BY SessionOK
<1>3. ASSUME NEW b \in 0 .. batch - 1
      PROVE  Len(now[b]) \in 1 .. MaxSeq /\ at[b] \in Nat /\ Len(now[b]) = at[b] + 1
  <2>1. now[b] \in Seq(Nat) /\ Len(now[b]) <= MaxSeq
    BY <1>1 DEF Seen
  <2>2. Len(now[b]) = at[b] + 1 /\ at[b] \in Nat
    BY <1>1
  <2> QED BY <1>2, <2>1, <2>2
<1>4. PICK n \in 1 .. MaxSeq : n = AttendLength(now)
  <2>1. 0 \in 0 .. batch - 1
    BY <1>1
  <2> QED BY <1>2, <1>3, <2>1 DEF AttendLength
<1>5. chain.perSequence => n = MaxSeq
  BY <1>4 DEF AttendLength
<1>6. ~chain.perSequence => n = Len(now[0]) /\ \A b \in 0 .. batch - 1 : Len(now[b]) = n
  BY <1>1, <1>4 DEF AttendLength, Seen
<1>7. chain.attend \in UpToEach <=> chain.perSequence
  BY DEF Coupled
<1>8. Callable(c) /\ LaunchOf(L)
  <2>1. Callable(c)
    BY <1>4, AttendCallable
  <2>2. LaunchOf(L)
    BY <1>4, <1>5, <1>7, AttendLaunched
  <2> QED BY <2>1, <2>2
<1>9. Shaped(L, c)
  <2>1. Chosen(c).accepted = TRUE
    BY <1>8 DEF LaunchOf
  <2> QED BY <1>8, <2>1, ChosenSound DEF Sound
<1>10. /\ c.batch = batch /\ c.heads = heads /\ c.kv_heads = kv /\ c.seq_kv = n /\ c.offset = n - 1
       /\ c.pos = at /\ c.window = win /\ c.page_size = ps /\ c.table = [b \in Slots |-> Table(b)]
  BY <1>1, <1>4 DEF AttendCall
<1>11. /\ L.split = FALSE /\ L.rows = 1 /\ L.layout = "dense" /\ L.kv_heads = kv
       /\ chain.paged => L.load = "paged" /\ L.bound = "param" /\ L.mask = "none" /\ L.masks = FALSE /\ L.bc = Tile
       /\ ~chain.paged => L.load = "rows" /\ L.stride = MaxSeq /\ L.masks = TRUE
       /\ chain.attend \in UpToPosition => L.bound = "first"
       /\ chain.attend \in UpToEach /\ chain.attend \notin UpToPosition => L.bound = "each"
       /\ chain.attend \notin UpToEach /\ chain.attend \notin UpToPosition => L.bound = "param"
       /\ L.bound = "first" => L.pos = "first"
       /\ L.mask = "none" => win = 0
       /\ L.mask \in {"none", "sliding"} 
       /\ L.mask = "sliding" => L.pos \in {"host", "first"} /\ L.bound # "each"
  BY <1>1, <1>8 DEF LaunchOf
<1>12. ~Ragged(L)
  BY <1>11 DEF Ragged
<1>13. chain.attend \in UpToPosition => chain.attend \notin UpToEach /\ ~chain.perSequence
  BY <1>7 DEF UpToPosition, UpToEach
<1>14. ASSUME NEW b \in 0 .. batch - 1
       PROVE  SeqKv(L, c, b) = Len(now[b])
  <2>1. Len(now[b]) = at[b] + 1 /\ Len(now[b]) <= MaxSeq /\ at[b] \in Nat /\ 0 \in 0 .. batch - 1
        /\ Len(now[0]) = at[0] + 1
    BY <1>1, <1>3
  <2>2. CASE chain.attend \in UpToPosition
    <3>1. SeqKv(L, c, b) = at[0] + 1
      BY <1>10, <1>11, <1>12, <2>2 DEF SeqKv
    <3> QED BY <1>6, <1>13, <2>1, <2>2, <3>1
  <2>3. CASE chain.attend \in UpToEach
    <3>1. SeqKv(L, c, b) = Least(MaxSeq, at[b] + 1)
      BY <1>5, <1>7, <1>10, <1>11, <1>12, <1>13, <2>3 DEF SeqKv
    <3> QED BY <1>2, <2>1, <3>1 DEF Least
  <2>4. CASE chain.attend \notin UpToPosition /\ chain.attend \notin UpToEach
    <3>1. SeqKv(L, c, b) = n
      BY <1>10, <1>11, <1>12, <2>4 DEF SeqKv
    <3> QED BY <1>6, <1>7, <2>4, <3>1
  <2> QED BY <2>2, <2>3, <2>4
<1>15. /\ OnePosition(L, c)
       /\ \A b \in 0 .. batch - 1 : Padding(L, c, b, 0) = {}
  <2>1. ASSUME NEW b \in 0 .. batch - 1, L.bound = "first"
        PROVE  c.pos[b] = c.pos[0] /\ c.pos[b] < L.stride
    <3>1. 0 \in 0 .. batch - 1 /\ Len(now[b]) = at[b] + 1 /\ Len(now[0]) = at[0] + 1 /\ Len(now[b]) <= MaxSeq
          /\ at[b] \in Nat /\ at[0] \in Nat
      BY <1>1, <1>3
    <3>2. chain.attend \in UpToPosition /\ ~chain.paged
      BY <1>11, <2>1
    <3>3. Len(now[b]) = Len(now[0])
      BY <1>6, <1>13, <3>1, <3>2
    <3> QED BY <1>2, <1>10, <1>11, <3>1, <3>2, <3>3, SMTT(30)
  <2>2. OnePosition(L, c)
    BY <1>10, <2>1 DEF OnePosition, Batches
  <2>3. ASSUME NEW b \in 0 .. batch - 1
        PROVE  Padding(L, c, b, 0) = {}
    <3>1. CASE L.masks
      BY <3>1 DEF Padding
    <3>2. CASE ~L.masks
      <4>1. chain.paged /\ L.bc = Tile
        BY <1>11, <3>2
      <4>2. ~chain.perSequence
        BY <1>7, <4>1 DEF Coupled, UpToEach, OverPages
      <4>3. PICK own \in Nat : own = SeqKv(L, c, b) /\ own = Len(now[0])
        BY <1>3, <1>6, <1>14, <4>2
      <4>4. own % Tile = 0
        BY <4>1, <4>3
      <4>5. OwnKv(L, c, b) = own
        <5>1. b \in Batches(c)
          BY <1>10, <2>3 DEF Batches
        <5>2. OwnKv(L, c, b) = SeqKv(L, c, b)
          BY <1>8, <1>9, <2>2, <5>1, OwnAre
        <5> QED BY <4>3, <5>2
      <4>6. PICK bc \in Nat \ {0} : bc = Tile /\ bc = L.bc
        BY <1>9, <4>1 DEF Shaped, Typed
      <4>7. ASSUME NEW key \in Padding(L, c, b, 0) PROVE FALSE
        <5>1. PICK m \in Nat : m = CeilDiv(own, bc) * bc
          <6>1. PICK tiles \in Nat : tiles = CeilDiv(own, bc)
            BY CeilDivNat
          <6>2. tiles * bc \in Nat
            OBVIOUS
          <6> QED BY <6>1, <6>2
        <5>2. key \in own .. m - 1
          BY <4>5, <4>6, <4>7, <5>1 DEF Padding
        <5>3. key \in Nat /\ key < CeilDiv(own, bc) * bc /\ ~(key < own)
          BY <5>1, <5>2
        <5> QED BY <4>4, <4>6, <5>3, WholeTiles
      <4> QED BY <4>7
    <3> QED BY <3>1, <3>2
  <2> QED BY <2>2, <2>3
<1>16. ASSUME NEW b, NEW h, NEW i
       PROVE  IsRow(L, c, b, h, i) <=> b \in 0 .. batch - 1 /\ h \in 0 .. heads - 1 /\ i = 0
  <2>1. SeqQ(L, c, b) = 1
    BY <1>11, <1>12 DEF SeqQ
  <2> QED BY <1>10, <2>1 DEF IsRow, Batches
<1>17. ASSUME NEW b \in 0 .. batch - 1, NEW p
       PROVE  p \in ReferenceKeys(L, c, b, 0) <=> p \in Nat /\ InWindow(now, b, p)
  <2>1. OwnKv(L, c, b) = Len(now[b]) /\ OwnPosition(L, c, b) = Position(L, c, b)
    BY <1>8, <1>9, <1>10, <1>14, <1>15, OwnAre DEF Batches
  <2>2. ASSUME L.mask = "sliding"
        PROVE  OwnPosition(L, c, b) = Len(now[b]) - 1
    <3>1. 0 \in 0 .. batch - 1 /\ Len(now[b]) = at[b] + 1 /\ Len(now[0]) = at[0] + 1 /\ at[b] \in Nat
          /\ at[0] \in Nat
      BY <1>1, <1>3
    <3>2. CASE L.pos = "first"
      <4>1. OwnPosition(L, c, b) = at[b]
        BY <1>10, <3>2 DEF OwnPosition
      <4> QED BY <3>1, <4>1
    <3>3. CASE L.pos = "host"
      <4>1. OwnPosition(L, c, b) = n - 1
        BY <1>10, <3>3 DEF OwnPosition, Position
      <4>2. Len(now[b]) = n
        <5>1. L.bound # "first" /\ chain.attend \notin UpToPosition
          BY <1>11, <3>3
        <5> QED BY <1>6, <1>7, <1>11, <2>2, <5>1
      <4> QED BY <4>1, <4>2
    <3> QED BY <1>11, <2>2, <3>2, <3>3
  <2>3. p \in ReferenceKeys(L, c, b, 0) <=>
          /\ p \in 0 .. Len(now[b]) - 1
          /\ L.mask = "sliding" /\ win > 0 => OwnPosition(L, c, b) - p < win
    BY <1>10, <1>11, <2>1 DEF ReferenceKeys, MaskLeaves
  <2>4. Len(now[b]) \in Nat
    BY <1>3
  <2>5. CASE L.mask = "sliding"
    BY <1>1, <2>2, <2>3, <2>4, <2>5 DEF InWindow
  <2>6. CASE L.mask = "none"
    BY <1>1, <1>11, <2>3, <2>4, <2>6 DEF InWindow
  <2> QED BY <1>11, <2>5, <2>6
<1>18. ASSUME NEW b \in 0 .. batch - 1, NEW g \in 0 .. kv - 1, NEW p \in Nat, p < Len(now[b])
       PROVE  p < MaxSeq /\ FlatKey(L, c, b, g, p) = PlaceOf(chain, b, g, p)
  <2>1. p < MaxSeq
    BY <1>2, <1>3, <1>18
  <2>2. CASE ~chain.paged
    <3>1. FlatKey(L, c, b, g, p) = (b * kv + g) * MaxSeq + p
      BY <1>11, <2>2 DEF FlatKey
    <3>2. PlaceOf(chain, b, g, p) = (b * kv + g) * MaxSeq + p
      BY <1>1, <2>2, Zenon DEF PlaceOf
    <3> QED BY <2>1, <3>1, <3>2
  <2>3. CASE chain.paged
    <3>1. PICK q \in Nat, r \in 0 .. ps - 1 : p \div ps = q /\ p % ps = r /\ p = q * ps + r
      <4>1. \E q \in Nat, r \in 0 .. ps - 1 : p \div ps = q /\ p % ps = r /\ p = q * ps + r
        BY DividedBack
      <4> QED BY <4>1
    <3>2. q \in 0 .. MaxSeq
      <4>1. PICK e \in Nat : ps = e + 1
        <5>1. ps - 1 \in Nat /\ ps = (ps - 1) + 1
          OBVIOUS
        <5> QED BY <5>1
      <4>2. PICK f \in Nat : f = q * e
        OBVIOUS
      <4>3. q * ps = f + q
        BY <4>1, <4>2
      <4> QED BY <1>2, <2>1, <3>1, <4>3
    <3>3. c.table[b][q] = q * batch + b
      BY <1>1, <1>10, <3>2 DEF Slots, Table
    <3>4. FlatKey(L, c, b, g, p) = (c.table[b][p \div ps] * ps + (p % ps)) * kv + g
      BY <1>10, <1>11, <2>3, Zenon DEF FlatKey
    <3>5. PlaceOf(chain, b, g, p) = (((p \div ps) * batch + b) * ps + (p % ps)) * kv + g
      BY <1>1, <2>3, Zenon DEF PlaceOf
    <3>6. p \div ps = q
      BY <3>1
    <3>7. c.table[b][p \div ps] = (p \div ps) * batch + b
      BY <3>3, <3>6, Zenon
    <3> QED BY <2>1, <3>4, <3>5, <3>7, Zenon
  <2> QED BY <2>1, <2>2, <2>3
<1>19. ASSUME NEW h \in 0 .. heads - 1
       PROVE  OwnHead(L, c, h) = h \div (heads \div kv) /\ OwnHead(L, c, h) \in 0 .. kv - 1
  <2>1. KvHead(L, c, h) = OwnHead(L, c, h) /\ OwnHead(L, c, h) \in 0 .. L.kv_heads - 1
    BY <1>8, <1>9, <1>10, HeadOf
  <2>2. KvHead(L, c, h) = h \div (heads \div kv)
    BY <1>10, <1>11 DEF KvHead
  <2> QED BY <1>11, <2>1, <2>2
<1> QED BY <1>1, <1>8, <1>9, <1>15, <1>16, <1>17, <1>18, <1>19 DEF Comes

\* What an attention reads, when the caches hold the tokens, is what is due.
ReadBy(L, c, ca) ==
  UNION {{<<s.row, k[1], ca["K"][k[2]], ca["V"][k[2]]>> : k \in s.keys} : s \in Stores(L, c, 0)}

DueReads(x, owed) ==
  {LET g == d[2] \div (x.heads \div x.kv_heads)
   IN  <<<<d[1], d[2], 0>>, d[3], <<d[1], g, d[4]>>, <<d[1], g, d[4]>>>> : d \in owed}

LEMMA DueIs ==
  ASSUME Coupled(chain), NEW now, Seen(chain, now), NEW d
  PROVE  d \in DueOf(chain, now) <=>
           \E b \in 0 .. chain.batch - 1, h \in 0 .. chain.heads - 1 : \E p \in Nat :
             InWindow(now, b, p) /\ d = <<b, h, p, now[b][p + 1]>>
<1>1. MaxSeq \in Nat \ {0}
  BY SessionOK
<1>2. ASSUME NEW b \in 0 .. chain.batch - 1, NEW p \in Nat, p < Len(now[b])
      PROVE  p \in 0 .. MaxSeq - 1
  <2>1. now[b] \in Seq(Nat) /\ Len(now[b]) <= MaxSeq
    BY DEF Seen
  <2> QED BY <1>1, <1>2, <2>1
<1>3. ASSUME d \in DueOf(chain, now)
      PROVE  \E b \in 0 .. chain.batch - 1, h \in 0 .. chain.heads - 1 : \E p \in Nat :
               InWindow(now, b, p) /\ d = <<b, h, p, now[b][p + 1]>>
  <2>1. PICK y \in (0 .. chain.batch - 1) \X (0 .. chain.heads - 1) \X (0 .. MaxSeq - 1) :
          /\ d = <<y[1], y[2], y[3], now[y[1]][y[3] + 1]>>
          /\ y[3] < Len(now[y[1]]) /\ (chain.window > 0 => y[3] + chain.window >= Len(now[y[1]]))
    BY <1>3 DEF DueOf
  <2>2. y[1] \in 0 .. chain.batch - 1 /\ y[2] \in 0 .. chain.heads - 1 /\ y[3] \in Nat
    BY <1>1
  <2>3. InWindow(now, y[1], y[3])
    BY <2>1 DEF InWindow
  <2> QED BY <2>1, <2>2, <2>3
<1>4. ASSUME NEW b \in 0 .. chain.batch - 1, NEW h \in 0 .. chain.heads - 1, NEW p \in Nat,
             InWindow(now, b, p), d = <<b, h, p, now[b][p + 1]>>
      PROVE  d \in DueOf(chain, now)
  <2>1. p \in 0 .. MaxSeq - 1
    BY <1>2, <1>4 DEF InWindow
  <2>2. PICK y : y = <<b, h, p>>
    OBVIOUS
  <2>3. y \in (0 .. chain.batch - 1) \X (0 .. chain.heads - 1) \X (0 .. MaxSeq - 1)
        /\ y[1] = b /\ y[2] = h /\ y[3] = p
    BY <2>1, <2>2
  <2>4. y[3] < Len(now[y[1]]) /\ (chain.window > 0 => y[3] + chain.window >= Len(now[y[1]]))
    BY <1>4, <2>3 DEF InWindow
  <2>5. d = <<y[1], y[2], y[3], now[y[1]][y[3] + 1]>>
    BY <1>4, <2>3
  <2> QED BY <2>3, <2>4, <2>5 DEF DueOf
<1> QED BY <1>3, <1>4

LEMMA AttendRead ==
  ASSUME Coupled(chain), NEW now, Seen(chain, now), NEW at \in [0 .. chain.batch - 1 -> Nat],
         \A b \in 0 .. chain.batch - 1 : Len(now[b]) = at[b] + 1,
         chain.paged => Len(now[0]) % Tile = 0,
         NEW ca, \A t \in {"K", "V"}, b \in 0 .. chain.batch - 1 : \A p \in 0 .. Len(now[b]) - 1 :
                   Held(chain, ca, t, b, p, now[b][p + 1]),
         NEW c, c = AttendCall(AttendLength(now), at), NEW L, L = Chosen(c)
  PROVE  ReadBy(L, c, ca) = DueReads(chain, DueOf(chain, now))
<1>1. /\ Callable(c) /\ Shaped(L, c) /\ OnePosition(L, c) /\ LaunchOf(L)
      /\ \A b \in 0 .. chain.batch - 1 : Padding(L, c, b, 0) = {}
      /\ \A b, h, i : IsRow(L, c, b, h, i) <=> b \in 0 .. chain.batch - 1 /\ h \in 0 .. chain.heads - 1 /\ i = 0
      /\ \A b \in 0 .. chain.batch - 1 : \A p : p \in ReferenceKeys(L, c, b, 0) <=> p \in Nat /\ InWindow(now, b, p)
      /\ \A b \in 0 .. chain.batch - 1, g \in 0 .. chain.kv_heads - 1 : \A p \in Nat :
           p < Len(now[b]) => p < MaxSeq /\ FlatKey(L, c, b, g, p) = PlaceOf(chain, b, g, p)
      /\ \A h \in 0 .. chain.heads - 1 :
           /\ OwnHead(L, c, h) = h \div (chain.heads \div chain.kv_heads)
           /\ OwnHead(L, c, h) \in 0 .. chain.kv_heads - 1
  <2>1. Comes(L, c, now)
    BY AttendFacts
  <2> QED BY <2>1 DEF Comes
<1> DEFINE Read(b, h, p) ==
             LET g == h \div (chain.heads \div chain.kv_heads)
             IN  <<<<b, h, 0>>, p, <<b, g, now[b][p + 1]>>, <<b, g, now[b][p + 1]>>>>
<1>2. ASSUME NEW b \in 0 .. chain.batch - 1, NEW h \in 0 .. chain.heads - 1, NEW p \in Nat,
             InWindow(now, b, p), NEW r, r = FlatKey(L, c, b, OwnHead(L, c, h), p)
      PROVE  <<<<b, h, 0>>, p, ca["K"][r], ca["V"][r]>> = Read(b, h, p)
  <2>1. p \in 0 .. Len(now[b]) - 1 /\ p < Len(now[b])
    <3>1. now[b] \in Seq(Nat)
      BY DEF Seen
    <3> QED BY <1>2, <3>1 DEF InWindow
  <2>2. PICK g \in 0 .. chain.kv_heads - 1 :
          g = h \div (chain.heads \div chain.kv_heads) /\ g = OwnHead(L, c, h)
    BY <1>1
  <2>3. r = PlaceOf(chain, b, g, p)
    BY <1>1, <1>2, <2>1, <2>2
  <2>4. ca["K"][r] = <<b, g, now[b][p + 1]>> /\ ca["V"][r] = <<b, g, now[b][p + 1]>>
    BY <2>1, <2>3 DEF Held
  <2> QED BY <2>2, <2>4
<1> HIDE DEF Read
<1>3. ASSUME NEW b \in 0 .. chain.batch - 1, NEW h \in 0 .. chain.heads - 1, NEW s,
             s = StoredRow(L, c, b, h, 0, 0)
      PROVE  /\ s.row = <<b, h, 0>>
             /\ \A k \in s.keys : k[1] \in Nat /\ InWindow(now, b, k[1])
                                  /\ k[2] = FlatKey(L, c, b, OwnHead(L, c, h), k[1])
             /\ \A p \in Nat : InWindow(now, b, p) =>
                  \E k \in s.keys : k[1] = p /\ k[2] = FlatKey(L, c, b, OwnHead(L, c, h), p)
  <2>1. s.row = <<b, h, 0>> /\ s.keys = Attended(L, c, b, h, 0 \div L.br, 0, 0)
    BY <1>3 DEF StoredRow
  <2>2. AllKeys(L, c, b, h, 0) = s.keys
    <3>1. SplitsOf(L) = {0}
      BY <1>1 DEF SplitsOf, LaunchOf
    <3> QED BY <2>1, <3>1 DEF AllKeys
  <2>3. IsRow(L, c, b, h, 0)
    BY <1>1
  <2>4. /\ {k[1] : k \in s.keys} = ReferenceKeys(L, c, b, 0)
        /\ \A k \in s.keys : k[1] \in ReferenceKeys(L, c, b, 0) =>
             k[2] = FlatKey(L, c, b, OwnHead(L, c, h), k[1])
    <3>1. Padding(L, c, b, 0) = {}
      BY <1>1
    <3>2. /\ {k[1] : k \in s.keys} = ReferenceKeys(L, c, b, 0) \cup Padding(L, c, b, 0)
          /\ \A k \in s.keys : k[1] \in ReferenceKeys(L, c, b, 0) =>
               k[2] = FlatKey(L, c, b, OwnHead(L, c, h), k[1])
      <4>1. Callable(c) /\ Shaped(L, c) /\ OnePosition(L, c)
        BY <1>1
      <4>2. /\ {k[1] : k \in AllKeys(L, c, b, h, 0)} = ReferenceKeys(L, c, b, 0) \cup Padding(L, c, b, 0)
            /\ \A k \in AllKeys(L, c, b, h, 0) : k[1] \in ReferenceKeys(L, c, b, 0) =>
                 k[2] = FlatKey(L, c, b, OwnHead(L, c, h), k[1])
        <5>1. RowWhole(L, c, b, h, 0)
          BY <2>3, <4>1, RowKeys
        <5> QED BY <5>1 DEF RowWhole
      <4> QED BY <2>2, <4>2
    <3> QED BY <3>1, <3>2
  <2>5. ASSUME NEW k \in s.keys
        PROVE  k[1] \in Nat /\ InWindow(now, b, k[1]) /\ k[2] = FlatKey(L, c, b, OwnHead(L, c, h), k[1])
    <3>1. k[1] \in ReferenceKeys(L, c, b, 0)
      BY <2>4
    <3> QED BY <1>1, <2>4, <3>1
  <2>6. ASSUME NEW p \in Nat, InWindow(now, b, p)
        PROVE  \E k \in s.keys : k[1] = p /\ k[2] = FlatKey(L, c, b, OwnHead(L, c, h), p)
    <3>1. p \in ReferenceKeys(L, c, b, 0)
      BY <1>1, <2>6
    <3>2. PICK k \in s.keys : k[1] = p
      BY <2>4, <3>1
    <3> QED BY <2>4, <3>1, <3>2
  <2> QED BY <2>1, <2>5, <2>6
<1>4. ASSUME NEW s
      PROVE  s \in Stores(L, c, 0) <=>
               \E b \in 0 .. chain.batch - 1, h \in 0 .. chain.heads - 1 : s = StoredRow(L, c, b, h, 0, 0)
  <2>1. s \in Stores(L, c, 0) <=> \E b, h, i : IsRow(L, c, b, h, i) /\ s = StoredRow(L, c, b, h, i, 0)
    BY <1>1, StoresAre
  <2> QED BY <1>1, <2>1
<1>5. ASSUME NEW z \in ReadBy(L, c, ca)
      PROVE  z \in DueReads(chain, DueOf(chain, now))
  <2>1. PICK s \in Stores(L, c, 0) : \E k \in s.keys : z = <<s.row, k[1], ca["K"][k[2]], ca["V"][k[2]]>>
    BY <1>5 DEF ReadBy
  <2>2. PICK k \in s.keys : z = <<s.row, k[1], ca["K"][k[2]], ca["V"][k[2]]>>
    BY <2>1
  <2>3. PICK b \in 0 .. chain.batch - 1, h \in 0 .. chain.heads - 1 : s = StoredRow(L, c, b, h, 0, 0)
    BY <1>4
  <2>4. /\ s.row = <<b, h, 0>> /\ k[1] \in Nat /\ InWindow(now, b, k[1])
        /\ k[2] = FlatKey(L, c, b, OwnHead(L, c, h), k[1])
    BY <1>3, <2>3
  <2>5. z = Read(b, h, k[1])
    <3>1. <<<<b, h, 0>>, k[1], ca["K"][k[2]], ca["V"][k[2]]>> = Read(b, h, k[1])
      BY <1>2, <2>4
    <3> QED BY <2>2, <2>4, <3>1
  <2>6. PICK d : d = <<b, h, k[1], now[b][k[1] + 1]>>
    OBVIOUS
  <2>7. d \in DueOf(chain, now) /\ d[1] = b /\ d[2] = h /\ d[3] = k[1] /\ d[4] = now[b][k[1] + 1]
    BY <2>4, <2>6, DueIs
  <2> QED BY <2>5, <2>7 DEF DueReads, Read
<1>6. ASSUME NEW z \in DueReads(chain, DueOf(chain, now))
      PROVE  z \in ReadBy(L, c, ca)
  <2>1. PICK d \in DueOf(chain, now) :
          z = LET g == d[2] \div (chain.heads \div chain.kv_heads)
              IN  <<<<d[1], d[2], 0>>, d[3], <<d[1], g, d[4]>>, <<d[1], g, d[4]>>>>
    BY <1>6 DEF DueReads
  <2>2. PICK b \in 0 .. chain.batch - 1, h \in 0 .. chain.heads - 1 :
          \E p \in Nat : InWindow(now, b, p) /\ d = <<b, h, p, now[b][p + 1]>>
    BY DueIs
  <2>3. PICK p \in Nat : InWindow(now, b, p) /\ d = <<b, h, p, now[b][p + 1]>>
    BY <2>2
  <2>4. z = Read(b, h, p)
    BY <2>1, <2>3 DEF Read
  <2>5. PICK s : s = StoredRow(L, c, b, h, 0, 0)
    OBVIOUS
  <2>6. s \in Stores(L, c, 0)
    BY <1>4, <2>5
  <2>7. PICK k \in s.keys : k[1] = p /\ k[2] = FlatKey(L, c, b, OwnHead(L, c, h), p)
    BY <1>3, <2>3, <2>5
  <2>8. z = <<s.row, k[1], ca["K"][k[2]], ca["V"][k[2]]>>
    <3>1. <<<<b, h, 0>>, p, ca["K"][k[2]], ca["V"][k[2]]>> = Read(b, h, p)
      BY <1>2, <2>3, <2>7
    <3>2. s.row = <<b, h, 0>>
      BY <1>3, <2>5
    <3> QED BY <2>4, <2>7, <3>1, <3>2
  <2> QED BY <2>6, <2>8 DEF ReadBy
<1> QED BY <1>5, <1>6

-----------------------------------------------------------------------------
(* A session: the host's next token.                                       *)

LEMMA Joined ==
  ASSUME NEW S, NEW s \in Seq(S), NEW u \in Seq(S)
  PROVE  /\ s \o u \in Seq(S) /\ Len(s \o u) = Len(s) + Len(u) /\ Len(s) \in Nat /\ Len(u) \in Nat
         /\ \A i \in 1 .. Len(s) : (s \o u)[i] = s[i]
         /\ \A i \in 1 .. Len(u) : (s \o u)[Len(s) + i] = u[i]
OBVIOUS

\* Operations behind it change nothing for an operation.
LEMMA OpsLonger ==
  ASSUME NEW x, NEW S, NEW s \in Seq(S), NEW r, \A i \in 1 .. Len(s) : r[i] = s[i],
         NEW ca, NEW dp, OpsOK(x, s, ca, dp), NEW j \in 1 .. Len(s)
  PROVE  /\ r[j].op = "append" => AppendOK(x, r, dp, j)
         /\ r[j].op = "attend" => AttendOK(x, r, ca, dp, j)
<1>1. j \in Nat /\ r[j] = s[j] /\ \A i \in 1 .. j - 1 : s[i] = r[i]
  OBVIOUS
<1>2. ASSUME r[j].op = "append"
      PROVE  AppendOK(x, r, dp, j)
  <2>1. AppendOK(x, s, dp, j)
    BY <1>1, <1>2 DEF OpsOK
  <2>2. PICK at : PosIs(s, dp, j, at) /\ at[s[j].b] = s[j].at
    BY <2>1 DEF AppendOK
  <2>3. PosIs(r, dp, j, at)
    BY <1>1, <2>2, PosSame
  <2> QED BY <1>1, <2>1, <2>2, <2>3 DEF AppendOK
<1>3. ASSUME r[j].op = "attend"
      PROVE  AttendOK(x, r, ca, dp, j)
  <2>1. AttendOK(x, s, ca, dp, j)
    BY <1>1, <1>3 DEF OpsOK
  <2>2. PICK now, at :
          /\ Seen(x, now) /\ Agreed(x, s, ca, j, now)
          /\ at \in [0 .. x.batch - 1 -> Nat] /\ PosIs(s, dp, j, at)
          /\ \A b \in 0 .. x.batch - 1 : Len(now[b]) = at[b] + 1
          /\ s[j].length = Len(now[0]) /\ s[j].due = DueOf(x, now)
    BY <2>1 DEF AttendOK
  <2>3. PosIs(r, dp, j, at)
    BY <1>1, <2>2, PosSame
  <2>4. Agreed(x, r, ca, j, now)
    BY <1>1, <2>2, WillSame DEF Agreed
  <2> QED BY <1>1, <2>1, <2>2, <2>3, <2>4 DEF AttendOK
<1> QED BY <1>2, <1>3

AppendsOf(at, token) ==
  [n \in 1 .. chain.batch * Len(Tensors) |->
     LET b == (n - 1) \div Len(Tensors)
     IN  [op |-> "append", b |-> b, at |-> at[b], token |-> token,
          tensor |-> Tensors[((n - 1) % Len(Tensors)) + 1]]]

\* Each tensor of each sequence is appended to once.
AppendedOnce(u, t, b) ==
  \E n \in 1 .. Len(u) :
    /\ u[n].b = b /\ (Multi(chain) => u[n].tensor = t)
    /\ \A m \in 1 .. Len(u) : u[m].b = b /\ (Multi(chain) => u[m].tensor = t) => m = n

AppendsAll(u, at, token) ==
  /\ u \in Seq(Ops(chain))
  /\ \A n \in 1 .. Len(u) : u[n].op = "append" /\ u[n].b \in 0 .. chain.batch - 1
                            /\ u[n].at = at[u[n].b] /\ u[n].token = token
  /\ \A t \in {"K", "V"}, b \in 0 .. chain.batch - 1 : AppendedOnce(u, t, b)

LEMMA AppendsAre ==
  ASSUME Coupled(chain), NEW at \in [0 .. chain.batch - 1 -> Nat], NEW token \in Nat
  PROVE  AppendsAll(AppendsOf(at, token), at, token)
<1>1. PICK batch \in Nat \ {0} : batch = chain.batch
  BY DEF Coupled
<1>2. PICK k \in {1, 2} : /\ k = Len(Tensors) /\ (Multi(chain) <=> k = 2)
                          /\ \A r \in 0 .. k - 1 : Tensors[r + 1] \in {"K", "V"}
                          /\ k = 2 => Tensors[1] = "K" /\ Tensors[2] = "V"
  <2>1. CASE Multi(chain)
    <3>1. Tensors = <<"K", "V">>
      BY <2>1 DEF Tensors, Multi
    <3>2. Len(Tensors) = 2 /\ Tensors[1] = "K" /\ Tensors[2] = "V"
      BY <3>1
    <3>3. \A r \in 0 .. 1 : r = 0 \/ r = 1
      OBVIOUS
    <3> QED BY <2>1, <3>2, <3>3
  <2>2. CASE ~Multi(chain)
    <3>1. Tensors = <<"K">>
      BY <2>2 DEF Tensors, Multi
    <3>2. Len(Tensors) = 1 /\ Tensors[1] = "K"
      BY <3>1
    <3> QED BY <2>2, <3>2
  <2> QED BY <2>1, <2>2
<1>3. PICK all \in Nat : all = batch * k
  <2>1. batch * k \in Nat
    BY <1>2
  <2> QED BY <2>1
<1>4. PICK u : u = AppendsOf(at, token)
  OBVIOUS
<1>5. ASSUME NEW n \in 1 .. all
      PROVE  \E b \in 0 .. batch - 1, r \in 0 .. k - 1 :
               /\ n = b * k + r + 1
               /\ u[n] = [op |-> "append", b |-> b, at |-> at[b], token |-> token, tensor |-> Tensors[r + 1]]
  <2>1. PICK b \in Nat, r \in 0 .. k - 1 : (n - 1) \div k = b /\ (n - 1) % k = r /\ n - 1 = b * k + r
    <3>1. k \in Nat \ {0} /\ n - 1 \in Nat
      BY <1>2
    <3>2. \E q \in Nat, r \in 0 .. k - 1 : (n - 1) \div k = q /\ (n - 1) % k = r /\ n - 1 = q * k + r
      BY <3>1, DividedBack
    <3> QED BY <3>2
  <2>2. b \in 0 .. batch - 1
    <3>1. CASE k = 1
      BY <1>3, <2>1, <3>1
    <3>2. CASE k = 2
      BY <1>3, <2>1, <3>2
    <3> QED BY <1>2, <3>1, <3>2
  <2>3. n = b * k + r + 1
    <3>1. PICK m \in Nat : m = b * k
      BY <1>2
    <3> QED BY <2>1, <3>1
  <2>4. u[n] = [op |-> "append", b |-> (n - 1) \div k, at |-> at[(n - 1) \div k], token |-> token,
                tensor |-> Tensors[((n - 1) % k) + 1]]
    BY <1>1, <1>2, <1>3, <1>4, Zenon DEF AppendsOf
  <2>5. (n - 1) \div k = b /\ (n - 1) % k = r
    BY <2>1
  <2>6. u[n] = [op |-> "append", b |-> b, at |-> at[b], token |-> token, tensor |-> Tensors[r + 1]]
    BY <2>4, <2>5, Zenon
  <2> QED BY <2>2, <2>3, <2>6
<1>6. ASSUME NEW n \in 1 .. all
      PROVE  /\ u[n] \in Ops(chain) /\ u[n].op = "append" /\ u[n].b \in 0 .. batch - 1
             /\ u[n].at = at[u[n].b] /\ u[n].token = token
  <2>1. PICK b \in 0 .. batch - 1, r \in 0 .. k - 1 :
          u[n] = [op |-> "append", b |-> b, at |-> at[b], token |-> token, tensor |-> Tensors[r + 1]]
    BY <1>5
  <2>2. at[b] \in Nat /\ Tensors[r + 1] \in {"K", "V"}
    BY <1>1, <1>2
  <2>3. u[n] \in Ops(chain)
    BY <1>1, <2>1, <2>2 DEF Ops
  <2> QED BY <2>1, <2>3
<1>7. u \in Seq(Ops(chain)) /\ Len(u) = all
  <2>1. u = [n \in 1 .. all |-> u[n]]
    BY <1>1, <1>2, <1>3, <1>4 DEF AppendsOf
  <2>2. u \in [1 .. all -> Ops(chain)]
    BY <1>6, <2>1
  <2> QED BY <2>2
<1>8. ASSUME NEW t \in {"K", "V"}, NEW b \in 0 .. batch - 1
      PROVE  \E n \in 1 .. all :
               /\ u[n].b = b /\ (Multi(chain) => u[n].tensor = t)
               /\ \A m \in 1 .. all : u[m].b = b /\ (Multi(chain) => u[m].tensor = t) => m = n
  <2>1. PICK r \in 0 .. k - 1 : k = 2 => Tensors[r + 1] = t
    <3>1. CASE t = "K" \/ k = 1
      <4>1. 0 \in 0 .. k - 1 /\ (k = 2 => Tensors[0 + 1] = t)
        BY <1>2, <3>1
      <4> QED BY <4>1
    <3>2. CASE t = "V" /\ k = 2
      <4>1. 1 \in 0 .. k - 1 /\ Tensors[1 + 1] = t
        BY <1>2, <3>2
      <4> QED BY <4>1
    <3> QED BY <1>2, <3>1, <3>2
  <2>2. PICK n \in 1 .. all : n = b * k + r + 1
    <3>1. b * k + r + 1 \in 1 .. all
      <4>1. CASE k = 1
        BY <1>3, <4>1
      <4>2. CASE k = 2
        BY <1>3, <4>2
      <4> QED BY <1>2, <4>1, <4>2
    <3> QED BY <3>1
  <2>3. ASSUME NEW m \in 1 .. all, u[m].b = b, Multi(chain) => u[m].tensor = t
        PROVE  m = n
    <3>1. PICK bm \in 0 .. batch - 1, rm \in 0 .. k - 1 :
            /\ m = bm * k + rm + 1
            /\ u[m] = [op |-> "append", b |-> bm, at |-> at[bm], token |-> token, tensor |-> Tensors[rm + 1]]
      BY <1>5
    <3>2. bm = b /\ (k = 2 => Tensors[rm + 1] = t)
      BY <1>2, <2>3, <3>1
    <3>3. rm = r
      <4>1. CASE k = 1
        BY <4>1
      <4>2. CASE k = 2
        <5>1. r \in {0, 1} /\ rm \in {0, 1} /\ Tensors[0 + 1] = "K" /\ Tensors[1 + 1] = "V"
          BY <1>2, <4>2
        <5>2. Tensors[rm + 1] = Tensors[r + 1]
          BY <2>1, <3>2, <4>2
        <5> QED BY <5>1, <5>2
      <4> QED BY <1>2, <4>1, <4>2
    <3> QED BY <2>2, <3>1, <3>2, <3>3
  <2>4. u[n].b = b /\ (Multi(chain) => u[n].tensor = t)
    <3>1. PICK bn \in 0 .. batch - 1, rn \in 0 .. k - 1 :
            /\ n = bn * k + rn + 1
            /\ u[n] = [op |-> "append", b |-> bn, at |-> at[bn], token |-> token, tensor |-> Tensors[rn + 1]]
      BY <1>5
    <3>2. k \in Nat /\ b * k + r = bn * k + rn
      <4>1. CASE k = 1
        BY <2>2, <3>1, <4>1
      <4>2. CASE k = 2
        BY <2>2, <3>1, <4>2
      <4> QED BY <1>2, <4>1, <4>2
    <3>3. b = bn /\ r = rn
      BY <3>2, RowOnce
    <3> QED BY <1>2, <2>1, <3>1, <3>3
  <2> QED BY <2>3, <2>4
<1> QED BY <1>1, <1>4, <1>6, <1>7, <1>8 DEF AppendsAll, AppendedOnce

\* The stream r is s, a copy of the positions at, and then u.
Longer(r, s, at, u) ==
  /\ r \in Seq(Ops(chain)) /\ Len(r) = Len(s) + 1 + Len(u)
  /\ r[Len(s) + 1] = [op |-> "positions", at |-> at]
  /\ \A i \in 1 .. Len(s) : r[i] = s[i]
  /\ \A i \in 1 .. Len(u) : r[Len(s) + 1 + i] = u[i]

LEMMA LongerIs ==
  ASSUME NEW s \in Seq(Ops(chain)), NEW at \in [0 .. chain.batch - 1 -> Nat], NEW u \in Seq(Ops(chain))
  PROVE  Longer(s \o <<[op |-> "positions", at |-> at]>> \o u, s, at, u)
<1>1. PICK copy : copy = [op |-> "positions", at |-> at]
  OBVIOUS
<1>2. copy \in Ops(chain)
  BY <1>1 DEF Ops
<1>3. PICK q : q = s \o <<copy>>
  OBVIOUS
<1>4. <<copy>> \in Seq(Ops(chain)) /\ Len(<<copy>>) = 1 /\ <<copy>>[1] = copy
  BY <1>2
<1>5. PICK m \in Nat, n \in Nat : m = Len(s) /\ n = Len(u)
  OBVIOUS
<1>6. /\ q \in Seq(Ops(chain)) /\ Len(q) = m + 1 /\ q[m + 1] = copy
      /\ \A i \in 1 .. m : q[i] = s[i]
  BY <1>3, <1>4, <1>5, Joined
<1>7. PICK r : r = q \o u
  OBVIOUS
<1>8. /\ r \in Seq(Ops(chain)) /\ Len(r) = Len(q) + n
      /\ \A i \in 1 .. Len(q) : r[i] = q[i]
      /\ \A i \in 1 .. n : r[Len(q) + i] = u[i]
  <2>1. /\ r \in Seq(Ops(chain)) /\ Len(r) = Len(q) + Len(u)
        /\ \A i \in 1 .. Len(q) : r[i] = q[i]
        /\ \A i \in 1 .. Len(u) : r[Len(q) + i] = u[i]
    <3>1. q \in Seq(Ops(chain)) /\ u \in Seq(Ops(chain))
      BY <1>6
    <3>2. /\ q \o u \in Seq(Ops(chain)) /\ Len(q \o u) = Len(q) + Len(u)
          /\ \A i \in 1 .. Len(q) : (q \o u)[i] = q[i]
          /\ \A i \in 1 .. Len(u) : (q \o u)[Len(q) + i] = u[i]
      BY <3>1, Joined
    <3> QED BY <1>7, <3>2, Zenon
  <2> QED BY <1>5, <2>1
<1>9. Longer(r, s, at, u)
  BY <1>1, <1>5, <1>6, <1>8 DEF Longer
<1> QED BY <1>1, <1>3, <1>7, <1>9

\* The sequences now are those that were, each with token behind the at it had.
OneMore(was, now, at, token) ==
  /\ at \in [0 .. chain.batch - 1 -> Nat]
  /\ \A b \in 0 .. chain.batch - 1 : at[b] < MaxSeq
  /\ now \in [0 .. chain.batch - 1 -> Seq(Nat)]
  /\ \A b \in 0 .. chain.batch - 1 :
       /\ Len(was[b]) = at[b] /\ Len(now[b]) = at[b] + 1
       /\ \A i \in 1 .. at[b] : now[b][i] = was[b][i]
       /\ now[b][at[b] + 1] = token

LEMMA OneMoreIs ==
  ASSUME NEW was, Seen(chain, was), NEW token \in Nat, NEW at, NEW now,
         at = [b \in 0 .. chain.batch - 1 |-> Len(was[b])],
         now = [b \in 0 .. chain.batch - 1 |-> Append(was[b], token)],
         \A b \in 0 .. chain.batch - 1 : at[b] < MaxSeq
  PROVE  OneMore(was, now, at, token)
<1>1. was \in [0 .. chain.batch - 1 -> Seq(Nat)]
  BY DEF Seen
<1>2. at \in [0 .. chain.batch - 1 -> Nat] /\ now \in [0 .. chain.batch - 1 -> Seq(Nat)]
  BY <1>1
<1>3. ASSUME NEW b \in 0 .. chain.batch - 1
      PROVE  /\ Len(was[b]) = at[b] /\ Len(now[b]) = at[b] + 1
             /\ \A i \in 1 .. at[b] : now[b][i] = was[b][i]
             /\ now[b][at[b] + 1] = token
  <2>1. was[b] \in Seq(Nat) /\ at[b] = Len(was[b]) /\ now[b] = Append(was[b], token)
    BY <1>1
  <2> QED BY <2>1
<1> QED BY <1>2, <1>3 DEF OneMore

\* What the host puts on the stream for a token takes the sequences to where it
\* says it will have them.
LEMMA TokenPut ==
  ASSUME Coupled(chain), NEW was, Seen(chain, was), NEW at, NEW token \in Nat, NEW now,
         OneMore(was, now, at, token), Accepts(chain),
         NEW s \in Seq(Ops(chain)), NEW ca, NEW dp, OpsOK(chain, s, ca, dp),
         Agreed(chain, s, ca, Len(s) + 1, was),
         NEW u, AppendsAll(u, at, token), NEW r, Longer(r, s, at, u)
  PROVE  /\ OpsOK(chain, r, ca, dp) /\ Seen(chain, now)
         /\ Agreed(chain, r, ca, Len(r) + 1, now) /\ PosIs(r, dp, Len(r) + 1, at)
<1>1. PICK m \in Nat, n \in Nat : m = Len(s) /\ n = Len(u)
  BY DEF AppendsAll
<1>2. at \in [0 .. chain.batch - 1 -> Nat]
  BY DEF OneMore
<1>3. /\ r \in Seq(Ops(chain)) /\ Len(r) = m + 1 + n
      /\ r[m + 1].op = "positions" /\ r[m + 1].at = at
      /\ \A i \in 1 .. m : r[i] = s[i]
      /\ \A i \in 1 .. n : r[m + 1 + i] = u[i]
  BY <1>1 DEF Longer
<1>4. \A i \in 1 .. m + 1 + n : i \in 1 .. m \/ i = m + 1 \/ \E k \in 1 .. n : i = m + 1 + k
  <2> SUFFICES ASSUME NEW i \in 1 .. m + 1 + n, i \notin 1 .. m, i # m + 1
               PROVE  \E k \in 1 .. n : i = m + 1 + k
    OBVIOUS
  <2>1. i - m - 1 \in 1 .. n /\ i = m + 1 + (i - m - 1)
    OBVIOUS
  <2> QED BY <2>1
<1>5. /\ \A i \in 1 .. n : u[i].op = "append" /\ u[i].b \in 0 .. chain.batch - 1
                           /\ u[i].at = at[u[i].b] /\ u[i].token = token
  BY <1>1 DEF AppendsAll
<1>6. ASSUME NEW j \in m + 2 .. m + n + 2
      PROVE  PosIs(r, dp, j, at)
  <2>1. m + 1 \in 1 .. j - 1
    OBVIOUS
  <2>2. \A i \in m + 2 .. j - 1 : r[i].op # "positions"
    <3> SUFFICES ASSUME NEW i \in m + 2 .. j - 1
                 PROVE  r[i].op # "positions"
      OBVIOUS
    <3>1. PICK k \in 1 .. n : i = m + 1 + k
      BY <1>4
    <3> QED BY <1>3, <1>5, <3>1
  <2>3. (m + 1) + 1 = m + 2
    OBVIOUS
  <2> QED BY <1>3, <2>1, <2>2, <2>3 DEF PosIs
<1>7. OpsOK(chain, r, ca, dp)
  <2> SUFFICES ASSUME NEW j \in 1 .. m + 1 + n
               PROVE  /\ r[j].op = "append" => AppendOK(chain, r, dp, j)
                      /\ r[j].op = "attend" => AttendOK(chain, r, ca, dp, j)
    BY <1>3 DEF OpsOK
  <2>1. CASE j \in 1 .. m
    BY <1>1, <1>3, <2>1, OpsLonger
  <2>2. CASE j = m + 1
    BY <1>3, <2>2
  <2>3. CASE \E k \in 1 .. n : j = m + 1 + k
    <3>1. PICK k \in 1 .. n : j = m + 1 + k
      BY <2>3
    <3>2. r[j] = u[k] /\ j \in m + 2 .. m + n + 2
      BY <1>3, <3>1
    <3>3. r[j].op = "append" /\ r[j].at < MaxSeq /\ at[r[j].b] = r[j].at
      <4>1. /\ u[k].op = "append" /\ u[k].b \in 0 .. chain.batch - 1 /\ u[k].at = at[u[k].b]
        BY <1>5
      <4>2. at[u[k].b] < MaxSeq
        BY <4>1 DEF OneMore
      <4> QED BY <3>2, <4>1, <4>2
    <3>4. PosIs(r, dp, j, at)
      BY <1>6, <3>2
    <3> QED BY <3>3, <3>4 DEF AppendOK
  <2> QED BY <1>4, <2>1, <2>2, <2>3
<1>8. ASSUME NEW b \in 0 .. chain.batch - 1
       PROVE  /\ Len(was[b]) = at[b] /\ Len(now[b]) = at[b] + 1 /\ at[b] \in Nat /\ at[b] < MaxSeq
              /\ \A i \in 1 .. at[b] : now[b][i] = was[b][i]
              /\ now[b][at[b] + 1] = token
  BY DEF OneMore
<1>9. Seen(chain, now)
  <2>1. now \in [0 .. chain.batch - 1 -> Seq(Nat)]
    BY DEF OneMore
  <2>2. \A b \in 0 .. chain.batch - 1 : Len(now[b]) <= MaxSeq
    BY <1>8, SessionOK
  <2>3. ASSUME ~chain.perSequence, NEW b \in 0 .. chain.batch - 1
        PROVE  Len(now[b]) = Len(now[0])
    <3>1. 0 \in 0 .. chain.batch - 1
      BY DEF Coupled
    <3>2. Len(was[b]) = Len(was[0])
      BY <2>3 DEF Seen
    <3> QED BY <1>8, <3>1, <3>2
  <2> QED BY <2>1, <2>2, <2>3 DEF Seen
<1>10. Agreed(chain, r, ca, m + n + 2, now)
  <2> SUFFICES ASSUME NEW t \in {"K", "V"}, NEW b \in 0 .. chain.batch - 1, NEW p \in 0 .. Len(now[b]) - 1
               PROVE  Will(chain, r, ca, m + n + 2, t, b, p, now[b][p + 1])
    BY DEF Agreed
  <2>1. ASSUME NEW i \in 1 .. n
        PROVE  Writes(chain, r[m + 1 + i], t, b, p) <=>
                 u[i].b = b /\ at[b] = p /\ (Multi(chain) => u[i].tensor = t)
    <3>1. r[m + 1 + i] = u[i]
      BY <1>3
    <3>2. u[i].op = "append" /\ u[i].at = at[u[i].b]
      BY <1>5
    <3>3. Writes(chain, u[i], t, b, p) <=> u[i].b = b /\ at[b] = p /\ (Multi(chain) => u[i].tensor = t)
      BY <3>2, Zenon DEF Writes
    <3> QED BY <3>1, <3>3, Zenon
  <2>2. ~Writes(chain, r[m + 1], t, b, p)
    BY <1>3 DEF Writes
  <2>3. CASE p = at[b]
    <3>1. PICK k \in 1 .. n : /\ u[k].b = b /\ (Multi(chain) => u[k].tensor = t)
                              /\ \A l \in 1 .. n : u[l].b = b /\ (Multi(chain) => u[l].tensor = t) => l = k
      <4>1. AppendedOnce(u, t, b)
        BY DEF AppendsAll
      <4> QED BY <1>1, <4>1 DEF AppendedOnce
    <3>2. m + 1 + k \in 1 .. (m + n + 2) - 1 /\ Writes(chain, r[m + 1 + k], t, b, p)
          /\ r[m + 1 + k].token = now[b][p + 1]
      <4>1. m + 1 + k \in 1 .. (m + n + 2) - 1
        OBVIOUS
      <4>2. Writes(chain, r[m + 1 + k], t, b, p)
        BY <2>1, <2>3, <3>1
      <4>3. r[m + 1 + k].token = token
        BY <1>3, <1>5
      <4>4. now[b][p + 1] = token
        BY <1>8, <2>3
      <4> QED BY <4>1, <4>2, <4>3, <4>4
    <3>3. ASSUME NEW i \in (m + 1 + k) + 1 .. (m + n + 2) - 1
          PROVE  ~Writes(chain, r[i], t, b, p)
      <4>1. PICK l \in 1 .. n : i = m + 1 + l
        BY <1>4
      <4>2. l # k
        BY <4>1
      <4> QED BY <2>1, <3>1, <4>1, <4>2
    <3> QED BY <3>2, <3>3 DEF Will
  <2>4. CASE p # at[b]
    <3>1. p \in 0 .. Len(was[b]) - 1 /\ now[b][p + 1] = was[b][p + 1]
      <4>1. p \in 0 .. at[b] - 1 /\ p + 1 \in 1 .. at[b]
        BY <1>8, <2>4
      <4> QED BY <1>8, <4>1
    <3>2. Will(chain, s, ca, m + 1, t, b, p, now[b][p + 1])
      BY <1>1, <3>1 DEF Agreed
    <3>3. \A i \in m + 1 .. (m + n + 2) - 1 : ~Writes(chain, r[i], t, b, p)
      <4> SUFFICES ASSUME NEW i \in m + 1 .. (m + n + 2) - 1
                   PROVE  ~Writes(chain, r[i], t, b, p)
        OBVIOUS
      <4>1. i = m + 1 \/ \E k \in 1 .. n : i = m + 1 + k
        BY <1>4
      <4> QED BY <2>1, <2>2, <2>4, <4>1
    <3>4. ASSUME NEW i \in 1 .. m, Writes(chain, s[i], t, b, p), s[i].token = now[b][p + 1],
                 \A l \in i + 1 .. m : ~Writes(chain, s[l], t, b, p)
          PROVE  Will(chain, r, ca, m + n + 2, t, b, p, now[b][p + 1])
      <4>1. i \in 1 .. (m + n + 2) - 1 /\ Writes(chain, r[i], t, b, p) /\ r[i].token = now[b][p + 1]
        <5>1. i \in 1 .. (m + n + 2) - 1 /\ r[i] = s[i]
          BY <1>3
        <5> QED BY <3>4, <5>1
      <4>2. ASSUME NEW l \in i + 1 .. (m + n + 2) - 1
            PROVE  ~Writes(chain, r[l], t, b, p)
        <5>1. CASE l \in i + 1 .. m
          BY <1>3, <3>4, <5>1
        <5>2. CASE l \in m + 1 .. (m + n + 2) - 1
          BY <3>3, <5>2
        <5> QED BY <5>1, <5>2
      <4> QED BY <4>1, <4>2 DEF Will
    <3>5. ASSUME Held(chain, ca, t, b, p, now[b][p + 1]), \A l \in 1 .. m : ~Writes(chain, s[l], t, b, p)
          PROVE  Will(chain, r, ca, m + n + 2, t, b, p, now[b][p + 1])
      <4>1. ASSUME NEW l \in 1 .. (m + n + 2) - 1
            PROVE  ~Writes(chain, r[l], t, b, p)
        <5>1. CASE l \in 1 .. m
          BY <1>3, <3>5, <5>1
        <5>2. CASE l \in m + 1 .. (m + n + 2) - 1
          BY <3>3, <5>2
        <5> QED BY <5>1, <5>2
      <4> QED BY <3>5, <4>1 DEF Will
    <3>6. (m + 1) - 1 = m
      OBVIOUS
    <3> QED BY <3>2, <3>4, <3>5, <3>6 DEF Will
  <2> QED BY <2>3, <2>4
<1>11. PosIs(r, dp, Len(r) + 1, at) /\ Agreed(chain, r, ca, Len(r) + 1, now)
  <2>1. Len(r) + 1 = m + n + 2 /\ m + n + 2 \in m + 2 .. m + n + 2
    BY <1>3
  <2> QED BY <1>6, <1>10, <2>1
<1> QED BY <1>7, <1>9, <1>11

\* The attention behind them is for those sequences.
LEMMA AttendPut ==
  ASSUME Coupled(chain), NEW now, Seen(chain, now), NEW at \in [0 .. chain.batch - 1 -> Nat],
         \A b \in 0 .. chain.batch - 1 : Len(now[b]) = at[b] + 1,
         chain.paged => Len(now[0]) % Tile = 0,
         NEW r \in Seq(Ops(chain)), NEW ca, NEW dp, OpsOK(chain, r, ca, dp),
         Agreed(chain, r, ca, Len(r) + 1, now), PosIs(r, dp, Len(r) + 1, at),
         NEW e, e = [op |-> "attend", length |-> Len(now[0]), due |-> DueOf(chain, now)]
  PROVE  /\ r \o <<e>> \in Seq(Ops(chain)) /\ OpsOK(chain, r \o <<e>>, ca, dp)
         /\ Agreed(chain, r \o <<e>>, ca, Len(r \o <<e>>) + 1, now)
<1>1. PICK m \in Nat : m = Len(r)
  OBVIOUS
<1>2. e \in Ops(chain)
  <2>1. 0 \in 0 .. chain.batch - 1
    BY DEF Coupled
  <2>2. Len(now[0]) \in Nat
    BY <2>1 DEF Seen
  <2>3. DueOf(chain, now) \in SUBSET (Nat \X Nat \X Nat \X Nat)
    <3> SUFFICES ASSUME NEW d \in DueOf(chain, now)
                 PROVE  d \in Nat \X Nat \X Nat \X Nat
      OBVIOUS
    <3>1. PICK b \in 0 .. chain.batch - 1, h \in 0 .. chain.heads - 1 :
            \E p \in Nat : InWindow(now, b, p) /\ d = <<b, h, p, now[b][p + 1]>>
      BY DueIs
    <3>2. PICK p \in Nat : InWindow(now, b, p) /\ d = <<b, h, p, now[b][p + 1]>>
      BY <3>1
    <3>3. now[b] \in Seq(Nat) /\ p + 1 \in 1 .. Len(now[b])
      <4>1. now[b] \in Seq(Nat) /\ p < Len(now[b])
        BY <3>2 DEF Seen, InWindow
      <4> QED BY <4>1
    <3>4. now[b][p + 1] \in Nat
      BY <3>3, SMTT(30)
    <3>5. b \in Nat /\ h \in Nat
      BY DEF Coupled
    <3> QED BY <3>2, <3>4, <3>5
  <2> QED BY <2>2, <2>3 DEF Ops
<1>3. PICK v : v = r \o <<e>>
  OBVIOUS
<1>4. /\ v \in Seq(Ops(chain)) /\ Len(v) = m + 1 /\ v[m + 1] = e
      /\ \A i \in 1 .. m : v[i] = r[i]
  <2>1. <<e>> \in Seq(Ops(chain)) /\ Len(<<e>>) = 1 /\ <<e>>[1] = e
    BY <1>2
  <2>2. /\ r \o <<e>> \in Seq(Ops(chain)) /\ Len(r \o <<e>>) = Len(r) + Len(<<e>>)
        /\ \A i \in 1 .. Len(r) : (r \o <<e>>)[i] = r[i]
        /\ \A i \in 1 .. Len(<<e>>) : (r \o <<e>>)[Len(r) + i] = <<e>>[i]
    BY <2>1, Joined
  <2> QED BY <1>1, <1>3, <2>1, <2>2
<1>5. /\ Agreed(chain, r, ca, m + 1, now) /\ PosIs(r, dp, m + 1, at)
      /\ m + 1 \in Nat /\ (m + 1) - 1 = m
  BY <1>1
<1>6. \A i \in 1 .. (m + 1) - 1 : r[i] = v[i]
  BY <1>4, <1>5
<1>7. Agreed(chain, v, ca, m + 1, now)
  BY <1>5, <1>6, WillSame DEF Agreed
<1>8. PosIs(v, dp, m + 1, at)
  BY <1>5, <1>6, PosSame
<1>9. OpsOK(chain, v, ca, dp)
  <2> SUFFICES ASSUME NEW j \in 1 .. m + 1
               PROVE  /\ v[j].op = "append" => AppendOK(chain, v, dp, j)
                      /\ v[j].op = "attend" => AttendOK(chain, v, ca, dp, j)
    BY <1>4 DEF OpsOK
  <2>1. CASE j \in 1 .. m
    BY <1>1, <1>4, <2>1, OpsLonger
  <2>2. CASE j = m + 1
    <3>1. v[j].op = "attend" /\ v[j].length = Len(now[0]) /\ v[j].due = DueOf(chain, now)
      BY <1>4, <2>2
    <3> QED BY <1>7, <1>8, <2>2, <3>1 DEF AttendOK
  <2> QED BY <2>1, <2>2
<1>10. Agreed(chain, v, ca, m + 2, now)
  <2> SUFFICES ASSUME NEW t \in {"K", "V"}, NEW b \in 0 .. chain.batch - 1, NEW p \in 0 .. Len(now[b]) - 1
               PROVE  Will(chain, v, ca, m + 2, t, b, p, now[b][p + 1])
    BY DEF Agreed
  <2>1. PICK token : token = now[b][p + 1]
    OBVIOUS
  <2>2. Will(chain, v, ca, m + 1, t, b, p, token)
    BY <1>7, <2>1 DEF Agreed
  <2>3. ~Writes(chain, v[m + 1], t, b, p)
    BY <1>4 DEF Writes
  <2>4. ASSUME NEW i \in 1 .. m, Writes(chain, v[i], t, b, p), v[i].token = token,
               \A l \in i + 1 .. m : ~Writes(chain, v[l], t, b, p)
        PROVE  Will(chain, v, ca, m + 2, t, b, p, token)
    <3>1. \A l \in i + 1 .. (m + 2) - 1 : ~Writes(chain, v[l], t, b, p)
      <4> SUFFICES ASSUME NEW l \in i + 1 .. (m + 2) - 1
                   PROVE  ~Writes(chain, v[l], t, b, p)
        OBVIOUS
      <4>1. l \in i + 1 .. m \/ l = m + 1
        OBVIOUS
      <4> QED BY <2>3, <2>4, <4>1
    <3>2. i \in 1 .. (m + 2) - 1
      OBVIOUS
    <3> QED BY <2>4, <3>1, <3>2 DEF Will
  <2>5. ASSUME Held(chain, ca, t, b, p, token), \A l \in 1 .. m : ~Writes(chain, v[l], t, b, p)
        PROVE  Will(chain, v, ca, m + 2, t, b, p, token)
    <3>1. \A l \in 1 .. (m + 2) - 1 : ~Writes(chain, v[l], t, b, p)
      BY <2>3, <2>5
    <3> QED BY <2>5, <3>1 DEF Will
  <2> QED BY <1>5, <2>1, <2>2, <2>4, <2>5 DEF Will
<1>11. Len(v) + 1 = m + 2
  BY <1>4
<1> QED BY <1>3, <1>4, <1>9, <1>10, <1>11

-----------------------------------------------------------------------------
(* A session: what always holds.                                           *)

\* For every operation on the stream, the positions and the tokens will be there
\* when the device comes to it; for the host, the tokens it takes to be in the
\* cache will be there when the stream is empty.
SessionInv ==
  /\ chain \in Chains /\ made \in Nat /\ stream \in Seq(Ops(chain))
  /\ OpsOK(chain, stream, cache, devpos)
  /\ Seen(chain, history) /\ Agreed(chain, stream, cache, Len(stream) + 1, history)
  /\ StepExact

LEMMA SessionStarts == SessionInit => SessionInv
<1> SUFFICES ASSUME SessionInit
             PROVE  SessionInv
  OBVIOUS
<1>1. /\ chain \in Chains /\ made = 0 /\ stream = <<>> /\ history = [b \in 0 .. chain.batch - 1 |-> <<>>]
      /\ answer = [read |-> {}, due |-> {}]
  BY DEF SessionInit, Slots
<1>2. chain.batch \in Nat \ {0}
  BY <1>1, ChainsOK DEF Coupled
<1>3. stream \in Seq(Ops(chain)) /\ Len(stream) = 0
  BY <1>1
<1>4. OpsOK(chain, stream, cache, devpos)
  BY <1>3 DEF OpsOK
<1>5. \A b \in 0 .. chain.batch - 1 : history[b] = <<>> /\ Len(history[b]) = 0 /\ history[b] \in Seq(Nat)
  BY <1>1
<1>6. Seen(chain, history)
  <2>1. history \in [0 .. chain.batch - 1 -> Seq(Nat)]
    BY <1>1, <1>5
  <2>2. 0 \in 0 .. chain.batch - 1 /\ 0 <= MaxSeq
    BY <1>2, SessionOK
  <2> QED BY <1>5, <2>1, <2>2 DEF Seen
<1>7. Agreed(chain, stream, cache, Len(stream) + 1, history)
  <2>1. \A b \in 0 .. chain.batch - 1 : 0 .. Len(history[b]) - 1 = {}
    BY <1>5
  <2> QED BY <2>1 DEF Agreed
<1>8. StepExact
  BY <1>1 DEF StepExact
<1> QED BY <1>1, <1>3, <1>4, <1>6, <1>7, <1>8 DEF SessionInv

LEMMA SessionMakes ==
  ASSUME SessionInv, MakeToken
  PROVE  SessionInv'
<1>1. /\ chain \in Chains /\ made \in Nat /\ stream \in Seq(Ops(chain))
      /\ OpsOK(chain, stream, cache, devpos)
      /\ Seen(chain, history) /\ Agreed(chain, stream, cache, Len(stream) + 1, history)
      /\ StepExact
  BY DEF SessionInv
<1>2. Coupled(chain)
  BY <1>1, ChainsOK
<1>3. chain' = chain /\ devpos' = devpos /\ cache' = cache /\ answer' = answer
  BY DEF MakeToken
<1>4. PICK at : at = [b \in 0 .. chain.batch - 1 |-> Len(history[b])]
  OBVIOUS
<1>5. PICK now : now = [b \in 0 .. chain.batch - 1 |-> Append(history[b], made + 1)]
  OBVIOUS
<1>6. PICK e : e = [op |-> "attend", length |-> Len(now[0]), due |-> DueOf(chain, now)]
  OBVIOUS
<1>7. PICK whole \in BOOLEAN : whole <=> (chain.paged => Len(now[0]) % Tile = 0)
  OBVIOUS
<1>8. PICK q : q = stream \o <<[op |-> "positions", at |-> at]>> \o AppendsOf(at, made + 1)
  OBVIOUS
<1>9. Due(now) = DueOf(chain, now)
  BY DEF Due, DueOf, Slots
<1>10. IF \A b \in Slots : Appended(AppendCall(b, at[b]), at[b], "K").accepted
       THEN /\ history' = now /\ made' = made + 1
            /\ stream' = q \o (IF whole THEN <<e>> ELSE <<>>)
       ELSE UNCHANGED <<history, made, stream>>
  BY <1>4, <1>5, <1>6, <1>7, <1>8, <1>9 DEF MakeToken, AppendsOf, Slots
<1>11. StepExact'
  BY <1>1, <1>3 DEF StepExact
<1>12. CASE \A b \in Slots : Appended(AppendCall(b, at[b]), at[b], "K").accepted
  <2>1. history' = now /\ made' = made + 1 /\ stream' = q \o (IF whole THEN <<e>> ELSE <<>>)
    BY <1>10, <1>12
  <2>2. ASSUME NEW b \in 0 .. chain.batch - 1
        PROVE  at[b] \in 0 .. MaxSeq /\ Accepts(chain) /\ at[b] < MaxSeq
    <3>1. at[b] = Len(history[b]) /\ history[b] \in Seq(Nat) /\ Len(history[b]) <= MaxSeq
      BY <1>1, <1>4 DEF Seen
    <3>2. MaxSeq \in Nat /\ Len(history[b]) \in Nat
      BY <3>1, SessionOK
    <3>3. at[b] \in 0 .. MaxSeq /\ b \in Slots
      BY <3>1, <3>2 DEF Slots
    <3>4. Lays(Appended(AppendCall(b, at[b]), at[b], "K"), b, at[b], "K")
      BY <1>2, <3>3, AppendIs
    <3>5. Accepts(chain) /\ (PlaceIsChecked => at[b] < MaxSeq)
      BY <1>12, <3>3, <3>4 DEF Lays
    <3>6. ~PlaceIsChecked => at[b] < MaxSeq
      BY <3>1, <3>3 DEF MakeToken
    <3> QED BY <3>3, <3>5, <3>6
  <2>3. at \in [0 .. chain.batch - 1 -> Nat] /\ made + 1 \in Nat /\ Accepts(chain)
    <3>1. \A b \in 0 .. chain.batch - 1 : at[b] \in Nat
      BY <2>2, SessionOK
    <3>2. 0 \in 0 .. chain.batch - 1
      BY <1>2 DEF Coupled
    <3>3. at \in [0 .. chain.batch - 1 -> Nat]
      BY <1>4, <3>1
    <3>4. made + 1 \in Nat
      BY <1>1
    <3> QED BY <2>2, <3>2, <3>3, <3>4
  <2>4. OneMore(history, now, at, made + 1)
    BY <1>1, <1>4, <1>5, <2>2, <2>3, OneMoreIs
  <2>5. PICK u : u = AppendsOf(at, made + 1)
    OBVIOUS
  <2>6. AppendsAll(u, at, made + 1)
    BY <1>2, <2>3, <2>5, AppendsAre
  <2>7. u \in Seq(Ops(chain))
    BY <2>6 DEF AppendsAll
  <2>8. Longer(q, stream, at, u)
    BY <1>1, <1>8, <2>3, <2>5, <2>7, LongerIs
  <2>9. /\ OpsOK(chain, q, cache, devpos) /\ Seen(chain, now)
        /\ Agreed(chain, q, cache, Len(q) + 1, now) /\ PosIs(q, devpos, Len(q) + 1, at)
    BY <1>1, <1>2, <2>3, <2>4, <2>6, <2>8, TokenPut
  <2>10. q \in Seq(Ops(chain))
    BY <2>8 DEF Longer
  <2>11. /\ stream' \in Seq(Ops(chain)) /\ OpsOK(chain, stream', cache, devpos)
         /\ Agreed(chain, stream', cache, Len(stream') + 1, now)
    <3>1. CASE whole
      <4>1. stream' = q \o <<e>>
        BY <2>1, <3>1
      <4>2. \A b \in 0 .. chain.batch - 1 : Len(now[b]) = at[b] + 1
        BY <2>4 DEF OneMore
      <4>3. chain.paged => Len(now[0]) % Tile = 0
        BY <1>7, <3>1
      <4>4. /\ q \o <<e>> \in Seq(Ops(chain)) /\ OpsOK(chain, q \o <<e>>, cache, devpos)
            /\ Agreed(chain, q \o <<e>>, cache, Len(q \o <<e>>) + 1, now)
        BY <1>2, <1>6, <2>3, <2>9, <2>10, <4>2, <4>3, AttendPut
      <4> QED BY <4>1, <4>4, Zenon
    <3>2. CASE ~whole
      <4>1. stream' = q \o <<>>
        BY <2>1, <3>2
      <4>2. q \o <<>> = q
        BY <2>10
      <4> QED BY <2>9, <2>10, <4>1, <4>2, Zenon
    <3> QED BY <3>1, <3>2
  <2> QED BY <1>1, <1>3, <1>11, <2>1, <2>3, <2>9, <2>11 DEF SessionInv
<1>13. CASE ~ \A b \in Slots : Appended(AppendCall(b, at[b]), at[b], "K").accepted
  <2>1. UNCHANGED <<history, made, stream>>
    BY <1>10, <1>13
  <2> QED BY <1>1, <1>3, <1>11, <2>1 DEF SessionInv
<1> QED BY <1>12, <1>13

LEMMA SessionTakes ==
  ASSUME SessionInv, TakeBack
  PROVE  SessionInv'
<1>1. /\ chain \in Chains /\ made \in Nat /\ stream \in Seq(Ops(chain))
      /\ OpsOK(chain, stream, cache, devpos)
      /\ Seen(chain, history) /\ Agreed(chain, stream, cache, Len(stream) + 1, history)
      /\ StepExact
  BY DEF SessionInv
<1>2. UNCHANGED <<chain, made, stream, devpos, cache, answer>>
  BY DEF TakeBack
<1>3. PICK b \in 0 .. chain.batch - 1, n \in Nat :
        /\ n < Len(history[b]) /\ (chain.perSequence \/ chain.batch = 1)
        /\ history' = [history EXCEPT ![b] = SubSeq(history[b], 1, n)]
  <2>1. PICK b \in Slots : \E n \in 0 .. Len(history[b]) - 1 :
          /\ chain.perSequence \/ chain.batch = 1
          /\ history' = [history EXCEPT ![b] = SubSeq(history[b], 1, n)]
    BY DEF TakeBack
  <2>2. PICK n \in 0 .. Len(history[b]) - 1 :
          /\ chain.perSequence \/ chain.batch = 1
          /\ history' = [history EXCEPT ![b] = SubSeq(history[b], 1, n)]
    BY <2>1
  <2>3. b \in 0 .. chain.batch - 1 /\ Len(history[b]) \in Nat
    BY <1>1 DEF Seen, Slots
  <2>4. n \in Nat /\ n < Len(history[b])
    BY <2>3
  <2> QED BY <2>2, <2>3, <2>4
<1>4. history \in [0 .. chain.batch - 1 -> Seq(Nat)] /\ history[b] \in Seq(Nat)
  BY <1>1 DEF Seen
<1>5. PICK w : w = SubSeq(history[b], 1, n)
  OBVIOUS
<1>6. w \in Seq(Nat) /\ Len(w) = n /\ \A i \in 1 .. n : w[i] = history[b][i]
  BY <1>3, <1>4, <1>5
<1>7. history' = [history EXCEPT ![b] = w]
  BY <1>3, <1>5
<1>8. history'[b] = w /\ \A a \in 0 .. chain.batch - 1 : a # b => history'[a] = history[a]
  BY <1>4, <1>7
<1>9. Seen(chain, history')
  <2>1. history' \in [0 .. chain.batch - 1 -> Seq(Nat)]
    BY <1>4, <1>6, <1>7
  <2>2. ASSUME NEW a \in 0 .. chain.batch - 1
        PROVE  Len(history'[a]) <= MaxSeq
    <3>1. Len(history[a]) <= MaxSeq /\ Len(history[b]) <= MaxSeq /\ MaxSeq \in Nat /\ Len(history[b]) \in Nat
      BY <1>1, <1>4, SessionOK DEF Seen
    <3> QED BY <1>3, <1>6, <1>8, <3>1
  <2>3. ASSUME ~chain.perSequence, NEW a \in 0 .. chain.batch - 1
        PROVE  Len(history'[a]) = Len(history'[0])
    <3>1. a = 0
      BY <1>3, <2>3
    <3> QED BY <3>1
  <2> QED BY <2>1, <2>2, <2>3 DEF Seen
<1>10. Agreed(chain, stream, cache, Len(stream) + 1, history')
  <2> SUFFICES ASSUME NEW t \in {"K", "V"}, NEW a \in 0 .. chain.batch - 1, NEW p \in 0 .. Len(history'[a]) - 1
               PROVE  Will(chain, stream, cache, Len(stream) + 1, t, a, p, history'[a][p + 1])
    BY DEF Agreed
  <2>1. p \in 0 .. Len(history[a]) - 1 /\ history'[a][p + 1] = history[a][p + 1]
    <3>1. CASE a = b
      <4>1. p \in 0 .. n - 1 /\ p + 1 \in 1 .. n /\ Len(history[b]) \in Nat
        BY <1>4, <1>6, <1>8, <3>1
      <4> QED BY <1>3, <1>6, <1>8, <3>1, <4>1
    <3>2. CASE a # b
      BY <1>8, <3>2
    <3> QED BY <3>1, <3>2
  <2> QED BY <1>1, <2>1 DEF Agreed
<1>11. StepExact'
  BY <1>1, <1>2 DEF StepExact
<1> QED BY <1>1, <1>2, <1>9, <1>10, <1>11 DEF SessionInv

\* A device that has run an operation as it was meant leaves what always holds.
LEMMA SessionRuns ==
  ASSUME SessionInv, stream # <<>>, chain' = chain, made' = made, history' = history, stream' = Tail(stream),
         StepExact',
         \A t \in {"K", "V"}, b \in 0 .. chain.batch - 1 : \A p \in 0 .. MaxSeq - 1 : \A token :
           /\ Writes(chain, stream[1], t, b, p) /\ stream[1].token = token => Held(chain, cache', t, b, p, token)
           /\ ~Writes(chain, stream[1], t, b, p) /\ Held(chain, cache, t, b, p, token)
              => Held(chain, cache', t, b, p, token),
         stream[1].op = "positions" => devpos' = stream[1].at,
         stream[1].op # "positions" => devpos' = devpos
  PROVE  SessionInv'
<1>1. /\ chain \in Chains /\ made \in Nat /\ stream \in Seq(Ops(chain))
      /\ OpsOK(chain, stream, cache, devpos)
      /\ Seen(chain, history) /\ Agreed(chain, stream, cache, Len(stream) + 1, history)
  BY DEF SessionInv
<1>2. Tail(stream) \in Seq(Ops(chain))
  BY <1>1, Dropped
<1>3. /\ OpsOK(chain, Tail(stream), cache', devpos')
      /\ \A now : Seen(chain, now) /\ Agreed(chain, stream, cache, Len(stream) + 1, now)
                  => Agreed(chain, Tail(stream), cache', Len(Tail(stream)) + 1, now)
  BY <1>1, OpsDropped
<1>4. Agreed(chain, Tail(stream), cache', Len(Tail(stream)) + 1, history)
  BY <1>1, <1>3
<1> QED BY <1>1, <1>2, <1>3, <1>4 DEF SessionInv

LEMMA SessionCopies ==
  ASSUME SessionInv, CopyPositions
  PROVE  SessionInv'
<1>1. /\ stream # <<>> /\ chain' = chain /\ made' = made /\ history' = history /\ stream' = Tail(stream)
      /\ cache' = cache /\ answer' = answer /\ Head(stream).op = "positions" /\ devpos' = Head(stream).at
  BY DEF CopyPositions
<1>2. Head(stream) = stream[1]
  OBVIOUS
<1>3. \A t, b, p : ~Writes(chain, stream[1], t, b, p)
  BY <1>1, <1>2 DEF Writes
<1>4. StepExact'
  BY <1>1 DEF SessionInv, StepExact
<1> QED BY <1>1, <1>2, <1>3, <1>4, SessionRuns

LEMMA SessionAppends ==
  ASSUME SessionInv, RunAppend
  PROVE  SessionInv'
<1>1. /\ stream # <<>> /\ chain' = chain /\ made' = made /\ history' = history /\ stream' = Tail(stream)
      /\ devpos' = devpos /\ answer' = answer /\ Head(stream).op = "append"
  BY DEF RunAppend
<1>2. /\ chain \in Chains /\ stream \in Seq(Ops(chain)) /\ OpsOK(chain, stream, cache, devpos)
      /\ Coupled(chain)
  BY ChainsOK DEF SessionInv
<1>3. PICK e : e = stream[1]
  OBVIOUS
<1>4. /\ Head(stream) = e /\ 1 \in 1 .. Len(stream) /\ e \in Ops(chain)
  BY <1>1, <1>2, <1>3
<1>5. e.op = "append" /\ e.b \in 0 .. chain.batch - 1 /\ e.at \in Nat
  BY <1>1, <1>4 DEF Ops
<1>6. AppendOK(chain, stream, devpos, 1)
  BY <1>2, <1>3, <1>4, <1>5 DEF OpsOK
<1>7. e.at < MaxSeq /\ Accepts(chain) /\ devpos[e.b] = e.at
  <2>1. PICK at : PosIs(stream, devpos, 1, at) /\ at[e.b] = e.at
    BY <1>3, <1>6 DEF AppendOK
  <2>2. devpos = at
    <3>1. 1 .. 1 - 1 = {}
      OBVIOUS
    <3> QED BY <2>1, <3>1 DEF PosIs
  <2> QED BY <1>3, <1>6, <2>1, <2>2 DEF AppendOK
<1>8. e.at \in 0 .. MaxSeq - 1
  BY <1>5, <1>7, SessionOK
<1>9. PICK w : w = Appended(AppendCall(e.b, e.at), devpos[e.b], e.tensor)
  OBVIOUS
<1>10. cache' = RowsAfter(cache, e, w)
  BY <1>4, <1>9, Zenon DEF RunAppend, RowsAfter
<1>11. \A t \in {"K", "V"}, b \in 0 .. chain.batch - 1 : \A p \in 0 .. MaxSeq - 1 : \A token :
         /\ Writes(chain, e, t, b, p) /\ e.token = token => Held(chain, cache', t, b, p, token)
         /\ ~Writes(chain, e, t, b, p) /\ Held(chain, cache, t, b, p, token)
            => Held(chain, cache', t, b, p, token)
  <2> SUFFICES ASSUME NEW t \in {"K", "V"}, NEW b \in 0 .. chain.batch - 1,
                      NEW p \in 0 .. MaxSeq - 1, NEW token
               PROVE  /\ Writes(chain, e, t, b, p) /\ e.token = token => Held(chain, cache', t, b, p, token)
                      /\ ~Writes(chain, e, t, b, p) /\ Held(chain, cache, t, b, p, token)
                         => Held(chain, cache', t, b, p, token)
    OBVIOUS
  <2>1. w = Appended(AppendCall(e.b, e.at), e.at, e.tensor)
    BY <1>7, <1>9
  <2> QED BY <1>2, <1>5, <1>7, <1>8, <1>10, <2>1, AppendRun
<1>12. StepExact'
  BY <1>1 DEF SessionInv, StepExact
<1> QED BY <1>1, <1>3, <1>5, <1>11, <1>12, SessionRuns, SMTT(30)

LEMMA SessionAttends ==
  ASSUME SessionInv, RunAttend
  PROVE  SessionInv'
<1>1. /\ stream # <<>> /\ chain' = chain /\ made' = made /\ history' = history /\ stream' = Tail(stream)
      /\ devpos' = devpos /\ cache' = cache /\ Head(stream).op = "attend"
  BY DEF RunAttend
<1>2. /\ chain \in Chains /\ stream \in Seq(Ops(chain)) /\ OpsOK(chain, stream, cache, devpos)
      /\ Coupled(chain)
  BY ChainsOK DEF SessionInv
<1>3. PICK e : e = stream[1]
  OBVIOUS
<1>4. Head(stream) = e /\ 1 \in 1 .. Len(stream) /\ e.op = "attend"
  BY <1>1, <1>2, <1>3
<1>5. AttendOK(chain, stream, cache, devpos, 1)
  BY <1>2, <1>3, <1>4 DEF OpsOK
<1>6. PICK now, at :
        /\ Seen(chain, now) /\ Agreed(chain, stream, cache, 1, now)
        /\ at \in [0 .. chain.batch - 1 -> Nat] /\ PosIs(stream, devpos, 1, at)
        /\ \A b \in 0 .. chain.batch - 1 : Len(now[b]) = at[b] + 1
        /\ e.length = Len(now[0]) /\ e.due = DueOf(chain, now)
  BY <1>3, <1>5 DEF AttendOK
<1>7. 1 .. 1 - 1 = {}
  OBVIOUS
<1>8. devpos = at
  BY <1>6, <1>7 DEF PosIs
<1>9. \A t \in {"K", "V"}, b \in 0 .. chain.batch - 1 : \A p \in 0 .. Len(now[b]) - 1 :
        Held(chain, cache, t, b, p, now[b][p + 1])
  BY <1>6, <1>7 DEF Agreed, Will
<1>10. chain.paged => Len(now[0]) % Tile = 0
  BY <1>3, <1>5, <1>6 DEF AttendOK
<1>11. PICK c : c = AttendCall(AttendLength(now), at)
  OBVIOUS
<1>12. PICK L : L = Chosen(c)
  OBVIOUS
<1>13. answer' = [due |-> e.due, read |-> ReadBy(L, c, cache)]
  <2>1. c = AttendCall(IF chain.perSequence THEN MaxSeq ELSE e.length, devpos)
    BY <1>6, <1>8, <1>11 DEF AttendLength
  <2> QED BY <1>4, <1>12, <2>1 DEF RunAttend, ReadBy
<1>14. ReadBy(L, c, cache) = DueReads(chain, DueOf(chain, now))
  BY <1>2, <1>6, <1>9, <1>10, <1>11, <1>12, AttendRead, Zenon
<1>15. StepExact'
  BY <1>1, <1>6, <1>13, <1>14 DEF StepExact, DueReads
<1>16. \A t, b, p : ~Writes(chain, stream[1], t, b, p)
  BY <1>3, <1>4 DEF Writes
<1> QED BY <1>1, <1>3, <1>4, <1>15, <1>16, SessionRuns

\* What always holds of a session is inductive.
THEOREM SessionInductive == SessionSpec => []SessionInv
<1>1. SessionInit => SessionInv
  BY SessionStarts
<1>2. SessionInv /\ [SessionNext \/ (SessionDone /\ UNCHANGED sessionVars)]_sessionVars => SessionInv'
  <2> SUFFICES ASSUME SessionInv, [SessionNext \/ (SessionDone /\ UNCHANGED sessionVars)]_sessionVars
               PROVE  SessionInv'
    OBVIOUS
  <2>1. CASE MakeToken
    BY <2>1, SessionMakes
  <2>2. CASE TakeBack
    BY <2>2, SessionTakes
  <2>3. CASE CopyPositions
    BY <2>3, SessionCopies
  <2>4. CASE RunAppend
    BY <2>4, SessionAppends
  <2>5. CASE RunAttend
    BY <2>5, SessionAttends
  <2>6. CASE UNCHANGED sessionVars
    BY <2>6 DEF sessionVars, SessionInv, StepExact
  <2> QED BY <2>1, <2>2, <2>3, <2>4, <2>5, <2>6 DEF SessionNext
<1> QED BY <1>1, <1>2, PTL DEF SessionSpec

\* Each attention of a session reads exactly the tokens the host had in its
\* sequences when it asked for it, whatever the host did since: StepExact.
THEOREM StepsCorrect == SessionSpec => []StepExact
<1>1. SessionInv => StepExact
  BY DEF SessionInv
<1> QED BY <1>1, SessionInductive, PTL

-----------------------------------------------------------------------------
(* The invariant of the recurrences.                                       *)

Gdn   == {"gdn_decode", "gdn_prefill", "gdn_decode_tma"}
Mamba == {"mamba2_selective_scan_decode", "mamba2_selective_scan_prefill"}
Chunk == {"linear_attn_chunk_prefill", "linear_attn_state_update_mma"}

\* How many bar.syncs are behind a warp with token t that is at a place.
RoundOf(fn, place, t) ==
  IF place \in {"h", "chunk"} \/ (place = "load" /\ fn = "gdn_prefill") THEN 0
  ELSE IF place \in {"load", "intra", "outer"} THEN 1
  ELSE IF place = "merge" THEN 2
  ELSE IF place \in {"update", "h_out"} THEN 2 * t
  ELSE IF place \in {"stage", "sum"} THEN 2 * t + 1
  ELSE IF place = "absorb" THEN 2 * t + 2
  ELSE IF place = "read" THEN 2 * t + 3
  ELSE IF fn = "gdn_decode_tma" THEN 4
  ELSE IF place = "save" \/ fn \in Gdn THEN 2 * t + 3
  ELSE IF fn = "mamba2_selective_scan_prefill" THEN 2 * t
  ELSE IF fn = "linear_attn_state_update_mma" THEN 2
  ELSE 1

Round(w) ==
  IF At(w, "bar") THEN RoundOf(scan.fn, lane[w].to, lane[w].t) - 1
  ELSE RoundOf(scan.fn, lane[w].to, lane[w].t)

Token == [k : [Lanes -> Int], rule : {"plain", "decayed", "none"}]

\* A history of the first n tokens.
Hist(h, n, strict) ==
  /\ h \in Seq(Token) /\ InOrder(h, n)
  /\ strict => \A i \in 1 .. n : h[i].rule # "plain"

Places == {"bar", "load", "stage", "absorb", "read", "save", "h", "update", "sum", "h_out",
           "chunk", "intra", "outer", "merge", "exit"}

LinearTypeOK ==
  /\ family \in Families /\ hf \in BOOLEAN
  /\ fed \in [Seqs -> Nat]
  /\ lane \in [Lanes -> [at : Places, to : Places, t : Nat]]
  /\ shared \in [Lanes -> [k : Int, q : Int, part : Seq(Token)]]
  /\ row \in [Lanes -> Seq(Token)]
  /\ state \in [Lanes -> Seq(Token)]

Rest ==
  /\ scan = Idle => /\ answers = << >> /\ \A w \in Lanes : At(w, "exit")
                    /\ family # "conv" => \A w \in Lanes : Hist(state[w], fed[0], hf)
  /\ scan # Idle => /\ scan \in [fn : Gdn \cup Mamba \cup Chunk, base : Nat, m : Nat \ {0}]
                    /\ scan.base + scan.m = fed[0] /\ family # "conv"
                    /\ scan.fn \notin {"gdn_prefill"} \cup Mamba \cup Chunk => scan.m = 1
                    /\ Is("mamba2_selective_scan_decode") => scan.m = 1

\* A warp is at a place of its kernel or at a bar.sync before one, with a token
\* of the call.
LaneOK(w) ==
  LET l == lane[w]
      at(places) == l.to \in places
  IN
  /\ l.at \in {"bar", l.to}
  /\ l.to \in IF scan.fn \in Gdn THEN {"load", "stage", "absorb", "read", "save", "exit"}
              ELSE IF Is("mamba2_selective_scan_decode") THEN {"h", "update", "sum", "exit"}
              ELSE IF Is("mamba2_selective_scan_prefill") THEN {"h", "update", "sum", "h_out", "exit"}
              ELSE IF Is("linear_attn_chunk_prefill") THEN {"chunk", "intra", "exit"}
              ELSE {"chunk", "outer", "merge", "exit"}
  /\ At(w, "bar") =>
       /\ ~at({"load", "h", "chunk", "exit"})
       /\ at({"stage"}) => Is("gdn_prefill") /\ l.t = 0
       /\ at({"save"}) => Is("gdn_decode_tma")
       /\ at({"update"}) => Is("mamba2_selective_scan_prefill") /\ l.t # 0
  /\ at({"load", "h", "chunk", "intra", "outer", "merge"}) => l.t = 0
  /\ at({"stage", "absorb", "read", "update", "sum"}) => l.t < scan.m
  /\ at({"save"}) \/ (at({"exit"}) /\ scan.fn \in Gdn) => l.t + 1 = scan.m
  /\ at({"h_out"}) \/ (at({"exit"}) /\ Is("mamba2_selective_scan_prefill")) => l.t = scan.m
  /\ at({"exit"}) /\ scan.fn \in Chunk \cup {"mamba2_selective_scan_decode"} => l.t = 0

RowOK(w) ==
  LET l == lane[w] IN
  /\ l.to \in {"stage", "absorb", "update", "h_out", "intra"} => Hist(row[w], scan.base + l.t, hf)
  /\ l.to \in {"read", "save", "sum"} => Hist(row[w], scan.base + l.t + 1, hf)
  /\ Is("gdn_decode_tma") /\ l.to = "exit" => Hist(row[w], scan.base + 1, hf)
  /\ Is("gdn_decode_tma") /\ ~At(0, "load") /\ At(w, "load") => Hist(row[w], scan.base, hf)
  /\ Is("gdn_decode_tma") /\ At(0, "load") => At(w, "load")

SharedOK(w) ==
  LET l == lane[w] IN
  /\ scan.fn \notin Mamba /\ l.to \in {"absorb", "read", "save", "intra", "outer", "merge", "exit"}
       => shared[w].k = scan.base + l.t /\ shared[w].q = scan.base + l.t
  /\ l.to = "sum" \/ (l.to = "exit" /\ Is("mamba2_selective_scan_decode"))
       => Hist(shared[w].part, scan.base + l.t + 1, hf)
  /\ At(w, "bar") /\ l.to \in {"update", "h_out"} => Hist(shared[w].part, scan.base + l.t, hf)
  /\ Is("linear_attn_state_update_mma") /\ l.to \in {"merge", "exit"} =>
       /\ Len(shared[w].part) = scan.m
       /\ \A i \in 1 .. scan.m : shared[w].part[i].k = Single(scan.base + i - 1)

StateOK(w) ==
  LET l == lane[w] IN
  /\ l.to \in {"load", "h", "chunk", "outer", "merge"} => Hist(state[w], scan.base, hf)
  /\ Is("mamba2_selective_scan_decode") /\ l.to = "sum" => Hist(state[w], scan.base + 1, hf)
  /\ l.to = "exit" => Hist(state[w], scan.base + scan.m, hf)

ScanOK ==
  scan # Idle =>
    /\ \A w \in Lanes : LaneOK(w) /\ RowOK(w) /\ SharedOK(w) /\ StateOK(w)
    /\ \A v, w \in Lanes : Round(v) = Round(w)

RowsInv == LinearTypeOK /\ Rest /\ ScanOK /\ OutputsOfOwnToken

-----------------------------------------------------------------------------
(* Histories.                                                              *)

Rules == {"plain", "decayed", "none"}

\* A token taken in is a token of a history.
LEMMA AbsorbedType ==
  ASSUME NEW x \in Int, NEW rule \in Rules
  PROVE  Absorbed(Single(x), rule) \in Token
BY DEF Absorbed, Single, Token, Rules

\* A history with the next token.
LEMMA HistAppend ==
  ASSUME NEW h, NEW n \in Nat, NEW strict \in BOOLEAN, Hist(h, n, strict),
         NEW rule \in Rules, strict => rule # "plain"
  PROVE  Hist(Append(h, Absorbed(Single(n), rule)), n + 1, strict)
<1> DEFINE a == Absorbed(Single(n), rule)
           g == Append(h, a)
<1>1. a \in Token /\ a.k = Single(n) /\ a.rule = rule
  BY AbsorbedType DEF Absorbed
<1>2. h \in Seq(Token) /\ Len(h) = n
  BY DEF Hist, InOrder
<1> HIDE DEF a
<1>3. g \in Seq(Token) /\ Len(g) = n + 1 /\ g[n + 1] = a /\ \A i \in 1 .. n : g[i] = h[i]
  BY <1>1, <1>2
<1>4. \A i \in 1 .. n + 1 : i \in 1 .. n \/ i = n + 1
  OBVIOUS
<1> HIDE DEF g
<1>5. \A i \in 1 .. n + 1 : g[i].k = Single(i - 1)
  <2> SUFFICES ASSUME NEW i \in 1 .. n + 1 PROVE g[i].k = Single(i - 1)
    OBVIOUS
  <2>1. CASE i \in 1 .. n
    BY <2>1, <1>3 DEF Hist, InOrder
  <2>2. CASE i = n + 1
    <3>1. i - 1 = n
      BY <2>2
    <3> QED BY <3>1, <2>2, <1>3, <1>1
  <2> QED BY <2>1, <2>2, <1>4
<1>6. strict => \A i \in 1 .. n + 1 : g[i].rule # "plain"
  BY <1>1, <1>3, <1>4 DEF Hist
<1>7. Hist(g, n + 1, strict)
  BY <1>3, <1>5, <1>6 DEF Hist, InOrder
<1> QED BY <1>7 DEF g, a

\* A history with the next m tokens.
LEMMA HistConcat ==
  ASSUME NEW h, NEW n \in Nat, NEW strict \in BOOLEAN, Hist(h, n, strict),
         NEW m \in Nat, NEW c \in Seq(Token), Len(c) = m,
         \A i \in 1 .. m : c[i].k = Single(n + i - 1) /\ c[i].rule # "plain"
  PROVE  Hist(h \o c, n + m, strict)
<1> DEFINE g == h \o c
<1>1. h \in Seq(Token) /\ Len(h) = n
  BY DEF Hist, InOrder
<1>2. g \in Seq(Token) /\ Len(g) = n + m
  <2>1. g \in Seq(Token)
    BY <1>1
  <2>2. Len(g) = Len(h) + Len(c)
    BY <1>1
  <2> QED BY <1>1, <2>1, <2>2
<1>3. ASSUME NEW i \in 1 .. n + m
      PROVE  g[i].k = Single(i - 1) /\ (strict => g[i].rule # "plain")
  <2>1. CASE i <= n
    <3>1. i \in 1 .. n /\ g[i] = h[i]
      BY <2>1, <1>1
    <3> HIDE DEF g
    <3> QED BY <3>1 DEF Hist, InOrder
  <2>2. CASE ~(i <= n)
    <3>1. i - n \in 1 .. m /\ g[i] = c[i - n] /\ n + (i - n) - 1 = i - 1
      BY <2>2, <1>1
    <3> HIDE DEF g
    <3> QED BY <3>1
  <2> QED BY <2>1, <2>2
<1> HIDE DEF g
<1>4. Hist(g, n + m, strict)
  BY <1>2, <1>3 DEF Hist, InOrder
<1> QED BY <1>4 DEF g

\* The empty history.
LEMMA HistEmpty ==
  ASSUME NEW strict
  PROVE  Hist(<< >>, 0, strict)
BY DEF Hist, InOrder

-----------------------------------------------------------------------------
(* A step of one warp.                                                     *)

\* The call in progress is of one of the kernels.
LEMMA ScanTypes ==
  ASSUME RowsInv, scan # Idle
  PROVE  /\ scan.base \in Nat /\ scan.m \in Nat \ {0} /\ scan.fn \in Gdn \cup Mamba \cup Chunk
         /\ \A w \in Lanes : /\ lane[w] \in [at : Places, to : Places, t : Nat]
                             /\ lane[w].t \in Nat
BY DEF RowsInv, LinearTypeOK, Rest

\* Where a warp is, only it changes; what it left to the others stays; and the
\* round is that of all.
LEMMA OwnStep ==
  ASSUME RowsInv, scan # Idle, KeepIn, NEW w \in Lanes,
         LaneOK(w)', RowOK(w)', SharedOK(w)', StateOK(w)',
         Round(w)' = Round(w), lane[w].at # "load" \/ ~Is("gdn_decode_tma"),
         lane'[w].at # "load",
         \A v \in Lanes \ {w} : /\ lane'[v] = lane[v] /\ row'[v] = row[v]
                                /\ shared'[v] = shared[v] /\ state'[v] = state[v]
  PROVE  ScanOK'
<1>1. UNCHANGED <<hf, scan>>
  BY DEF KeepIn
<1>2. ASSUME NEW v \in Lanes \ {w}
      PROVE  LaneOK(v)' /\ RowOK(v)' /\ SharedOK(v)' /\ StateOK(v)' /\ Round(v)' = Round(v)
  <2>1. LaneOK(v) /\ RowOK(v) /\ SharedOK(v) /\ StateOK(v)
    BY DEF RowsInv, ScanOK
  <2>2. LaneOK(v)' /\ SharedOK(v)' /\ StateOK(v)' /\ Round(v)' = Round(v)
    BY <2>1, <1>1, <1>2 DEF LaneOK, SharedOK, StateOK, Round, At, Is
  <2>3. Is("gdn_decode_tma") => (lane'[0].at = "load" <=> lane[0].at = "load")
    <3>1. 0 \in Lanes
      BY LinearOK
    <3>2. CASE w = 0
      BY <3>2
    <3>3. CASE w # 0
      BY <3>1, <3>3
    <3> QED BY <3>2, <3>3
  <2>4. RowOK(v)'
    <3>1. lane'[v] = lane[v] /\ row'[v] = row[v] /\ scan' = scan /\ hf' = hf
      BY <1>1, <1>2
    <3> QED BY <2>1, <2>3, <3>1 DEF RowOK, At, Is
  <2> QED BY <2>2, <2>4
<1>3. \A v \in Lanes : Round(v)' = Round(v)
  BY <1>2
<1>4. (\A v, u \in Lanes : Round(v) = Round(u))'
  BY <1>3 DEF RowsInv, ScanOK
<1> QED BY <1>2, <1>4 DEF ScanOK

\* Only a call in progress has warps that can go on.
LEMMA AtWork ==
  ASSUME RowsInv, NEW w \in Lanes, ~At(w, "exit")
  PROVE  scan # Idle
BY DEF RowsInv, Rest

\* What the invariant says of a warp of the call in progress.
LEMMA WarpFacts ==
  ASSUME RowsInv, scan # Idle, NEW w \in Lanes
  PROVE  /\ LaneOK(w) /\ RowOK(w) /\ SharedOK(w) /\ StateOK(w)
         /\ lane \in [Lanes -> [at : Places, to : Places, t : Nat]]
         /\ lane[w] = [at |-> lane[w].at, to |-> lane[w].to, t |-> lane[w].t]
         /\ lane[w].t \in Nat /\ lane[w].at \in Places /\ lane[w].to \in Places
         /\ scan.base \in Nat /\ scan.m \in Nat \ {0} /\ hf \in BOOLEAN
         /\ \A v \in Lanes : Round(v) = Round(w)
         /\ 0 \in Lanes
<1>1. lane \in [Lanes -> [at : Places, to : Places, t : Nat]] /\ hf \in BOOLEAN
  BY DEF RowsInv, LinearTypeOK
<1>2. \A v \in Lanes : Round(v) = Round(w)
  BY DEF RowsInv, ScanOK
<1>3. LaneOK(w) /\ RowOK(w) /\ SharedOK(w) /\ StateOK(w)
  BY DEF RowsInv, ScanOK
<1> QED BY <1>1, <1>2, <1>3, ScanTypes, LinearOK

\* Where a step sends a warp.
LEMMA GoTo ==
  ASSUME RowsInv, scan # Idle, NEW w \in Lanes, NEW at \in Places, NEW to \in Places,
         Go(w, [at |-> at, to |-> to])
  PROVE  /\ lane'[w] = [at |-> at, to |-> to, t |-> lane[w].t]
         /\ \A v \in Lanes \ {w} : lane'[v] = lane[v]
         /\ lane' \in [Lanes -> [at : Places, to : Places, t : Nat]]
<1>1. /\ lane \in [Lanes -> [at : Places, to : Places, t : Nat]]
      /\ lane[w] = [at |-> lane[w].at, to |-> lane[w].to, t |-> lane[w].t]
  BY WarpFacts
<1>2. lane' = [lane EXCEPT ![w].at = at, ![w].to = to]
  BY DEF Go
<1> QED BY <1>1, <1>2

\* The same on the way to the next token.
LEMMA GoToNext ==
  ASSUME RowsInv, scan # Idle, NEW w \in Lanes, NEW at \in Places, NEW to \in Places,
         GoNext(w, [at |-> at, to |-> to])
  PROVE  /\ lane'[w] = [at |-> at, to |-> to, t |-> lane[w].t + 1]
         /\ \A v \in Lanes \ {w} : lane'[v] = lane[v]
         /\ lane' \in [Lanes -> [at : Places, to : Places, t : Nat]]
<1>1. /\ lane \in [Lanes -> [at : Places, to : Places, t : Nat]]
      /\ lane[w].t + 1 \in Nat
  <2>1. lane[w].t \in Nat
    BY WarpFacts
  <2>2. lane \in [Lanes -> [at : Places, to : Places, t : Nat]]
    BY WarpFacts
  <2> QED BY <2>1, <2>2
<1>2. lane' = [lane EXCEPT ![w] = [at |-> at, to |-> to, t |-> @.t + 1]]
  BY DEF GoNext
<1> QED BY <1>1, <1>2

\* What no step of a warp touches.
LEMMA Kept ==
  ASSUME RowsInv, scan # Idle, KeepIn
  PROVE  /\ Rest' /\ UNCHANGED <<family, hf, fed, scan>>
         /\ family' \in Families /\ hf' \in BOOLEAN /\ fed' \in [Seqs -> Nat]
<1>1. UNCHANGED <<family, hf, fed, scan>>
  BY DEF KeepIn
<1> QED BY <1>1 DEF RowsInv, Rest, LinearTypeOK, Is

\* A step that writes no output.
LEMMA KeptAnswers ==
  ASSUME RowsInv, scan # Idle, KeepIn, answers' = answers
  PROVE  OutputsOfOwnToken'
<1>1. UNCHANGED <<answers, scan>>
  BY DEF KeepIn
<1> QED BY <1>1 DEF RowsInv, OutputsOfOwnToken, OwnToken, Is

\* The rounds, place by place.
LEMMA RoundAt ==
  ASSUME NEW fn, NEW t \in Nat
  PROVE  /\ RoundOf(fn, "load", t) = IF fn = "gdn_prefill" THEN 0 ELSE 1
         /\ RoundOf(fn, "stage", t) = 2 * t + 1
         /\ RoundOf(fn, "absorb", t) = 2 * t + 2
         /\ RoundOf(fn, "read", t) = 2 * t + 3
         /\ RoundOf(fn, "save", t) = IF fn = "gdn_decode_tma" THEN 4 ELSE 2 * t + 3
         /\ RoundOf(fn, "h", t) = 0 /\ RoundOf(fn, "chunk", t) = 0
         /\ RoundOf(fn, "update", t) = 2 * t /\ RoundOf(fn, "h_out", t) = 2 * t
         /\ RoundOf(fn, "sum", t) = 2 * t + 1
         /\ RoundOf(fn, "intra", t) = 1 /\ RoundOf(fn, "outer", t) = 1
         /\ RoundOf(fn, "merge", t) = 2
         /\ RoundOf(fn, "exit", t) = IF fn = "gdn_decode_tma" THEN 4
                                     ELSE IF fn \in Gdn THEN 2 * t + 3
                                     ELSE IF fn = "mamba2_selective_scan_prefill" THEN 2 * t
                                     ELSE IF fn = "linear_attn_state_update_mma" THEN 2 ELSE 1
BY DEF RoundOf

\* Places before and after a bar.sync of a token differ in parity.
LEMMA RoundParity ==
  ASSUME NEW i \in Nat, NEW k \in Nat
  PROVE  /\ 2 * i + 1 # 2 * k + 2 /\ 2 * i + 3 # 2 * k + 2 /\ 2 * i # 2 * k + 1 /\ 2 * i - 1 # 2 * k
         /\ 2 * i + 2 # 2 * k + 3
         /\ 2 * i + 2 = 2 * k + 2 => i = k
         /\ 2 * i + 1 = 2 * k + 1 => i = k
         /\ 2 * i + 3 = 2 * k + 3 => i = k
         /\ 2 * i - 1 = 2 * k + 1 => i = k + 1
         /\ 2 * i = 2 * k => i = k
OBVIOUS

\* A warp of a GDN kernel copies its rows in; thread 0 of the TMA kernel all of
\* them.
LEMMA GdnLoadOK ==
  ASSUME RowsInv, NEW w \in Lanes, GdnLoad(w)
  PROVE  RowsInv'
<1>1. /\ scan # Idle /\ At(w, "load") /\ KeepIn
      /\ UNCHANGED <<shared, state, answers>>
  BY AtWork DEF GdnLoad, At
<1>2. /\ LaneOK(w) /\ RowOK(w) /\ SharedOK(w) /\ StateOK(w) /\ lane[w].t \in Nat /\ hf \in BOOLEAN
      /\ scan.base \in Nat /\ scan.m \in Nat \ {0} /\ 0 \in Lanes
      /\ \A v \in Lanes : Round(v) = Round(w)
  BY <1>1, WarpFacts
<1>3. lane[w].to = "load" /\ lane[w].t = 0 /\ scan.fn \in Gdn /\ Hist(state[w], scan.base, hf)
  BY <1>1, <1>2, ScanTypes DEF LaneOK, At, Is, StateOK, Gdn, Mamba, Chunk
<1>4. PICK at \in {"bar", "stage"} :
        /\ at = IF Is("gdn_prefill") THEN "bar" ELSE "stage"
        /\ lane'[w] = [at |-> at, to |-> "stage", t |-> lane[w].t]
        /\ \A v \in Lanes \ {w} : lane'[v] = lane[v]
        /\ lane' \in [Lanes -> [at : Places, to : Places, t : Nat]]
  <2> DEFINE at == IF Is("gdn_prefill") THEN "bar" ELSE "stage"
  <2>1. Go(w, [at |-> at, to |-> "stage"]) /\ at \in {"bar", "stage"}
    <3>1. CASE Is("gdn_prefill")
      BY <3>1 DEF GdnLoad, Bar
    <3>2. CASE ~Is("gdn_prefill")
      BY <3>2 DEF GdnLoad, Goto
    <3> QED BY <3>1, <3>2
  <2> HIDE DEF at
  <2>2. at \in Places /\ "stage" \in Places
    BY <2>1 DEF Places
  <2>3. /\ lane'[w] = [at |-> at, to |-> "stage", t |-> lane[w].t]
        /\ \A v \in Lanes \ {w} : lane'[v] = lane[v]
        /\ lane' \in [Lanes -> [at : Places, to : Places, t : Nat]]
    BY <1>1, <2>1, <2>2, GoTo
  <2> QED BY <2>1, <2>3 DEF at
<1>5. row \in [Lanes -> Seq(Token)] /\ state \in [Lanes -> Seq(Token)]
  BY DEF RowsInv, LinearTypeOK
<1>6. row' \in [Lanes -> Seq(Token)]
  BY <1>5 DEF GdnLoad
<1>7. Hist(row'[w], scan.base, hf)
  <2>1. CASE ~Is("gdn_decode_tma")
    BY <1>3, <1>5, <2>1 DEF GdnLoad
  <2>2. CASE Is("gdn_decode_tma") /\ w = 0
    BY <1>3, <1>5, <2>2 DEF GdnLoad
  <2>3. CASE Is("gdn_decode_tma") /\ w # 0
    BY <1>1, <1>2, <2>3 DEF GdnLoad, RowOK
  <2> QED BY <2>1, <2>2, <2>3
<1>20. scan.base + lane[w].t = scan.base
  BY <1>2, <1>3
<1>8. LaneOK(w)' /\ SharedOK(w)' /\ StateOK(w)' /\ Round(w)' = Round(w)
  BY <1>1, <1>2, <1>3, <1>4 DEF LaneOK, SharedOK, StateOK, Round, RoundOf, At, Is, KeepIn, Gdn, Mamba, Chunk
<1>9. LinearTypeOK' /\ Rest' /\ OutputsOfOwnToken'
  BY <1>1, <1>4, <1>6, Kept, KeptAnswers DEF LinearTypeOK, RowsInv
<1>10. ScanOK'
  <2>1. scan' = scan /\ hf' = hf /\ shared' = shared /\ state' = state
    BY <1>1 DEF KeepIn
  <2>2. CASE ~Is("gdn_decode_tma")
    <3>1. \A v \in Lanes \ {w} : row'[v] = row[v]
      <4>1. row' = [row EXCEPT ![w] = state[w]]
        BY <2>2 DEF GdnLoad
      <4> QED BY <4>1, <1>5
    <3>2. RowOK(w)'
      BY <1>3, <1>4, <1>7, <1>20, <2>1, <2>2 DEF RowOK, At, Is
    <3> QED BY <1>1, <1>4, <1>8, <2>1, <2>2, <3>1, <3>2, OwnStep
  <2>3. CASE Is("gdn_decode_tma")
    <3>1. lane'[w].at = "stage" /\ lane'[w].to = "stage"
      BY <1>4, <2>3 DEF Is
    <3>2. ASSUME NEW v \in Lanes \ {w}
          PROVE  LaneOK(v)' /\ SharedOK(v)' /\ StateOK(v)' /\ RowOK(v)' /\ Round(v)' = Round(v)
      <4>1. LaneOK(v) /\ SharedOK(v) /\ StateOK(v) /\ RowOK(v) /\ lane'[v] = lane[v] /\ lane[v].t \in Nat
        BY <1>1, <1>4, <3>2, WarpFacts
      <4>2. LaneOK(v)' /\ SharedOK(v)' /\ StateOK(v)' /\ Round(v)' = Round(v)
        BY <4>1, <2>1 DEF LaneOK, SharedOK, StateOK, Round, At, Is
      <4>3. CASE w = 0
        <5>1. At(v, "load") /\ RowOK(w) /\ row' = state /\ lane'[0].at = "stage"
          BY <1>1, <1>2, <2>3, <3>1, <4>1, <4>3 DEF RowOK, GdnLoad
        <5>2. lane[v].to = "load" /\ Hist(state[v], scan.base, hf)
          BY <4>1, <5>1 DEF LaneOK, StateOK, At
        <5>3. RowOK(v)'
          BY <4>1, <5>1, <5>2, <2>1 DEF RowOK, At, Is
        <5> QED BY <4>2, <5>3
      <4>4. CASE w # 0
        <5>1. ~At(0, "load") /\ row' = row /\ lane'[0] = lane[0]
          BY <1>2, <1>4, <2>3, <4>4 DEF GdnLoad
        <5>2. RowOK(v)'
          BY <4>1, <5>1, <2>1 DEF RowOK, At, Is
        <5> QED BY <4>2, <5>2
      <4> QED BY <4>3, <4>4
    <3>3. RowOK(w)'
      <4>1. lane'[0].at # "load"
        <5>1. CASE w = 0
          BY <3>1, <5>1
        <5>2. CASE w # 0
          <6>1. ~At(0, "load") /\ lane'[0] = lane[0]
            BY <1>2, <1>4, <2>3, <5>2 DEF GdnLoad
          <6> QED BY <6>1 DEF At
        <5> QED BY <5>1, <5>2
      <4> QED BY <1>3, <1>4, <1>7, <1>20, <2>1, <2>3, <4>1 DEF RowOK, At, Is
    <3>4. \A v \in Lanes : Round(v)' = Round(v)
      BY <3>2, <1>8
    <3>5. (\A v, u \in Lanes : Round(v) = Round(u))'
      BY <3>4, <1>1 DEF RowsInv, ScanOK
    <3> QED BY <1>8, <3>2, <3>3, <3>5 DEF ScanOK
  <2> QED BY <2>2, <2>3
<1> QED BY <1>9, <1>10 DEF RowsInv

\* A warp stages its elements of q and k.
LEMMA GdnStageOK ==
  ASSUME RowsInv, NEW w \in Lanes, GdnStage(w)
  PROVE  RowsInv'
<1>1. /\ scan # Idle /\ At(w, "stage") /\ KeepIn
      /\ UNCHANGED <<row, state, answers>>
  BY AtWork DEF GdnStage, At
<1>2. /\ LaneOK(w) /\ RowOK(w) /\ SharedOK(w) /\ StateOK(w) /\ lane[w].t \in Nat /\ hf \in BOOLEAN
      /\ scan.base \in Nat /\ scan.m \in Nat \ {0} /\ 0 \in Lanes
  BY <1>1, WarpFacts
<1>3. /\ lane[w].at = "stage" /\ lane[w].to = "stage" /\ lane[w].t < scan.m /\ scan.fn \in Gdn
      /\ Hist(row[w], scan.base + lane[w].t, hf)
  BY <1>1, <1>2, ScanTypes DEF LaneOK, At, Is, RowOK, Gdn, Mamba, Chunk
<1>4. /\ lane'[w] = [at |-> "bar", to |-> "absorb", t |-> lane[w].t]
      /\ \A v \in Lanes \ {w} : lane'[v] = lane[v]
      /\ lane' \in [Lanes -> [at : Places, to : Places, t : Nat]]
  <2>1. Go(w, [at |-> "bar", to |-> "absorb"]) /\ "bar" \in Places /\ "absorb" \in Places
    BY DEF GdnStage, Bar, Places
  <2> QED BY <1>1, <2>1, GoTo
<1>5. shared \in [Lanes -> [k : Int, q : Int, part : Seq(Token)]]
  BY DEF RowsInv, LinearTypeOK
<1>6. /\ shared' \in [Lanes -> [k : Int, q : Int, part : Seq(Token)]]
      /\ shared'[w].k = scan.base + lane[w].t /\ shared'[w].q = scan.base + lane[w].t
      /\ \A v \in Lanes \ {w} : shared'[v] = shared[v]
  <2>1. scan.base + lane[w].t \in Int
    BY <1>2
  <2>2. shared' = [shared EXCEPT ![w].q = scan.base + lane[w].t, ![w].k = scan.base + lane[w].t]
    BY DEF GdnStage, Now
  <2> QED BY <1>5, <2>1, <2>2
<1>7. scan' = scan /\ hf' = hf /\ row' = row /\ state' = state
  BY <1>1 DEF KeepIn
<1>8. LaneOK(w)' /\ StateOK(w)' /\ Round(w)' = Round(w)
  BY <1>2, <1>3, <1>4, <1>7 DEF LaneOK, StateOK, Round, RoundOf, At, Is, Gdn, Mamba, Chunk
<1>9. RowOK(w)' /\ SharedOK(w)'
  <2>1. RowOK(w)'
    <3>1. At(0, "load")' => At(w, "load") \/ At(0, "load")
      BY <1>2, <1>4 DEF At
    <3> QED BY <1>1, <1>2, <1>3, <1>4, <1>7, <3>1 DEF RowOK, At, Is
  <2>2. SharedOK(w)'
    BY <1>3, <1>4, <1>6, <1>7 DEF SharedOK, At, Is, Gdn, Mamba
  <2> QED BY <2>1, <2>2
<1>10. ScanOK'
  <2>1. lane[w].at # "load" /\ lane'[w].at # "load"
    BY <1>3, <1>4
  <2> QED BY <1>1, <1>4, <1>6, <1>7, <1>8, <1>9, <2>1, OwnStep
<1>11. LinearTypeOK' /\ Rest' /\ OutputsOfOwnToken'
  BY <1>1, <1>4, <1>6, <1>7, Kept, KeptAnswers DEF LinearTypeOK, RowsInv
<1> QED BY <1>10, <1>11 DEF RowsInv

\* A warp absorbs the token: every warp has staged k, none has gone on to the
\* next.
LEMMA GdnAbsorbOK ==
  ASSUME RowsInv, NEW w \in Lanes, GdnAbsorb(w)
  PROVE  RowsInv'
<1>1. /\ scan # Idle /\ At(w, "absorb") /\ KeepIn
      /\ UNCHANGED <<shared, state, answers>>
  BY AtWork DEF GdnAbsorb, At
<1>2. /\ LaneOK(w) /\ RowOK(w) /\ SharedOK(w) /\ StateOK(w) /\ lane[w].t \in Nat /\ hf \in BOOLEAN
      /\ scan.base \in Nat /\ scan.m \in Nat \ {0} /\ 0 \in Lanes
      /\ \A v \in Lanes : Round(v) = Round(w)
  BY <1>1, WarpFacts
<1>3. /\ lane[w].at = "absorb" /\ lane[w].to = "absorb" /\ lane[w].t < scan.m /\ scan.fn \in Gdn
      /\ Hist(row[w], scan.base + lane[w].t, hf)
  BY <1>1, <1>2, ScanTypes DEF LaneOK, At, Is, RowOK, Gdn, Mamba, Chunk
<1>4. /\ lane'[w] = [at |-> "bar", to |-> "read", t |-> lane[w].t]
      /\ \A v \in Lanes \ {w} : lane'[v] = lane[v]
      /\ lane' \in [Lanes -> [at : Places, to : Places, t : Nat]]
  <2>1. Go(w, [at |-> "bar", to |-> "read"]) /\ "bar" \in Places /\ "read" \in Places
    BY DEF GdnAbsorb, Bar, Places
  <2> QED BY <1>1, <2>1, GoTo
<1>5. row \in [Lanes -> Seq(Token)]
  BY DEF RowsInv, LinearTypeOK
\* All the others are in the round of this token, with their k and q in place.
<1>6. ASSUME NEW v \in Lanes PROVE shared[v].k = scan.base + lane[w].t
  <2>1. /\ LaneOK(v) /\ SharedOK(v) /\ lane[v].t \in Nat /\ Round(v) = Round(w)
    BY <1>1, <1>2, WarpFacts
  <2>2. Round(w) = 2 * lane[w].t + 2
    BY <1>2, <1>3 DEF Round, RoundOf, At
  <2>3. lane[v].t = lane[w].t /\ lane[v].to \in {"absorb", "read"}
    <3>1. lane[v].to \in {"load", "stage", "absorb", "read", "save", "exit"}
      BY <1>3, <2>1 DEF LaneOK
    <3>2. lane[v].to \notin {"save", "exit"} \/ lane[v].t = 0 \/ ~Is("gdn_decode_tma")
      BY <1>1, <1>3, <2>1, ScanTypes DEF LaneOK, RowsInv, Rest, Is, Gdn, Mamba, Chunk
    <3>3. PICK k \in Nat, i \in Nat : k = lane[w].t /\ i = lane[v].t
      BY <1>2, <2>1
    <3>4. CASE lane[v].to = "absorb"
      <4>1. Round(v) \in {2 * i + 1, 2 * i + 2}
        BY <3>3, <3>4, RoundAt DEF Round, At
      <4>2. 2 * i + 1 = 2 * k + 2 \/ 2 * i + 2 = 2 * k + 2
        BY <2>1, <2>2, <3>3, <4>1
      <4>3. i = k
        BY <4>2, RoundParity
      <4> QED BY <3>3, <3>4, <4>3
    <3>5. CASE lane[v].to = "read"
      <4>1. Round(v) \in {2 * i + 2, 2 * i + 3}
        BY <3>3, <3>5, RoundAt DEF Round, At
      <4>2. 2 * i + 2 = 2 * k + 2 \/ 2 * i + 3 = 2 * k + 2
        BY <2>1, <2>2, <3>3, <4>1
      <4>3. i = k
        BY <4>2, RoundParity
      <4> QED BY <3>3, <3>5, <4>3
    <3>6. CASE lane[v].to \in {"load", "stage"}
      <4>1. Round(v) \in {0, 1, 2 * i + 1}
        BY <2>1, <3>3, <3>6, RoundAt DEF Round, LaneOK, At
      <4> QED BY <2>1, <2>2, <3>3, <4>1
    <3>7. CASE lane[v].to \in {"save", "exit"}
      <4>1. Round(v) \in {3, 4, 2 * i + 3} /\ (Is("gdn_decode_tma") => Round(v) \in {3, 4}) /\ (~Is("gdn_decode_tma") => Round(v) = 2 * i + 3)
        BY <1>3, <2>1, <3>3, <3>7, RoundAt DEF Round, LaneOK, At, Is, Gdn
      <4>2. Is("gdn_decode_tma") => lane[w].t = 0
        BY <1>1, <1>2, <1>3, ScanTypes DEF RowsInv, Rest, Is, Gdn, Mamba, Chunk
      <4>3. CASE Is("gdn_decode_tma")
        BY <2>1, <2>2, <4>1, <4>2, <4>3
      <4>4. CASE ~Is("gdn_decode_tma")
        <5>1. 2 * i + 3 = 2 * k + 2
          BY <2>1, <2>2, <3>3, <4>1, <4>4
        <5> QED BY <5>1, RoundParity
      <4> QED BY <4>3, <4>4
    <3> QED BY <3>1, <3>4, <3>5, <3>6, <3>7
  <2> QED BY <1>3, <2>1, <2>3 DEF SharedOK, Gdn, Mamba
<1>7. scan' = scan /\ hf' = hf /\ shared' = shared /\ state' = state
  BY <1>1 DEF KeepIn
<1>8. /\ row' \in [Lanes -> Seq(Token)] /\ Hist(row'[w], scan.base + lane[w].t + 1, hf)
      /\ \A v \in Lanes \ {w} : row'[v] = row[v]
  <2>1. Rule \in Rules /\ (hf => Rule # "plain")
    BY DEF Rule, Rules
  <2>2. [v \in Lanes |-> shared[v].k] = Single(scan.base + lane[w].t)
    BY <1>6 DEF Single
  <2>3. row' = [row EXCEPT ![w] = Append(row[w], Absorbed(Single(scan.base + lane[w].t), Rule))]
    BY <2>2 DEF GdnAbsorb
  <2>4. PICK n \in Nat : n = scan.base + lane[w].t
    BY <1>2
  <2>5. Hist(Append(row[w], Absorbed(Single(n), Rule)), n + 1, hf)
    BY <1>2, <1>3, <2>1, <2>4, HistAppend
  <2>6. Append(row[w], Absorbed(Single(n), Rule)) \in Seq(Token)
    BY <2>5 DEF Hist
  <2>7. row' = [row EXCEPT ![w] = Append(row[w], Absorbed(Single(n), Rule))]
    BY <2>3, <2>4
  <2> QED BY <1>5, <2>4, <2>5, <2>6, <2>7
<1>9. LaneOK(w)' /\ StateOK(w)' /\ Round(w)' = Round(w)
  BY <1>2, <1>3, <1>4, <1>7 DEF LaneOK, StateOK, Round, RoundOf, At, Is, Gdn, Mamba, Chunk
<1>10. RowOK(w)' /\ SharedOK(w)'
  <2>1. RowOK(w)'
    <3>1. At(0, "load")' => At(w, "load") \/ At(0, "load")
      BY <1>2, <1>4 DEF At
    <3> QED BY <1>1, <1>2, <1>3, <1>4, <1>7, <1>8, <3>1 DEF RowOK, At, Is
  <2>2. SharedOK(w)'
    BY <1>2, <1>3, <1>4, <1>7 DEF SharedOK, At, Is, Gdn, Mamba
  <2> QED BY <2>1, <2>2
<1>11. ScanOK'
  BY <1>1, <1>3, <1>4, <1>7, <1>8, <1>9, <1>10, OwnStep
<1>12. LinearTypeOK' /\ Rest' /\ OutputsOfOwnToken'
  BY <1>1, <1>4, <1>7, <1>8, Kept, KeptAnswers DEF LinearTypeOK, RowsInv
<1> QED BY <1>11, <1>12 DEF RowsInv

\* A warp reads its output: all rows and, but for gdn_prefill, all of q are of
\* its token.
LEMMA GdnReadOK ==
  ASSUME RowsInv, NEW w \in Lanes, GdnRead(w)
  PROVE  RowsInv'
<1>1. /\ scan # Idle /\ At(w, "read") /\ KeepIn
      /\ UNCHANGED <<shared, row, state>>
  BY AtWork DEF GdnRead, At
<1>2. /\ LaneOK(w) /\ RowOK(w) /\ SharedOK(w) /\ StateOK(w) /\ lane[w].t \in Nat /\ hf \in BOOLEAN
      /\ scan.base \in Nat /\ scan.m \in Nat \ {0} /\ 0 \in Lanes
      /\ \A v \in Lanes : Round(v) = Round(w)
  BY <1>1, WarpFacts
<1>3. /\ lane[w].at = "read" /\ lane[w].to = "read" /\ lane[w].t < scan.m /\ scan.fn \in Gdn
      /\ Hist(row[w], scan.base + lane[w].t + 1, hf)
      /\ shared[w].k = scan.base + lane[w].t /\ shared[w].q = scan.base + lane[w].t
  BY <1>1, <1>2, ScanTypes DEF LaneOK, At, Is, RowOK, SharedOK, Gdn, Mamba, Chunk
<1>4. ~Is("gdn_prefill") => scan.m = 1
  BY <1>1, <1>3, ScanTypes DEF RowsInv, Rest, Is, Gdn, Mamba, Chunk
<1>5. scan' = scan /\ hf' = hf /\ shared' = shared /\ row' = row /\ state' = state
  BY <1>1 DEF KeepIn
<1>6. At(0, "load") => lane[w].at = "load" \/ ~Is("gdn_decode_tma")
  BY <1>2 DEF RowOK, At
<1>7. /\ \A v \in Lanes \ {w} : lane'[v] = lane[v]
      /\ lane' \in [Lanes -> [at : Places, to : Places, t : Nat]]
      /\ LaneOK(w)' /\ RowOK(w)' /\ SharedOK(w)' /\ StateOK(w)' /\ Round(w)' = Round(w)
      /\ lane'[w].at # "load"
  <2>1. CASE ~Last(w)
    <3>1. /\ lane'[w] = [at |-> "stage", to |-> "stage", t |-> lane[w].t + 1]
          /\ \A v \in Lanes \ {w} : lane'[v] = lane[v]
          /\ lane' \in [Lanes -> [at : Places, to : Places, t : Nat]]
      <4>1. GoNext(w, [at |-> "stage", to |-> "stage"]) /\ "stage" \in Places
        BY <2>1 DEF GdnRead, Goto, Places
      <4> QED BY <1>1, <4>1, GoToNext
    <3>2. lane[w].t + 1 < scan.m
      BY <1>2, <1>3, <2>1 DEF Last
    <3>3. PICK k \in Nat : k = lane[w].t
      BY <1>2
    <3>4. Round(w) = 2 * k + 3
      BY <1>3, <3>3, RoundAt DEF Round, At
    <3>5. Round(w)' = Round(w)
      <4>1. RoundOf(scan.fn, "stage", k + 1) = 2 * (k + 1) + 1
        BY <3>3, RoundAt
      <4>2. Round(w)' = RoundOf(scan.fn, "stage", k + 1)
        BY <1>5, <3>1, <3>3 DEF Round, At
      <4> QED BY <3>4, <4>1, <4>2
    <3>6. LaneOK(w)' /\ StateOK(w)'
      BY <1>2, <1>3, <1>5, <3>1, <3>2 DEF LaneOK, StateOK, At, Is, Gdn, Mamba, Chunk
    <3>7. SharedOK(w)'
      BY <1>3, <1>5, <3>1 DEF SharedOK, At, Is, Gdn, Mamba
    <3>8. RowOK(w)'
      <4>1. scan.base + (lane[w].t + 1) = scan.base + lane[w].t + 1
        BY <1>2
      <4>2. At(0, "load")' => At(0, "load")
        BY <1>2, <3>1 DEF At
      <4> QED BY <1>3, <1>5, <1>6, <3>1, <4>1, <4>2 DEF RowOK, At, Is
    <3> QED BY <3>1, <3>5, <3>6, <3>7, <3>8
  <2>2. CASE Last(w)
    <3>1. PICK at \in {"bar", "save"} :
            /\ at = IF Is("gdn_decode_tma") THEN "bar" ELSE "save"
            /\ lane'[w] = [at |-> at, to |-> "save", t |-> lane[w].t]
            /\ \A v \in Lanes \ {w} : lane'[v] = lane[v]
            /\ lane' \in [Lanes -> [at : Places, to : Places, t : Nat]]
      <4> DEFINE at == IF Is("gdn_decode_tma") THEN "bar" ELSE "save"
      <4>1. Go(w, [at |-> at, to |-> "save"]) /\ at \in {"bar", "save"}
        <5>1. CASE Is("gdn_decode_tma")
          BY <2>2, <5>1 DEF GdnRead, Bar
        <5>2. CASE ~Is("gdn_decode_tma")
          BY <2>2, <5>2 DEF GdnRead, Goto
        <5> QED BY <5>1, <5>2
      <4> HIDE DEF at
      <4>2. at \in Places /\ "save" \in Places
        BY <4>1 DEF Places
      <4>3. /\ lane'[w] = [at |-> at, to |-> "save", t |-> lane[w].t]
            /\ \A v \in Lanes \ {w} : lane'[v] = lane[v]
            /\ lane' \in [Lanes -> [at : Places, to : Places, t : Nat]]
        BY <1>1, <4>1, <4>2, GoTo
      <4> QED BY <4>1, <4>3 DEF at
    <3>2. lane[w].t + 1 = scan.m
      BY <2>2 DEF Last
    <3>3. PICK k \in Nat : k = lane[w].t
      BY <1>2
    <3>4. Round(w) = 2 * k + 3
      BY <1>3, <3>3, RoundAt DEF Round, At
    <3>5. Round(w)' = Round(w)
      <4>1. RoundOf(scan.fn, "save", k) = IF scan.fn = "gdn_decode_tma" THEN 4 ELSE 2 * k + 3
        BY <3>3, RoundAt
      <4>2. CASE Is("gdn_decode_tma")
        <5>1. k = 0
          BY <1>4, <3>2, <3>3, <4>2 DEF Is
        <5> QED BY <1>5, <3>1, <3>3, <3>4, <4>1, <4>2, <5>1 DEF Round, At, Is
      <4>3. CASE ~Is("gdn_decode_tma")
        BY <1>5, <3>1, <3>3, <3>4, <4>1, <4>3 DEF Round, At, Is
      <4> QED BY <4>2, <4>3
    <3>6. LaneOK(w)' /\ StateOK(w)'
      BY <1>2, <1>3, <1>5, <3>1, <3>2 DEF LaneOK, StateOK, At, Is, Gdn, Mamba, Chunk
    <3>7. SharedOK(w)'
      BY <1>3, <1>5, <3>1 DEF SharedOK, At, Is, Gdn, Mamba
    <3>8. RowOK(w)'
      <4>1. At(0, "load")' => At(0, "load")
        BY <1>2, <3>1 DEF At
      <4> QED BY <1>3, <1>5, <1>6, <3>1, <4>1 DEF RowOK, At, Is
    <3> QED BY <3>1, <3>5, <3>6, <3>7, <3>8
  <2> QED BY <2>1, <2>2
<1>8. ScanOK'
  <2>1. lane[w].at # "load"
    BY <1>3
  <2> QED BY <1>1, <1>5, <1>7, <2>1, OwnStep
<1>9. OutputsOfOwnToken'
  <2> SUFFICES ASSUME ~Is("gdn_prefill"), NEW x \in DOMAIN answers' PROVE OwnToken(x)'
    BY <1>5 DEF OutputsOfOwnToken, Is
  <2>1. lane[w].t = 0
    BY <1>2, <1>3, <1>4
  <2>2. PICK n \in Nat : n = scan.base
    BY <1>2
  <2>3. ASSUME NEW v \in Lanes PROVE shared[v].q = n
    <3>1. LaneOK(v) /\ SharedOK(v) /\ lane[v].t \in Nat /\ Round(v) = Round(w)
      BY <1>1, <1>2, WarpFacts
    <3>2. Round(w) = 3
      <4>1. RoundOf(scan.fn, "read", 0) = 2 * 0 + 3
        BY RoundAt
      <4> QED BY <1>3, <2>1, <4>1 DEF Round, At
    <3>3. lane[v].t = 0 /\ lane[v].to \in {"load", "stage", "absorb", "read", "save", "exit"}
      BY <1>3, <1>4, <3>1 DEF LaneOK
    <3>4. lane[v].to \notin {"load", "stage"}
      <4>1. RoundOf(scan.fn, "load", 0) \in {0, 1} /\ RoundOf(scan.fn, "stage", 0) = 2 * 0 + 1
        BY RoundAt
      <4> QED BY <3>1, <3>2, <3>3, <4>1 DEF Round, At
    <3>5. n + 0 = n
      OBVIOUS
    <3> QED BY <1>3, <2>2, <3>1, <3>3, <3>4, <3>5 DEF SharedOK, Gdn, Mamba
  <2> DEFINE y == <<n, w>>
             r == [rows |-> Only(w, row[w]), q |-> [v \in Lanes |-> shared[v].q]]
  <2>4. answers' = Written(Only(y, r), answers)
    <3>1. Now(w) = n
      BY <2>1, <2>2 DEF Now
    <3> QED BY <3>1 DEF GdnRead
  <2>5. r.q = Single(n) /\ DOMAIN r.rows = {w} /\ r.rows[w] = row[w] /\ y[1] = n
    BY <2>3 DEF Single, Only
  <2> HIDE DEF y, r
  <2>6. CASE x = y
    <3>1. answers'[x] = r
      BY <2>4, <2>6 DEF Written, Only
    <3>2. InOrder(row[w], n + 1)
      <4>1. scan.base + lane[w].t + 1 = n + 1
        BY <2>1, <2>2
      <4> QED BY <1>3, <4>1 DEF Hist
    <3> QED BY <2>5, <2>6, <3>1, <3>2 DEF OwnToken
  <2>7. CASE x # y
    <3>1. x \in DOMAIN answers /\ answers'[x] = answers[x]
      BY <2>4, <2>7 DEF Written, Only
    <3>2. OwnToken(x)
      BY <3>1 DEF RowsInv, OutputsOfOwnToken
    <3> QED BY <3>1, <3>2 DEF OwnToken
  <2> QED BY <2>6, <2>7
<1>10. LinearTypeOK' /\ Rest'
  BY <1>1, <1>5, <1>7, Kept DEF LinearTypeOK, RowsInv
<1> QED BY <1>8, <1>9, <1>10 DEF RowsInv

\* A warp stores its rows, or with TMA any warp the whole tile after the last has
\* arrived.
LEMMA GdnSaveOK ==
  ASSUME RowsInv, NEW w \in Lanes, GdnSave(w)
  PROVE  RowsInv'
<1>1. /\ scan # Idle /\ At(w, "save") /\ KeepIn
      /\ UNCHANGED <<shared, row, answers>>
  BY AtWork DEF GdnSave, At
<1>2. /\ LaneOK(w) /\ RowOK(w) /\ SharedOK(w) /\ StateOK(w) /\ lane[w].t \in Nat /\ hf \in BOOLEAN
      /\ scan.base \in Nat /\ scan.m \in Nat \ {0} /\ 0 \in Lanes
      /\ \A v \in Lanes : Round(v) = Round(w)
  BY <1>1, WarpFacts
<1>3. /\ lane[w].at = "save" /\ lane[w].to = "save" /\ lane[w].t + 1 = scan.m /\ scan.fn \in Gdn
      /\ Hist(row[w], scan.base + lane[w].t + 1, hf)
      /\ shared[w].k = scan.base + lane[w].t /\ shared[w].q = scan.base + lane[w].t
  BY <1>1, <1>2, ScanTypes DEF LaneOK, At, Is, RowOK, SharedOK, Gdn, Mamba, Chunk
<1>4. /\ lane'[w] = [at |-> "exit", to |-> "exit", t |-> lane[w].t]
      /\ \A v \in Lanes \ {w} : lane'[v] = lane[v]
      /\ lane' \in [Lanes -> [at : Places, to : Places, t : Nat]]
  <2>1. Go(w, [at |-> "exit", to |-> "exit"]) /\ "exit" \in Places
    BY DEF GdnSave, Goto, Places
  <2> QED BY <1>1, <2>1, GoTo
<1>5. scan' = scan /\ hf' = hf /\ shared' = shared /\ row' = row
  BY <1>1 DEF KeepIn
<1>6. row \in [Lanes -> Seq(Token)] /\ state \in [Lanes -> Seq(Token)]
  BY DEF RowsInv, LinearTypeOK
<1>7. state' \in [Lanes -> Seq(Token)] /\ state'[w] = row[w]
  <2>1. CASE Is("gdn_decode_tma")
    BY <1>6, <2>1 DEF GdnSave
  <2>2. CASE ~Is("gdn_decode_tma")
    BY <1>6, <2>2 DEF GdnSave
  <2> QED BY <2>1, <2>2
<1>8. scan.base + lane[w].t + 1 = scan.base + scan.m
  BY <1>2, <1>3
<1>9. LaneOK(w)' /\ SharedOK(w)' /\ StateOK(w)'
  <2>1. LaneOK(w)'
    BY <1>2, <1>3, <1>4, <1>5 DEF LaneOK, At, Is, Gdn, Mamba, Chunk
  <2>2. SharedOK(w)'
    BY <1>3, <1>4, <1>5 DEF SharedOK, At, Is, Gdn, Mamba
  <2>3. StateOK(w)'
    BY <1>3, <1>4, <1>5, <1>7, <1>8 DEF StateOK, Is
  <2> QED BY <2>1, <2>2, <2>3
<1>10. Is("gdn_decode_tma") => lane[w].t = 0 /\ scan.m = 1
  BY <1>1, <1>2, <1>3 DEF RowsInv, Rest, Is, Gdn, Mamba, Chunk
<1>11. RowOK(w)'
  <2>1. At(0, "load") => ~Is("gdn_decode_tma")
    BY <1>2, <1>3 DEF RowOK, At
  <2>2. At(0, "load")' => At(0, "load")
    BY <1>2, <1>4 DEF At
  <2>3. Is("gdn_decode_tma") => scan.base + lane[w].t + 1 = scan.base + 1
    BY <1>2, <1>10
  <2> QED BY <1>3, <1>4, <1>5, <2>1, <2>2, <2>3 DEF RowOK, At, Is
<1>12. Round(w)' = Round(w)
  <2>1. PICK k \in Nat : k = lane[w].t
    BY <1>2
  <2>2. /\ RoundOf(scan.fn, "save", k) = IF scan.fn = "gdn_decode_tma" THEN 4 ELSE 2 * k + 3
        /\ RoundOf(scan.fn, "exit", k) = IF scan.fn = "gdn_decode_tma" THEN 4 ELSE 2 * k + 3
    BY <1>3, <2>1, RoundAt
  <2> QED BY <1>3, <1>4, <1>5, <2>1, <2>2 DEF Round, At
<1>13. ScanOK'
  <2>1. CASE ~Is("gdn_decode_tma")
    <3>1. \A v \in Lanes \ {w} : state'[v] = state[v]
      <4>1. state' = [state EXCEPT ![w] = row[w]]
        BY <2>1 DEF GdnSave
      <4> QED BY <1>6, <4>1
    <3>2. lane'[w].at # "load"
      BY <1>4
    <3> QED BY <1>1, <1>4, <1>5, <1>9, <1>11, <1>12, <2>1, <3>1, <3>2, OwnStep
  \* Behind the last bar.sync every row is complete, whoever saves it.
  <2>2. CASE Is("gdn_decode_tma")
    <3>1. state' = row
      BY <2>2 DEF GdnSave
    <3>2. ASSUME NEW v \in Lanes \ {w}
          PROVE  LaneOK(v)' /\ SharedOK(v)' /\ StateOK(v)' /\ RowOK(v)' /\ Round(v)' = Round(v)
      <4>1. LaneOK(v) /\ SharedOK(v) /\ RowOK(v) /\ lane'[v] = lane[v] /\ lane[v].t \in Nat /\ Round(v) = Round(w)
        BY <1>1, <1>2, <1>4, <3>2, WarpFacts
      <4>2. LaneOK(v)' /\ SharedOK(v)' /\ Round(v)' = Round(v)
        BY <4>1, <1>5 DEF LaneOK, SharedOK, Round, At, Is
      <4>3. Round(w) = 4
        <5>1. RoundOf(scan.fn, "save", 0) = 4
          BY <2>2, RoundAt DEF Is
        <5> QED BY <1>3, <1>10, <2>2, <5>1 DEF Round, At
      <4>4. lane[v].to \in {"save", "exit"}
        <5>1. PICK i \in Nat : i = lane[v].t
          BY <4>1
        <5>2. lane[v].to \in {"load", "stage", "absorb", "read", "save", "exit"}
          BY <1>3, <4>1 DEF LaneOK
        <5>3. lane[v].to \in {"load", "stage", "absorb", "read"} => i = 0
          BY <1>10, <2>2, <4>1, <5>1 DEF LaneOK
        <5>4. /\ RoundOf(scan.fn, "load", 0) \in {0, 1} /\ RoundOf(scan.fn, "stage", 0) = 2 * 0 + 1
              /\ RoundOf(scan.fn, "absorb", 0) = 2 * 0 + 2 /\ RoundOf(scan.fn, "read", 0) = 2 * 0 + 3
          BY RoundAt
        <5> QED BY <4>1, <4>3, <5>1, <5>2, <5>3, <5>4 DEF Round
      <4>5. Hist(row[v], scan.base + 1, hf)
        <5>1. lane[v].to = "save" => scan.base + lane[v].t + 1 = scan.base + 1
          BY <1>2, <1>10, <2>2, <4>1 DEF LaneOK
        <5> QED BY <2>2, <4>1, <4>4, <5>1 DEF RowOK
      <4>6. StateOK(v)'
        BY <1>5, <1>10, <2>2, <3>1, <4>1, <4>4, <4>5 DEF StateOK, Is
      <4>7. RowOK(v)'
        <5>1. At(0, "load")' <=> At(0, "load")
          <6>1. CASE w = 0
            BY <1>3, <1>4, <6>1 DEF At
          <6>2. CASE w # 0
            BY <1>2, <1>4, <6>2 DEF At
          <6> QED BY <6>1, <6>2
        <5> QED BY <1>5, <4>1, <5>1 DEF RowOK, At, Is
      <4> QED BY <4>2, <4>6, <4>7
    <3>3. \A v \in Lanes : Round(v)' = Round(v)
      BY <3>2, <1>12
    <3>4. (\A v, u \in Lanes : Round(v) = Round(u))'
      BY <1>1, <3>3 DEF RowsInv, ScanOK
    <3> QED BY <1>9, <1>11, <3>2, <3>4 DEF ScanOK
  <2> QED BY <2>1, <2>2
<1>14. LinearTypeOK' /\ Rest' /\ OutputsOfOwnToken'
  BY <1>1, <1>4, <1>5, <1>7, Kept, KeptAnswers DEF LinearTypeOK, RowsInv
<1> QED BY <1>13, <1>14 DEF RowsInv

\* A warp of Mamba2 takes its rows to registers.
LEMMA MambaLoadOK ==
  ASSUME RowsInv, NEW w \in Lanes, MambaLoad(w)
  PROVE  RowsInv'
<1>1. /\ scan # Idle /\ At(w, "h") /\ KeepIn
      /\ UNCHANGED <<shared, state, answers>>
  BY AtWork DEF MambaLoad, At
<1>2. /\ LaneOK(w) /\ RowOK(w) /\ SharedOK(w) /\ StateOK(w) /\ lane[w].t \in Nat /\ hf \in BOOLEAN
      /\ scan.base \in Nat /\ scan.m \in Nat \ {0} /\ 0 \in Lanes
  BY <1>1, WarpFacts
<1>3. /\ lane[w].at = "h" /\ lane[w].to = "h" /\ lane[w].t = 0 /\ scan.fn \in Mamba
      /\ Hist(state[w], scan.base, hf)
  BY <1>1, <1>2, ScanTypes DEF LaneOK, At, Is, StateOK, Gdn, Mamba, Chunk
<1>4. /\ lane'[w] = [at |-> "update", to |-> "update", t |-> lane[w].t]
      /\ \A v \in Lanes \ {w} : lane'[v] = lane[v]
      /\ lane' \in [Lanes -> [at : Places, to : Places, t : Nat]]
  <2>1. Go(w, [at |-> "update", to |-> "update"]) /\ "update" \in Places
    BY DEF MambaLoad, Goto, Places
  <2> QED BY <1>1, <2>1, GoTo
<1>5. scan' = scan /\ hf' = hf /\ shared' = shared /\ state' = state
  BY <1>1 DEF KeepIn
<1>6. row \in [Lanes -> Seq(Token)] /\ state \in [Lanes -> Seq(Token)]
  BY DEF RowsInv, LinearTypeOK
<1>7. /\ row' \in [Lanes -> Seq(Token)] /\ row'[w] = state[w]
      /\ \A v \in Lanes \ {w} : row'[v] = row[v]
  BY <1>6 DEF MambaLoad
<1>8. LaneOK(w)' /\ SharedOK(w)' /\ StateOK(w)'
  BY <1>2, <1>3, <1>4, <1>5 DEF LaneOK, SharedOK, StateOK, At, Is, Gdn, Mamba, Chunk
<1>9. RowOK(w)'
  <2>1. scan.base + lane[w].t = scan.base
    BY <1>2, <1>3
  <2> QED BY <1>3, <1>4, <1>5, <1>7, <2>1 DEF RowOK, At, Is, Mamba
<1>10. Round(w)' = Round(w)
  <2>1. RoundOf(scan.fn, "h", 0) = 0 /\ RoundOf(scan.fn, "update", 0) = 2 * 0
    BY RoundAt
  <2> QED BY <1>3, <1>4, <1>5, <2>1 DEF Round, At
<1>11. ScanOK'
  <2>1. lane[w].at # "load" /\ lane'[w].at # "load"
    BY <1>3, <1>4
  <2> QED BY <1>1, <1>4, <1>5, <1>7, <1>8, <1>9, <1>10, <2>1, OwnStep
<1>12. LinearTypeOK' /\ Rest' /\ OutputsOfOwnToken'
  BY <1>1, <1>4, <1>5, <1>7, Kept, KeptAnswers DEF LinearTypeOK, RowsInv
<1> QED BY <1>11, <1>12 DEF RowsInv

\* A warp of Mamba2 absorbs its token and leaves its share of y.
LEMMA MambaUpdateOK ==
  ASSUME RowsInv, NEW w \in Lanes, MambaUpdate(w)
  PROVE  RowsInv'
<1>1. /\ scan # Idle /\ At(w, "update") /\ KeepIn
      /\ answers' = answers
  BY AtWork DEF MambaUpdate, At
<1>2. /\ LaneOK(w) /\ RowOK(w) /\ SharedOK(w) /\ StateOK(w) /\ lane[w].t \in Nat /\ hf \in BOOLEAN
      /\ scan.base \in Nat /\ scan.m \in Nat \ {0} /\ 0 \in Lanes
  BY <1>1, WarpFacts
<1>3. /\ lane[w].at = "update" /\ lane[w].to = "update" /\ lane[w].t < scan.m /\ scan.fn \in Mamba
      /\ Hist(row[w], scan.base + lane[w].t, hf)
  BY <1>1, <1>2, ScanTypes DEF LaneOK, At, Is, RowOK, Gdn, Mamba, Chunk
<1>4. /\ lane'[w] = [at |-> "bar", to |-> "sum", t |-> lane[w].t]
      /\ \A v \in Lanes \ {w} : lane'[v] = lane[v]
      /\ lane' \in [Lanes -> [at : Places, to : Places, t : Nat]]
  <2>1. Go(w, [at |-> "bar", to |-> "sum"]) /\ "bar" \in Places /\ "sum" \in Places
    BY DEF MambaUpdate, Bar, Places
  <2> QED BY <1>1, <2>1, GoTo
<1>5. scan' = scan /\ hf' = hf
  BY <1>1 DEF KeepIn
<1>6. PICK n \in Nat : n = scan.base + lane[w].t
  BY <1>2
<1>7. PICK h \in Seq(Token) : h = Append(row[w], Absorbed(Single(n), "decayed")) /\ Hist(h, n + 1, hf)
  <2>1. Hist(Append(row[w], Absorbed(Single(n), "decayed")), n + 1, hf)
    BY <1>2, <1>3, <1>6, HistAppend DEF Rules
  <2> QED BY <2>1 DEF Hist
<1>8. /\ row \in [Lanes -> Seq(Token)] /\ state \in [Lanes -> Seq(Token)]
      /\ shared \in [Lanes -> [k : Int, q : Int, part : Seq(Token)]]
  BY DEF RowsInv, LinearTypeOK
<1>9. /\ row' = [row EXCEPT ![w] = h]
      /\ state' = IF scan.fn \in Prefills THEN state ELSE [state EXCEPT ![w] = h]
      /\ shared' = [shared EXCEPT ![w].part = h]
  <2>1. Now(w) = n
    BY <1>6 DEF Now
  <2> QED BY <1>7, <2>1 DEF MambaUpdate
<1>10. /\ row' \in [Lanes -> Seq(Token)] /\ row'[w] = h
       /\ \A v \in Lanes \ {w} : row'[v] = row[v] /\ state'[v] = state[v] /\ shared'[v] = shared[v]
       /\ state' \in [Lanes -> Seq(Token)]
       /\ Is("mamba2_selective_scan_decode") => state'[w] = h
       /\ shared' \in [Lanes -> [k : Int, q : Int, part : Seq(Token)]] /\ shared'[w].part = h
  <2>1. /\ state' \in [Lanes -> Seq(Token)] /\ \A v \in Lanes \ {w} : state'[v] = state[v]
        /\ Is("mamba2_selective_scan_decode") => state'[w] = h
    BY <1>8, <1>9 DEF Is, Prefills
  <2>2. /\ shared' \in [Lanes -> [k : Int, q : Int, part : Seq(Token)]] /\ shared'[w].part = h
        /\ \A v \in Lanes \ {w} : shared'[v] = shared[v]
    BY <1>8, <1>9
  <2> QED BY <1>8, <1>9, <2>1, <2>2
<1>11. LaneOK(w)'
  BY <1>2, <1>3, <1>4, <1>5 DEF LaneOK, At, Is, Gdn, Mamba, Chunk
<1>12. RowOK(w)' /\ SharedOK(w)'
  <2>1. scan.base + lane[w].t + 1 = n + 1
    BY <1>6
  <2>2. RowOK(w)'
    BY <1>3, <1>4, <1>5, <1>7, <1>10, <2>1 DEF RowOK, At, Is, Mamba
  <2>3. SharedOK(w)'
    BY <1>3, <1>4, <1>5, <1>7, <1>10, <2>1 DEF SharedOK, At, Is, Mamba
  <2> QED BY <2>2, <2>3
<1>13. StateOK(w)'
  <2>1. Is("mamba2_selective_scan_decode") => scan.base + 1 = n + 1
    BY <1>1, <1>2, <1>3, <1>6 DEF RowsInv, Rest
  <2>2. CASE Is("mamba2_selective_scan_decode")
    <3>1. Hist(state'[w], scan.base + 1, hf)
      BY <1>7, <1>10, <2>1, <2>2
    <3> QED BY <1>4, <1>5, <3>1 DEF StateOK
  <2>3. CASE ~Is("mamba2_selective_scan_decode")
    BY <1>4, <1>5, <2>3 DEF StateOK, Is
  <2> QED BY <2>2, <2>3
<1>14. Round(w)' = Round(w)
  <2>1. PICK k \in Nat : k = lane[w].t
    BY <1>2
  <2>2. RoundOf(scan.fn, "update", k) = 2 * k /\ RoundOf(scan.fn, "sum", k) = 2 * k + 1
    BY <2>1, RoundAt
  <2>3. Round(w) = 2 * k /\ Round(w)' = 2 * k + 1 - 1
    BY <1>3, <1>4, <1>5, <2>1, <2>2 DEF Round, At
  <2> QED BY <2>3
<1>15. ScanOK'
  <2>1. lane[w].at # "load" /\ lane'[w].at # "load"
    BY <1>3, <1>4
  <2> QED BY <1>1, <1>4, <1>10, <1>11, <1>12, <1>13, <1>14, <2>1, OwnStep
<1>16. LinearTypeOK' /\ Rest' /\ OutputsOfOwnToken'
  BY <1>1, <1>4, <1>10, Kept, KeptAnswers DEF LinearTypeOK, RowsInv
<1> QED BY <1>15, <1>16 DEF RowsInv

\* A warp of Mamba2 stores its rows at the end of a prefill.
LEMMA MambaSaveOK ==
  ASSUME RowsInv, NEW w \in Lanes, MambaSave(w)
  PROVE  RowsInv'
<1>1. /\ scan # Idle /\ At(w, "h_out") /\ KeepIn
      /\ UNCHANGED <<shared, row, answers>>
  BY AtWork DEF MambaSave, At
<1>2. /\ LaneOK(w) /\ RowOK(w) /\ SharedOK(w) /\ StateOK(w) /\ lane[w].t \in Nat /\ hf \in BOOLEAN
      /\ scan.base \in Nat /\ scan.m \in Nat \ {0} /\ 0 \in Lanes
  BY <1>1, WarpFacts
<1>3. /\ lane[w].at = "h_out" /\ lane[w].to = "h_out" /\ lane[w].t = scan.m
      /\ Is("mamba2_selective_scan_prefill") /\ Hist(row[w], scan.base + scan.m, hf)
  BY <1>1, <1>2, ScanTypes DEF LaneOK, At, Is, RowOK, Gdn, Mamba, Chunk
<1>4. /\ lane'[w] = [at |-> "exit", to |-> "exit", t |-> lane[w].t]
      /\ \A v \in Lanes \ {w} : lane'[v] = lane[v]
      /\ lane' \in [Lanes -> [at : Places, to : Places, t : Nat]]
  <2>1. Go(w, [at |-> "exit", to |-> "exit"]) /\ "exit" \in Places
    BY DEF MambaSave, Goto, Places
  <2> QED BY <1>1, <2>1, GoTo
<1>5. scan' = scan /\ hf' = hf /\ shared' = shared /\ row' = row
  BY <1>1 DEF KeepIn
<1>6. row \in [Lanes -> Seq(Token)] /\ state \in [Lanes -> Seq(Token)]
  BY DEF RowsInv, LinearTypeOK
<1>7. /\ state' \in [Lanes -> Seq(Token)] /\ state'[w] = row[w]
      /\ \A v \in Lanes \ {w} : state'[v] = state[v]
  BY <1>6 DEF MambaSave
<1>8. LaneOK(w)' /\ SharedOK(w)' /\ StateOK(w)' /\ RowOK(w)'
  <2>1. LaneOK(w)' /\ SharedOK(w)'
    BY <1>2, <1>3, <1>4, <1>5 DEF LaneOK, SharedOK, At, Is, Gdn, Mamba, Chunk
  <2>2. StateOK(w)' /\ RowOK(w)'
    BY <1>3, <1>4, <1>5, <1>7 DEF StateOK, RowOK, At, Is
  <2> QED BY <2>1, <2>2
<1>9. Round(w)' = Round(w)
  <2>1. PICK k \in Nat : k = lane[w].t
    BY <1>2
  <2>2. RoundOf(scan.fn, "h_out", k) = 2 * k /\ RoundOf(scan.fn, "exit", k) = 2 * k
    BY <1>3, <2>1, RoundAt DEF Is, Gdn
  <2> QED BY <1>3, <1>4, <1>5, <2>1, <2>2 DEF Round, At
<1>10. ScanOK'
  <2>1. lane[w].at # "load" /\ lane'[w].at # "load"
    BY <1>3, <1>4
  <2> QED BY <1>1, <1>4, <1>5, <1>7, <1>8, <1>9, <2>1, OwnStep
<1>11. LinearTypeOK' /\ Rest' /\ OutputsOfOwnToken'
  BY <1>1, <1>4, <1>5, <1>7, Kept, KeptAnswers DEF LinearTypeOK, RowsInv
<1> QED BY <1>10, <1>11 DEF RowsInv

\* Warp 0 adds up the shares of y: all are of its token.
LEMMA MambaSumOK ==
  ASSUME RowsInv, NEW w \in Lanes, MambaSum(w)
  PROVE  RowsInv'
<1>1. /\ scan # Idle /\ At(w, "sum") /\ KeepIn /\ MambaSumUp(w)
      /\ UNCHANGED <<shared, row, state>>
  BY AtWork DEF MambaSum, At
<1>2. /\ LaneOK(w) /\ RowOK(w) /\ SharedOK(w) /\ StateOK(w) /\ lane[w].t \in Nat /\ hf \in BOOLEAN
      /\ scan.base \in Nat /\ scan.m \in Nat \ {0} /\ 0 \in Lanes
      /\ \A v \in Lanes : Round(v) = Round(w)
  BY <1>1, WarpFacts
<1>3. /\ lane[w].at = "sum" /\ lane[w].to = "sum" /\ lane[w].t < scan.m /\ scan.fn \in Mamba
      /\ Hist(row[w], scan.base + lane[w].t + 1, hf)
      /\ Hist(shared[w].part, scan.base + lane[w].t + 1, hf)
      /\ Is("mamba2_selective_scan_decode") => Hist(state[w], scan.base + 1, hf)
  BY <1>1, <1>2, ScanTypes DEF LaneOK, At, Is, RowOK, SharedOK, StateOK, Gdn, Mamba, Chunk
<1>4. scan' = scan /\ hf' = hf /\ shared' = shared /\ row' = row /\ state' = state
  BY <1>1 DEF KeepIn
<1>5. PICK k \in Nat : k = lane[w].t
  BY <1>2
<1>6. Round(w) = 2 * k + 1
  <2>1. RoundOf(scan.fn, "sum", k) = 2 * k + 1
    BY RoundAt
  <2> QED BY <1>3, <1>5, <2>1 DEF Round, At
<1>7. /\ \A v \in Lanes \ {w} : lane'[v] = lane[v]
      /\ lane' \in [Lanes -> [at : Places, to : Places, t : Nat]]
      /\ LaneOK(w)' /\ RowOK(w)' /\ SharedOK(w)' /\ StateOK(w)' /\ Round(w)' = Round(w)
      /\ lane'[w].at # "load"
  <2>1. CASE Is("mamba2_selective_scan_decode")
    <3>1. /\ lane'[w] = [at |-> "exit", to |-> "exit", t |-> lane[w].t]
          /\ \A v \in Lanes \ {w} : lane'[v] = lane[v]
          /\ lane' \in [Lanes -> [at : Places, to : Places, t : Nat]]
      <4>1. Go(w, [at |-> "exit", to |-> "exit"]) /\ "exit" \in Places
        BY <2>1 DEF MambaSum, Goto, Places, Prefills, Is
      <4> QED BY <1>1, <4>1, GoTo
    <3>2. scan.m = 1 /\ lane[w].t = 0
      BY <1>1, <1>2, <1>3, <2>1 DEF RowsInv, Rest
    <3>3. LaneOK(w)'
      BY <1>3, <1>4, <2>1, <3>1, <3>2 DEF LaneOK, At, Is, Gdn, Mamba, Chunk
    <3>4. SharedOK(w)' /\ RowOK(w)'
      BY <1>3, <1>4, <2>1, <3>1 DEF SharedOK, RowOK, At, Is, Mamba
    <3>5. StateOK(w)'
      BY <1>3, <1>4, <2>1, <3>1, <3>2 DEF StateOK, Is
    <3>6. Round(w)' = Round(w)
      <4>1. RoundOf(scan.fn, "exit", 0) = 1
        BY <2>1, RoundAt DEF Is, Gdn
      <4>2. k = 0 /\ 2 * 0 + 1 = 1
        BY <1>5, <3>2
      <4> QED BY <1>4, <1>6, <3>1, <3>2, <4>1, <4>2 DEF Round, At
    <3> QED BY <3>1, <3>3, <3>4, <3>5, <3>6
  <2>2. CASE Is("mamba2_selective_scan_prefill")
    <3>1. PICK to \in {"h_out", "update"} :
            /\ to = IF Last(w) THEN "h_out" ELSE "update"
            /\ lane'[w] = [at |-> "bar", to |-> to, t |-> lane[w].t + 1]
            /\ \A v \in Lanes \ {w} : lane'[v] = lane[v]
            /\ lane' \in [Lanes -> [at : Places, to : Places, t : Nat]]
      <4> DEFINE to == IF Last(w) THEN "h_out" ELSE "update"
      <4>1. GoNext(w, [at |-> "bar", to |-> to]) /\ to \in {"h_out", "update"}
        BY <2>2 DEF MambaSum, Bar, Prefills, Is
      <4> HIDE DEF to
      <4>2. "bar" \in Places /\ to \in Places
        BY <4>1 DEF Places
      <4>3. /\ lane'[w] = [at |-> "bar", to |-> to, t |-> lane[w].t + 1]
            /\ \A v \in Lanes \ {w} : lane'[v] = lane[v]
            /\ lane' \in [Lanes -> [at : Places, to : Places, t : Nat]]
        BY <1>1, <4>1, <4>2, GoToNext
      <4> QED BY <4>1, <4>3 DEF to
    <3>2. /\ to = "h_out" => lane[w].t + 1 = scan.m
          /\ to = "update" => lane[w].t + 1 < scan.m
      BY <1>2, <1>3, <3>1 DEF Last
    <3>3. LaneOK(w)'
      BY <1>2, <1>4, <2>2, <3>1, <3>2 DEF LaneOK, At, Is, Gdn, Mamba, Chunk
    <3>4. SharedOK(w)' /\ RowOK(w)'
      <4>1. scan.base + (lane[w].t + 1) = scan.base + lane[w].t + 1
        BY <1>2
      <4> QED BY <1>3, <1>4, <2>2, <3>1, <4>1 DEF SharedOK, RowOK, At, Is, Mamba
    <3>5. StateOK(w)'
      BY <1>4, <2>2, <3>1 DEF StateOK, Is
    <3>6. Round(w)' = Round(w)
      <4>1. RoundOf(scan.fn, to, k + 1) = 2 * (k + 1)
        BY <3>1, RoundAt
      <4>2. Round(w)' = RoundOf(scan.fn, to, k + 1) - 1
        BY <1>4, <1>5, <3>1 DEF Round, At
      <4> QED BY <1>6, <4>1, <4>2
    <3> QED BY <3>1, <3>3, <3>4, <3>5, <3>6
  <2> QED BY <1>3, <2>1, <2>2 DEF Is, Mamba
<1>8. ScanOK'
  <2>1. lane[w].at # "load"
    BY <1>3
  <2> QED BY <1>1, <1>4, <1>7, <2>1, OwnStep
\* Each share in the sum is of this token: who has gone on waits at the bar.sync.
<1>9. ASSUME NEW v \in Lanes PROVE Hist(shared[v].part, scan.base + k + 1, hf)
  <2>1. LaneOK(v) /\ SharedOK(v) /\ lane[v].t \in Nat /\ Round(v) = Round(w)
    BY <1>1, <1>2, WarpFacts
  <2>2. PICK i \in Nat : i = lane[v].t
    BY <2>1
  <2>3. lane[v].to \in {"h", "update", "sum", "h_out", "exit"}
    BY <1>3, <2>1 DEF LaneOK, Is, Gdn, Mamba
  <2>4. CASE lane[v].to = "sum"
    <3>1. i = k
      <4>1. RoundOf(scan.fn, "sum", i) = 2 * i + 1
        BY RoundAt
      <4>2. Round(v) = 2 * i + 1 \/ Round(v) = 2 * i
        BY <2>2, <2>4, <4>1 DEF Round
      <4> QED BY <1>6, <2>1, <4>2, RoundParity
    <3> QED BY <2>1, <2>2, <2>4, <3>1 DEF SharedOK
  <2>5. CASE lane[v].to \in {"update", "h_out"}
    <3>1. RoundOf(scan.fn, lane[v].to, i) = 2 * i
      BY <2>5, RoundAt
    <3>2. Round(v) = IF At(v, "bar") THEN 2 * i - 1 ELSE 2 * i
      BY <2>2, <3>1 DEF Round
    <3>3. At(v, "bar") /\ i = k + 1
      BY <1>6, <2>1, <3>2, RoundParity
    <3>4. scan.base + lane[v].t = scan.base + k + 1
      BY <1>2, <2>2, <3>3
    <3> QED BY <2>1, <2>5, <3>3, <3>4 DEF SharedOK
  <2>6. CASE lane[v].to = "h"
    <3>1. RoundOf(scan.fn, "h", i) = 0
      BY RoundAt
    <3>2. Round(v) = 0 \/ Round(v) = -1
      BY <2>2, <2>6, <3>1 DEF Round
    <3> QED BY <1>6, <2>1, <3>2
  <2>7. CASE lane[v].to = "exit" /\ Is("mamba2_selective_scan_decode")
    <3>1. k = 0 /\ i = 0
      BY <1>1, <1>2, <1>3, <1>5, <2>1, <2>2, <2>7 DEF LaneOK, RowsInv, Rest, Is
    <3> QED BY <2>1, <2>2, <2>7, <3>1 DEF SharedOK
  <2>8. CASE lane[v].to = "exit" /\ ~Is("mamba2_selective_scan_decode")
    <3>1. RoundOf(scan.fn, "exit", i) = 2 * i /\ ~At(v, "bar")
      BY <1>3, <2>1, <2>8, RoundAt DEF LaneOK, Is, Mamba, Gdn
    <3>2. Round(v) = 2 * i
      BY <2>2, <2>8, <3>1 DEF Round
    <3> QED BY <1>6, <2>1, <3>2, RoundParity
  <2> QED BY <2>3, <2>4, <2>5, <2>6, <2>7, <2>8
<1>10. OutputsOfOwnToken'
  <2>1. ~Is("gdn_prefill") /\ ~Is("gdn_prefill")'
    BY <1>3, <1>4 DEF Is, Mamba
  <2> SUFFICES ASSUME NEW x \in DOMAIN answers' PROVE OwnToken(x)'
    BY DEF OutputsOfOwnToken
  <2>2. PICK n \in Nat : n = scan.base + k
    BY <1>2
  <2> DEFINE r == [rows |-> [v \in Lanes |-> shared[v].part], q |-> Single(n)]
  <2>3. w = 0 => answers' = Written(Only(<<n, 0>>, r), answers)
    <3>1. Now(w) = n
      BY <1>5, <2>2 DEF Now
    <3> QED BY <1>1, <3>1 DEF MambaSumUp
  <2>4. r.q = Single(n) /\ DOMAIN r.rows = Lanes /\ \A v \in Lanes : InOrder(r.rows[v], n + 1)
    <3>1. \A v \in Lanes : InOrder(shared[v].part, n + 1)
      BY <1>9, <2>2 DEF Hist
    <3> QED BY <3>1
  <2> HIDE DEF r
  <2>5. CASE w = 0 /\ x = <<n, 0>>
    <3>1. answers'[x] = r
      BY <2>3, <2>5 DEF Written, Only
    <3>2. x[1] = n
      BY <2>5
    <3> QED BY <2>4, <3>1, <3>2 DEF OwnToken
  <2>6. CASE ~(w = 0 /\ x = <<n, 0>>)
    <3>1. x \in DOMAIN answers /\ answers'[x] = answers[x]
      BY <1>1, <2>3, <2>6 DEF Written, Only, MambaSumUp
    <3>2. OwnToken(x)
      BY <2>1, <3>1 DEF RowsInv, OutputsOfOwnToken
    <3> QED BY <3>1, <3>2 DEF OwnToken
  <2> QED BY <2>5, <2>6
<1>11. LinearTypeOK' /\ Rest'
  BY <1>1, <1>4, <1>7, Kept DEF LinearTypeOK, RowsInv
<1> QED BY <1>8, <1>10, <1>11 DEF RowsInv

\* A warp stages its part of the chunk.
LEMMA ChunkLoadOK ==
  ASSUME RowsInv, NEW w \in Lanes, ChunkLoad(w)
  PROVE  RowsInv'
<1>1. /\ scan # Idle /\ At(w, "chunk") /\ KeepIn
      /\ UNCHANGED <<state, answers>>
  BY AtWork DEF ChunkLoad, At
<1>2. /\ LaneOK(w) /\ RowOK(w) /\ SharedOK(w) /\ StateOK(w) /\ lane[w].t \in Nat /\ hf \in BOOLEAN
      /\ scan.base \in Nat /\ scan.m \in Nat \ {0} /\ 0 \in Lanes
  BY <1>1, WarpFacts
<1>3. /\ lane[w].at = "chunk" /\ lane[w].to = "chunk" /\ lane[w].t = 0 /\ scan.fn \in Chunk
      /\ Hist(state[w], scan.base, hf)
  BY <1>1, <1>2, ScanTypes DEF LaneOK, At, Is, StateOK, Gdn, Mamba, Chunk
<1>4. PICK to \in {"intra", "outer"} :
        /\ to = IF Is("linear_attn_chunk_prefill") THEN "intra" ELSE "outer"
        /\ lane'[w] = [at |-> "bar", to |-> to, t |-> lane[w].t]
        /\ \A v \in Lanes \ {w} : lane'[v] = lane[v]
        /\ lane' \in [Lanes -> [at : Places, to : Places, t : Nat]]
  <2> DEFINE to == IF Is("linear_attn_chunk_prefill") THEN "intra" ELSE "outer"
  <2>1. Go(w, [at |-> "bar", to |-> to]) /\ to \in {"intra", "outer"}
    BY DEF ChunkLoad, Bar
  <2> HIDE DEF to
  <2>2. "bar" \in Places /\ to \in Places
    BY <2>1 DEF Places
  <2>3. /\ lane'[w] = [at |-> "bar", to |-> to, t |-> lane[w].t]
        /\ \A v \in Lanes \ {w} : lane'[v] = lane[v]
        /\ lane' \in [Lanes -> [at : Places, to : Places, t : Nat]]
    BY <1>1, <2>1, <2>2, GoTo
  <2> QED BY <2>1, <2>3 DEF to
<1>5. scan' = scan /\ hf' = hf /\ state' = state
  BY <1>1 DEF KeepIn
<1>6. /\ row \in [Lanes -> Seq(Token)] /\ state \in [Lanes -> Seq(Token)]
      /\ shared \in [Lanes -> [k : Int, q : Int, part : Seq(Token)]]
  BY DEF RowsInv, LinearTypeOK
<1>7. /\ row' \in [Lanes -> Seq(Token)] /\ row'[w] = state[w]
      /\ \A v \in Lanes \ {w} : row'[v] = row[v]
  BY <1>6 DEF ChunkLoad
<1>8. /\ shared' \in [Lanes -> [k : Int, q : Int, part : Seq(Token)]]
      /\ shared'[w].k = scan.base /\ shared'[w].q = scan.base
      /\ \A v \in Lanes \ {w} : shared'[v] = shared[v]
  <2>1. shared' = [shared EXCEPT ![w].q = scan.base, ![w].k = scan.base]
    BY DEF ChunkLoad
  <2>2. scan.base \in Int
    BY <1>2
  <2> QED BY <1>6, <2>1, <2>2
<1>9. scan.base + lane[w].t = scan.base
  BY <1>2, <1>3
<1>10. LaneOK(w)' /\ StateOK(w)'
  <2>1. LaneOK(w)'
    BY <1>2, <1>3, <1>4, <1>5 DEF LaneOK, At, Is, Gdn, Mamba, Chunk
  <2>2. StateOK(w)'
    BY <1>3, <1>4, <1>5 DEF StateOK, Is
  <2> QED BY <2>1, <2>2
<1>11. RowOK(w)' /\ SharedOK(w)'
  <2>1. RowOK(w)'
    BY <1>3, <1>4, <1>5, <1>7, <1>9 DEF RowOK, At, Is, Chunk
  <2>2. SharedOK(w)'
    BY <1>3, <1>4, <1>5, <1>8, <1>9 DEF SharedOK, At, Is
  <2> QED BY <2>1, <2>2
<1>12. Round(w)' = Round(w)
  <2>1. /\ RoundOf(scan.fn, "chunk", 0) = 0
        /\ RoundOf(scan.fn, to, 0) = 1
    BY <1>4, RoundAt
  <2>2. Round(w) = 0 /\ Round(w)' = 1 - 1
    BY <1>3, <1>4, <1>5, <2>1 DEF Round, At
  <2> QED BY <2>2
<1>13. ScanOK'
  <2>1. lane[w].at # "load" /\ lane'[w].at # "load"
    BY <1>3, <1>4
  <2> QED BY <1>1, <1>4, <1>5, <1>7, <1>8, <1>10, <1>11, <1>12, <2>1, OwnStep
<1>14. LinearTypeOK' /\ Rest' /\ OutputsOfOwnToken'
  BY <1>1, <1>4, <1>5, <1>7, <1>8, Kept, KeptAnswers DEF LinearTypeOK, RowsInv
<1> QED BY <1>13, <1>14 DEF RowsInv

\* While a warp of a chunk kernel is at work on the chunk, all of it is in place.
LEMMA ChunkStaged ==
  ASSUME RowsInv, scan # Idle, NEW w \in Lanes, lane[w].at = lane[w].to, lane[w].to \in {"intra", "outer"},
         NEW v \in Lanes
  PROVE  shared[v].k = scan.base /\ shared[v].q = scan.base
<1>1. /\ LaneOK(w) /\ LaneOK(v) /\ SharedOK(v) /\ Round(v) = Round(w) /\ lane[v].t \in Nat /\ lane[w].t \in Nat
      /\ scan.base \in Nat
  BY WarpFacts
<1>2. scan.fn \in Chunk
  BY <1>1, ScanTypes DEF LaneOK, Is, Gdn, Mamba, Chunk
<1>3. lane[v].to \in {"chunk", "intra", "outer", "merge", "exit"} /\ lane[v].t = 0
  BY <1>1, <1>2 DEF LaneOK, Is, Gdn, Mamba, Chunk
<1>4. Round(w) = 1
  <2>1. RoundOf(scan.fn, lane[w].to, lane[w].t) = 1
    BY <1>1, RoundAt
  <2>2. ~At(w, "bar")
    BY DEF At
  <2> QED BY <2>1, <2>2 DEF Round
<1>5. lane[v].to # "chunk"
  <2>1. RoundOf(scan.fn, "chunk", 0) = 0
    BY RoundAt
  <2> QED BY <1>1, <1>3, <1>4, <2>1 DEF Round
<1>6. scan.base + lane[v].t = scan.base
  BY <1>1, <1>3
<1> QED BY <1>1, <1>2, <1>3, <1>5, <1>6 DEF SharedOK, Mamba, Chunk

\* The tokens of the chunk, as the warps find them in shared memory.
LEMMA TokensOfChunk ==
  ASSUME NEW b \in Nat, \A v \in Lanes : shared[v].k = b, NEW m \in Nat
  PROVE  /\ ChunkTokens(m) \in Seq(Token) /\ Len(ChunkTokens(m)) = m
         /\ \A i \in 1 .. m : ChunkTokens(m)[i].k = Single(b + i - 1) /\ ChunkTokens(m)[i].rule = "none"
<1>1. ASSUME NEW i \in 1 .. m
      PROVE  [v \in Lanes |-> shared[v].k + i - 1] = Single(b + i - 1)
  BY DEF Single
<1>2. ChunkTokens(m) = [i \in 1 .. m |-> Absorbed(Single(b + i - 1), "none")]
  BY <1>1 DEF ChunkTokens
<1>3. \A i \in 1 .. m : Absorbed(Single(b + i - 1), "none") \in Token
  <2> TAKE i \in 1 .. m
  <2>1. b + i - 1 \in Int
    OBVIOUS
  <2> QED BY <2>1, AbsorbedType DEF Rules
<1> DEFINE c == [i \in 1 .. m |-> Absorbed(Single(b + i - 1), "none")]
<1>4. c \in Seq(Token) /\ Len(c) = m
  BY <1>3
<1>5. \A i \in 1 .. m : c[i].k = Single(b + i - 1) /\ c[i].rule = "none"
  BY DEF Absorbed
<1> HIDE DEF c
<1>6. ChunkTokens(m) = c
  BY <1>2 DEF c
<1> QED BY <1>4, <1>5, <1>6

\* A warp of the chunk kernel computes its outputs and absorbs the chunk.
LEMMA ChunkScanOK ==
  ASSUME RowsInv, NEW w \in Lanes, ChunkScan(w)
  PROVE  RowsInv'
<1>1. /\ scan # Idle /\ At(w, "intra") /\ KeepIn
      /\ UNCHANGED <<shared, row>>
  BY AtWork DEF ChunkScan, At
<1>2. /\ LaneOK(w) /\ RowOK(w) /\ SharedOK(w) /\ StateOK(w) /\ lane[w].t \in Nat /\ hf \in BOOLEAN
      /\ scan.base \in Nat /\ scan.m \in Nat \ {0} /\ 0 \in Lanes
  BY <1>1, WarpFacts
<1>3. /\ lane[w].at = "intra" /\ lane[w].to = "intra" /\ lane[w].t = 0 /\ Is("linear_attn_chunk_prefill")
      /\ Hist(row[w], scan.base, hf)
      /\ shared[w].k = scan.base + lane[w].t /\ shared[w].q = scan.base + lane[w].t
  <2>1. /\ lane[w].at = "intra" /\ lane[w].to = "intra" /\ lane[w].t = 0 /\ Is("linear_attn_chunk_prefill")
    BY <1>1, <1>2, ScanTypes DEF LaneOK, At, Is, Gdn, Mamba, Chunk
  <2>2. scan.base + lane[w].t = scan.base
    BY <1>2, <2>1
  <2> QED BY <1>2, <2>1, <2>2 DEF RowOK, SharedOK, Is, Mamba
<1>4. /\ lane'[w] = [at |-> "exit", to |-> "exit", t |-> lane[w].t]
      /\ \A v \in Lanes \ {w} : lane'[v] = lane[v]
      /\ lane' \in [Lanes -> [at : Places, to : Places, t : Nat]]
  <2>1. Go(w, [at |-> "exit", to |-> "exit"]) /\ "exit" \in Places
    BY DEF ChunkScan, Goto, Places
  <2> QED BY <1>1, <2>1, GoTo
<1>5. scan' = scan /\ hf' = hf /\ row' = row /\ shared' = shared
  BY <1>1 DEF KeepIn
<1>6. PICK b \in Nat, m \in Nat : b = scan.base /\ m = scan.m
  BY <1>2
<1>7. \A v \in Lanes : shared[v].k = b /\ shared[v].q = b
  BY <1>1, <1>3, <1>6, ChunkStaged
<1>8. ASSUME NEW n \in Nat PROVE Hist(row[w] \o ChunkTokens(n), b + n, hf)
  <2>1. /\ ChunkTokens(n) \in Seq(Token) /\ Len(ChunkTokens(n)) = n
        /\ \A i \in 1 .. n : ChunkTokens(n)[i].k = Single(b + i - 1) /\ ChunkTokens(n)[i].rule = "none"
    BY <1>7, TokensOfChunk
  <2>2. PICK c \in Seq(Token) : c = ChunkTokens(n)
    BY <2>1
  <2>3. \A i \in 1 .. n : c[i].k = Single(b + i - 1) /\ c[i].rule # "plain"
    BY <2>1, <2>2
  <2>4. Hist(row[w], b, hf) /\ Len(c) = n
    BY <1>3, <1>6, <2>1, <2>2
  <2>5. Hist(row[w] \o c, b + n, hf)
    BY <1>2, <2>3, <2>4, HistConcat
  <2> QED BY <2>2, <2>5
<1>9. state \in [Lanes -> Seq(Token)]
  BY DEF RowsInv, LinearTypeOK
<1>10. /\ state' \in [Lanes -> Seq(Token)] /\ Hist(state'[w], b + m, hf)
       /\ \A v \in Lanes \ {w} : state'[v] = state[v]
  <2>1. PICK h : h = row[w] \o ChunkTokens(m)
    OBVIOUS
  <2>2. Hist(h, b + m, hf) /\ h \in Seq(Token)
    BY <1>8, <2>1 DEF Hist
  <2>3. state' = [state EXCEPT ![w] = h]
    BY <1>6, <2>1 DEF ChunkScan
  <2> QED BY <1>9, <2>2, <2>3
<1>11. LaneOK(w)'
  BY <1>2, <1>3, <1>4, <1>5 DEF LaneOK, At, Is, Gdn, Mamba, Chunk
<1>12. RowOK(w)' /\ SharedOK(w)' /\ StateOK(w)'
  <2>1. RowOK(w)'
    BY <1>3, <1>4, <1>5 DEF RowOK, At, Is
  <2>2. SharedOK(w)'
    BY <1>3, <1>4, <1>5 DEF SharedOK, At, Is
  <2>3. StateOK(w)'
    BY <1>4, <1>5, <1>3, <1>6, <1>10 DEF StateOK, Is
  <2> QED BY <2>1, <2>2, <2>3
<1>13. Round(w)' = Round(w)
  <2>1. RoundOf(scan.fn, "intra", 0) = 1 /\ RoundOf(scan.fn, "exit", 0) = 1
    BY <1>3, RoundAt DEF Is, Gdn
  <2> QED BY <1>3, <1>4, <1>5, <2>1 DEF Round, At
<1>14. ScanOK'
  <2>1. lane[w].at # "load" /\ lane'[w].at # "load"
    BY <1>3, <1>4
  <2> QED BY <1>1, <1>4, <1>5, <1>10, <1>11, <1>12, <1>13, <2>1, OwnStep
<1>15. OutputsOfOwnToken'
  <2>1. ~Is("gdn_prefill") /\ ~Is("gdn_prefill")'
    BY <1>3, <1>5 DEF Is
  <2> SUFFICES ASSUME NEW x \in DOMAIN answers' PROVE OwnToken(x)'
    BY DEF OutputsOfOwnToken
  <2> DEFINE places == {<<b + i, w>> : i \in 0 .. m - 1}
             put(y) == [rows |-> Only(w, row[w] \o ChunkTokens(y[1] - b + 1)),
                        q |-> [v \in Lanes |-> shared[v].q + y[1] - b]]
             new == [y \in places |-> put(y)]
  <2>2. answers' = Written(new, answers)
    BY <1>6 DEF ChunkScan
  <2>3. CASE x \in places
    <3>1. PICK i \in 0 .. m - 1 : x = <<b + i, w>>
      BY <2>3
    <3>2. answers'[x] = put(x)
      <4>1. DOMAIN new = places /\ new[x] = put(x)
        BY <2>3
      <4> HIDE DEF new, places, put
      <4> QED BY <2>2, <2>3, <4>1 DEF Written
    <3>3. x[1] = b + i /\ i + 1 \in Nat /\ b + i - b + 1 = i + 1
      BY <3>1
    <3>4. \A v \in Lanes : shared[v].q + x[1] - b = x[1]
      BY <1>7, <3>3
    <3>5. put(x).q = Single(x[1])
      BY <3>4 DEF Single
    <3>6. DOMAIN put(x).rows = {w} /\ put(x).rows[w] = row[w] \o ChunkTokens(i + 1)
      <4>1. x[1] - b + 1 = i + 1
        BY <3>3
      <4>2. put(x).rows = Only(w, row[w] \o ChunkTokens(i + 1))
        BY <4>1
      <4> QED BY <4>2 DEF Only
    <3>7. InOrder(row[w] \o ChunkTokens(i + 1), x[1] + 1)
      <4>1. Hist(row[w] \o ChunkTokens(i + 1), b + (i + 1), hf)
        BY <1>8, <3>3
      <4>2. b + (i + 1) = x[1] + 1
        BY <3>3
      <4> QED BY <4>1, <4>2 DEF Hist
    <3> HIDE DEF put
    <3> QED BY <3>2, <3>5, <3>6, <3>7 DEF OwnToken
  <2>4. CASE x \notin places
    <3>1. x \in DOMAIN answers /\ answers'[x] = answers[x]
      <4>1. DOMAIN new = places
        OBVIOUS
      <4> HIDE DEF new, places, put
      <4> QED BY <2>2, <2>4, <4>1 DEF Written
    <3>2. OwnToken(x)
      BY <2>1, <3>1 DEF RowsInv, OutputsOfOwnToken
    <3> HIDE DEF places
    <3> QED BY <3>1, <3>2 DEF OwnToken
  <2> QED BY <2>3, <2>4
<1>16. LinearTypeOK' /\ Rest'
  BY <1>1, <1>4, <1>5, <1>10, Kept DEF LinearTypeOK, RowsInv
<1> QED BY <1>14, <1>15, <1>16 DEF RowsInv

\* A warp adds up V^T K in its quadrant.
LEMMA ChunkOuterOK ==
  ASSUME RowsInv, NEW w \in Lanes, ChunkOuter(w)
  PROVE  RowsInv'
<1>1. /\ scan # Idle /\ At(w, "outer") /\ KeepIn
      /\ UNCHANGED <<row, state, answers>>
  BY AtWork DEF ChunkOuter, At
<1>2. /\ LaneOK(w) /\ RowOK(w) /\ SharedOK(w) /\ StateOK(w) /\ lane[w].t \in Nat /\ hf \in BOOLEAN
      /\ scan.base \in Nat /\ scan.m \in Nat \ {0} /\ 0 \in Lanes
  BY <1>1, WarpFacts
<1>3. /\ lane[w].at = "outer" /\ lane[w].to = "outer" /\ lane[w].t = 0 /\ Is("linear_attn_state_update_mma")
      /\ Hist(state[w], scan.base, hf)
  BY <1>1, <1>2, ScanTypes DEF LaneOK, At, Is, StateOK, Gdn, Mamba, Chunk
<1>4. /\ lane'[w] = [at |-> "bar", to |-> "merge", t |-> lane[w].t]
      /\ \A v \in Lanes \ {w} : lane'[v] = lane[v]
      /\ lane' \in [Lanes -> [at : Places, to : Places, t : Nat]]
  <2>1. Go(w, [at |-> "bar", to |-> "merge"]) /\ "bar" \in Places /\ "merge" \in Places
    BY DEF ChunkOuter, Bar, Places
  <2> QED BY <1>1, <2>1, GoTo
<1>5. scan' = scan /\ hf' = hf /\ row' = row /\ state' = state
  BY <1>1 DEF KeepIn
<1>6. PICK b \in Nat, m \in Nat : b = scan.base /\ m = scan.m
  BY <1>2
<1>7. \A v \in Lanes : shared[v].k = b /\ shared[v].q = b
  BY <1>1, <1>3, <1>6, ChunkStaged
<1>8. PICK c \in Seq(Token) : /\ c = ChunkTokens(m) /\ Len(c) = m
                              /\ \A i \in 1 .. m : c[i].k = Single(b + i - 1)
  BY <1>7, TokensOfChunk
<1>9. shared \in [Lanes -> [k : Int, q : Int, part : Seq(Token)]]
  BY DEF RowsInv, LinearTypeOK
<1>10. /\ shared' \in [Lanes -> [k : Int, q : Int, part : Seq(Token)]] /\ shared'[w].part = c
       /\ shared'[w].k = b /\ shared'[w].q = b
       /\ \A v \in Lanes \ {w} : shared'[v] = shared[v]
  <2>1. shared' = [shared EXCEPT ![w].part = c]
    BY <1>6, <1>8 DEF ChunkOuter
  <2> QED BY <1>7, <1>9, <2>1
<1>11. LaneOK(w)'
  BY <1>2, <1>3, <1>4, <1>5 DEF LaneOK, At, Is, Gdn, Mamba, Chunk
<1>12. RowOK(w)' /\ SharedOK(w)' /\ StateOK(w)'
  <2>1. RowOK(w)'
    BY <1>3, <1>4, <1>5 DEF RowOK, At, Is
  <2>2. SharedOK(w)'
    <3>1. scan.base + lane[w].t = b
      BY <1>3, <1>6
    <3> QED BY <1>3, <1>4, <1>5, <1>6, <1>8, <1>10, <3>1 DEF SharedOK, At, Is
  <2>3. StateOK(w)'
    BY <1>3, <1>4, <1>5 DEF StateOK, Is
  <2> QED BY <2>1, <2>2, <2>3
<1>13. Round(w)' = Round(w)
  <2>1. RoundOf(scan.fn, "outer", 0) = 1 /\ RoundOf(scan.fn, "merge", 0) = 2
    BY RoundAt
  <2>2. Round(w) = 1 /\ Round(w)' = 2 - 1
    BY <1>3, <1>4, <1>5, <2>1 DEF Round, At
  <2> QED BY <2>2
<1>14. ScanOK'
  <2>1. lane[w].at # "load" /\ lane'[w].at # "load"
    BY <1>3, <1>4
  <2> QED BY <1>1, <1>4, <1>5, <1>10, <1>11, <1>12, <1>13, <2>1, OwnStep
<1>15. LinearTypeOK' /\ Rest' /\ OutputsOfOwnToken'
  BY <1>1, <1>4, <1>5, <1>10, Kept, KeptAnswers DEF LinearTypeOK, RowsInv
<1> QED BY <1>14, <1>15 DEF RowsInv

\* A warp takes in the quadrants its rows lie across: all of them are complete.
LEMMA ChunkMergeOK ==
  ASSUME RowsInv, NEW w \in Lanes, ChunkMerge(w)
  PROVE  RowsInv'
<1>1. /\ scan # Idle /\ At(w, "merge") /\ KeepIn
      /\ UNCHANGED <<shared, row, answers>>
  BY AtWork DEF ChunkMerge, At
<1>2. /\ LaneOK(w) /\ RowOK(w) /\ SharedOK(w) /\ StateOK(w) /\ lane[w].t \in Nat /\ hf \in BOOLEAN
      /\ scan.base \in Nat /\ scan.m \in Nat \ {0} /\ 0 \in Lanes
      /\ \A v \in Lanes : Round(v) = Round(w)
  BY <1>1, WarpFacts
<1>3. /\ lane[w].at = "merge" /\ lane[w].to = "merge" /\ lane[w].t = 0 /\ Is("linear_attn_state_update_mma")
      /\ Hist(state[w], scan.base, hf)
  BY <1>1, <1>2, ScanTypes DEF LaneOK, At, Is, StateOK, Gdn, Mamba, Chunk
<1>4. /\ lane'[w] = [at |-> "exit", to |-> "exit", t |-> lane[w].t]
      /\ \A v \in Lanes \ {w} : lane'[v] = lane[v]
      /\ lane' \in [Lanes -> [at : Places, to : Places, t : Nat]]
  <2>1. Go(w, [at |-> "exit", to |-> "exit"]) /\ "exit" \in Places
    BY DEF ChunkMerge, Goto, Places
  <2> QED BY <1>1, <2>1, GoTo
<1>5. scan' = scan /\ hf' = hf /\ row' = row /\ shared' = shared
  BY <1>1 DEF KeepIn
<1>6. PICK b \in Nat, m \in Nat : b = scan.base /\ m = scan.m
  BY <1>2
\* The quadrants of all the warps are complete.
<1>7. ASSUME NEW v \in Lanes, NEW i \in 1 .. m PROVE shared[v].part[i].k = Single(b + i - 1)
  <2>1. LaneOK(v) /\ SharedOK(v) /\ Round(v) = Round(w) /\ lane[v].t \in Nat
    BY <1>1, <1>2, WarpFacts
  <2>2. Round(w) = 2
    <3>1. RoundOf(scan.fn, "merge", 0) = 2
      BY RoundAt
    <3> QED BY <1>3, <3>1 DEF Round, At
  <2>3. lane[v].to \in {"chunk", "outer", "merge", "exit"} /\ lane[v].t = 0
    BY <1>3, <2>1 DEF LaneOK, Is, Gdn, Mamba, Chunk
  <2>4. lane[v].to \in {"merge", "exit"}
    <3>1. RoundOf(scan.fn, "chunk", 0) = 0 /\ RoundOf(scan.fn, "outer", 0) = 1
      BY RoundAt
    <3> QED BY <2>1, <2>2, <2>3, <3>1 DEF Round
  <2> QED BY <1>3, <1>6, <1>7, <2>1, <2>4 DEF SharedOK
<1>8. PICK c \in Seq(Token) :
        /\ c = [i \in 1 .. m |-> Absorbed([v \in Lanes |-> shared[v].part[i].k[v]], "none")]
        /\ Len(c) = m
        /\ \A i \in 1 .. m : c[i].k = Single(b + i - 1) /\ c[i].rule # "plain"
  <2>1. ASSUME NEW i \in 1 .. m
        PROVE  [v \in Lanes |-> shared[v].part[i].k[v]] = Single(b + i - 1)
    <3>1. \A v \in Lanes : shared[v].part[i].k[v] = b + i - 1
      <4> TAKE v \in Lanes
      <4>1. shared[v].part[i].k = Single(b + i - 1)
        BY <1>7
      <4>2. Single(b + i - 1)[v] = b + i - 1
        BY DEF Single
      <4> QED BY <4>1, <4>2
    <3> QED BY <3>1 DEF Single
  <2> DEFINE d == [i \in 1 .. m |-> Absorbed(Single(b + i - 1), "none")]
             sums == [i \in 1 .. m |-> Absorbed([v \in Lanes |-> shared[v].part[i].k[v]], "none")]
  <2>2. sums = d
    BY <2>1
  <2>3. d \in Seq(Token) /\ Len(d) = m
    <3>1. \A i \in 1 .. m : Absorbed(Single(b + i - 1), "none") \in Token
      <4> TAKE i \in 1 .. m
      <4>1. b + i - 1 \in Int
        OBVIOUS
      <4> QED BY <4>1, AbsorbedType DEF Rules
    <3> QED BY <3>1
  <2>4. \A i \in 1 .. m : d[i].k = Single(b + i - 1) /\ d[i].rule # "plain"
    BY DEF Absorbed
  <2> HIDE DEF d, sums
  <2>5. sums \in Seq(Token) /\ Len(sums) = m /\ \A i \in 1 .. m : sums[i].k = Single(b + i - 1) /\ sums[i].rule # "plain"
    BY <2>2, <2>3, <2>4
  <2> QED BY <2>5 DEF sums
<1>9. state \in [Lanes -> Seq(Token)]
  BY DEF RowsInv, LinearTypeOK
<1>10. /\ state' \in [Lanes -> Seq(Token)] /\ Hist(state'[w], b + m, hf)
       /\ \A v \in Lanes \ {w} : state'[v] = state[v]
  <2>1. Hist(state[w] \o c, b + m, hf)
    <3>1. Hist(state[w], b, hf)
      BY <1>3, <1>6
    <3> QED BY <1>2, <1>8, <3>1, HistConcat
  <2>2. PICK h : h = state[w] \o c
    OBVIOUS
  <2>3. Hist(h, b + m, hf) /\ h \in Seq(Token)
    BY <2>1, <2>2 DEF Hist
  <2>4. state' = [state EXCEPT ![w] = h]
    BY <1>6, <1>8, <2>2 DEF ChunkMerge
  <2> QED BY <1>9, <2>3, <2>4
<1>11. LaneOK(w)'
  BY <1>2, <1>3, <1>4, <1>5 DEF LaneOK, At, Is, Gdn, Mamba, Chunk
<1>12. RowOK(w)' /\ SharedOK(w)' /\ StateOK(w)'
  <2>1. RowOK(w)'
    BY <1>3, <1>4, <1>5 DEF RowOK, At, Is
  <2>2. SharedOK(w)'
    BY <1>2, <1>3, <1>4, <1>5 DEF SharedOK, At, Is
  <2>3. StateOK(w)'
    BY <1>4, <1>5, <1>3, <1>6, <1>10 DEF StateOK, Is
  <2> QED BY <2>1, <2>2, <2>3
<1>13. Round(w)' = Round(w)
  <2>1. RoundOf(scan.fn, "merge", 0) = 2 /\ RoundOf(scan.fn, "exit", 0) = 2
    BY <1>3, RoundAt DEF Is, Gdn
  <2> QED BY <1>3, <1>4, <1>5, <2>1 DEF Round, At
<1>14. ScanOK'
  <2>1. lane[w].at # "load" /\ lane'[w].at # "load"
    BY <1>3, <1>4
  <2> QED BY <1>1, <1>4, <1>5, <1>10, <1>11, <1>12, <1>13, <2>1, OwnStep
<1>15. LinearTypeOK' /\ Rest' /\ OutputsOfOwnToken'
  BY <1>1, <1>4, <1>5, <1>10, Kept, KeptAnswers DEF LinearTypeOK, RowsInv
<1> QED BY <1>14, <1>15 DEF RowsInv

-----------------------------------------------------------------------------
(* The steps of all the warps together, and of the host.                   *)

\* The last warp to arrive lets all go on.
LEMMA BarSyncOK ==
  ASSUME RowsInv, BarSync
  PROVE  RowsInv'
<1>1. /\ \A w \in Lanes : lane[w].at = "bar"
      /\ KeepIn /\ row' = row /\ shared' = shared /\ state' = state /\ answers' = answers
  BY DEF BarSync, At
<1>2. scan # Idle
  <2>1. 0 \in Lanes
    BY LinearOK
  <2> QED BY <1>1, <2>1 DEF RowsInv, Rest, At
<1>3. scan' = scan /\ hf' = hf
  BY <1>1 DEF KeepIn
<1>4. lane \in [Lanes -> [at : Places, to : Places, t : Nat]]
  BY DEF RowsInv, LinearTypeOK
<1>5. /\ lane' \in [Lanes -> [at : Places, to : Places, t : Nat]]
      /\ \A w \in Lanes : lane'[w] = [at |-> lane[w].to, to |-> lane[w].to, t |-> lane[w].t]
  <2>1. lane' = [w \in Lanes |-> [lane[w] EXCEPT !.at = lane[w].to]]
    BY DEF BarSync
  <2>2. ASSUME NEW w \in Lanes
        PROVE  /\ [lane[w] EXCEPT !.at = lane[w].to] = [at |-> lane[w].to, to |-> lane[w].to, t |-> lane[w].t]
               /\ [lane[w] EXCEPT !.at = lane[w].to] \in [at : Places, to : Places, t : Nat]
    BY <1>4
  <2> HIDE DEF Places
  <2> QED BY <2>1, <2>2
<1>6. ASSUME NEW w \in Lanes
      PROVE  LaneOK(w)' /\ RowOK(w)' /\ SharedOK(w)' /\ StateOK(w)' /\ Round(w)' = Round(w) + 1
  <2>1. /\ LaneOK(w) /\ RowOK(w) /\ SharedOK(w) /\ StateOK(w) /\ lane[w].t \in Nat
        /\ scan.base \in Nat /\ scan.m \in Nat \ {0}
    BY <1>2, WarpFacts
  <2>2. lane[w].at = "bar" /\ lane[w].to \notin {"bar", "load", "h", "chunk", "exit"}
    <3>1. lane[w].to # "bar"
      BY <2>1 DEF LaneOK
    <3> QED BY <1>1, <2>1, <3>1 DEF LaneOK, At
  <2>3. lane'[w].at = lane[w].to /\ lane'[w].to = lane[w].to /\ lane'[w].t = lane[w].t
    BY <1>5
  <2>4. LaneOK(w)'
    BY <1>3, <2>1, <2>2, <2>3 DEF LaneOK, At, Is
  <2>5. SharedOK(w)' /\ StateOK(w)'
    BY <1>1, <1>3, <2>1, <2>2, <2>3 DEF SharedOK, StateOK, At, Is
  <2>6. RowOK(w)'
    <3>1. Is("gdn_decode_tma") => ~At(0, "load")'
      <4>1. 0 \in Lanes
        BY LinearOK
      <4>2. LaneOK(0) /\ lane[0].at = "bar" /\ lane'[0].at = lane[0].to
        <5>1. LaneOK(0)
          BY <1>2, <4>1, WarpFacts
        <5>2. lane[0].at = "bar"
          BY <1>1, <4>1
        <5>3. lane'[0].at = lane[0].to
          BY <1>5, <4>1
        <5> QED BY <5>1, <5>2, <5>3
      <4> QED BY <4>2 DEF LaneOK, At
    <3> QED BY <1>1, <1>3, <2>1, <2>2, <2>3, <3>1 DEF RowOK, At, Is
  <2>7. Round(w)' = Round(w) + 1
    <3>1. RoundOf(scan.fn, lane[w].to, lane[w].t) \in Int
      BY <2>1 DEF RoundOf
    <3>2. Round(w) = RoundOf(scan.fn, lane[w].to, lane[w].t) - 1
      BY <2>2 DEF Round, At
    <3>3. Round(w)' = RoundOf(scan.fn, lane[w].to, lane[w].t)
      BY <1>3, <2>2, <2>3 DEF Round, At
    <3> QED BY <3>1, <3>2, <3>3
  <2> QED BY <2>4, <2>5, <2>6, <2>7
<1>7. (\A v, w \in Lanes : Round(v) = Round(w))'
  BY <1>2, <1>6 DEF RowsInv, ScanOK
<1>8. ScanOK'
  BY <1>6, <1>7 DEF ScanOK
<1>9. LinearTypeOK' /\ Rest' /\ OutputsOfOwnToken'
  BY <1>1, <1>2, <1>3, <1>5, Kept, KeptAnswers DEF LinearTypeOK, RowsInv
<1> QED BY <1>8, <1>9 DEF RowsInv

\* The call ends when every warp is through: its rows are those of the sequence
\* so far.
LEMMA EndedOK ==
  ASSUME RowsInv, Ended
  PROVE  RowsInv'
<1>1. /\ scan # Idle /\ \A w \in Lanes : lane[w].at = "exit"
      /\ scan' = Idle /\ answers' = << >>
      /\ UNCHANGED <<family, hf, fed, lane, shared, row, state>>
  BY DEF Ended, At
<1>2. ASSUME NEW w \in Lanes
      PROVE  Hist(state[w], fed[0], hf)
  <2>1. LaneOK(w) /\ StateOK(w) /\ scan.base + scan.m = fed[0]
    BY <1>1, WarpFacts DEF RowsInv, Rest
  <2>2. lane[w].to = "exit"
    BY <1>1, <2>1 DEF LaneOK
  <2> QED BY <2>1, <2>2 DEF StateOK
<1>3. Rest'
  BY <1>1, <1>2 DEF Rest, At
<1>4. LinearTypeOK' /\ ScanOK'
  BY <1>1 DEF RowsInv, LinearTypeOK, ScanOK
<1>5. OutputsOfOwnToken'
  BY <1>1 DEF OutputsOfOwnToken
<1> QED BY <1>3, <1>4, <1>5 DEF RowsInv

\* A call is launched with the next tokens of the sequence.
LEMMA FeedOK ==
  ASSUME RowsInv, family # "conv", NEW fn \in Gdn \cup Mamba \cup Chunk, NEW m \in Nat \ {0},
         fn \in {"gdn_decode", "gdn_decode_tma", "mamba2_selective_scan_decode"} => m = 1,
         NEW first,
         first = IF fn \in Gdn THEN "load" ELSE IF fn \in Mamba THEN "h" ELSE "chunk",
         Feed(fn, m, first)
  PROVE  RowsInv'
<1>1. /\ scan = Idle /\ scan' = [fn |-> fn, base |-> fed[0], m |-> m]
      /\ fed' = [fed EXCEPT ![0] = @ + m]
      /\ lane' = [w \in Lanes |-> [at |-> first, to |-> first, t |-> 0]]
      /\ UNCHANGED <<family, hf, shared, row, state, answers>>
  BY DEF Feed
<1>2. 0 \in Seqs /\ fed \in [Seqs -> Nat] /\ fed[0] \in Nat /\ fed[0] + m \in Nat
  <2>1. 0 \in Seqs
    BY LinearOK DEF Seqs
  <2>2. fed \in [Seqs -> Nat]
    BY DEF RowsInv, LinearTypeOK
  <2> QED BY <2>1, <2>2
<1>3. fed' \in [Seqs -> Nat] /\ fed'[0] = fed[0] + m
  BY <1>1, <1>2
<1>4. scan'.fn = fn /\ scan'.base = fed[0] /\ scan'.m = m /\ scan' # Idle
  <2>1. fn # "none"
    BY DEF Gdn, Mamba, Chunk
  <2> QED BY <1>1, <2>1 DEF Idle
<1>5. first \in Places /\ first \in {"load", "h", "chunk"}
  BY DEF Places
<1>6. lane' \in [Lanes -> [at : Places, to : Places, t : Nat]]
  BY <1>1, <1>5
<1>7. LinearTypeOK'
  BY <1>1, <1>3, <1>6 DEF RowsInv, LinearTypeOK
<1>8. Rest'
  BY <1>1, <1>2, <1>3, <1>4 DEF Rest, Is, Gdn, Mamba, Chunk
<1>9. ASSUME NEW w \in Lanes
      PROVE  /\ LaneOK(w)' /\ RowOK(w)' /\ SharedOK(w)' /\ StateOK(w)'
             /\ Round(w)' = RoundOf(fn, first, 0)
  <2>1. lane'[w].at = first /\ lane'[w].to = first /\ lane'[w].t = 0
    BY <1>1
  <2>2. lane'[0].at = first
    BY <1>1, LinearOK
  <2>3. Hist(state[w], fed[0], hf)
    BY <1>1 DEF RowsInv, Rest
  <2>4. LaneOK(w)'
    BY <1>4, <1>5, <2>1 DEF LaneOK, At, Is, Gdn, Mamba, Chunk
  <2>5. RowOK(w)'
    BY <1>4, <1>5, <2>1, <2>2 DEF RowOK, At, Is
  <2>6. SharedOK(w)' /\ StateOK(w)'
    BY <1>1, <1>4, <1>5, <2>1, <2>3 DEF SharedOK, StateOK, At, Is
  <2>7. Round(w)' = RoundOf(fn, first, 0)
    BY <1>4, <1>5, <2>1 DEF Round, At
  <2> QED BY <2>4, <2>5, <2>6, <2>7
<1>10. ScanOK'
  <2>1. (\A v, w \in Lanes : Round(v) = Round(w))'
    BY <1>9
  <2> QED BY <1>9, <2>1 DEF ScanOK
<1>11. OutputsOfOwnToken'
  BY <1>1 DEF RowsInv, Rest, OutputsOfOwnToken
<1> QED BY <1>7, <1>8, <1>10, <1>11 DEF RowsInv

\* A call of the convolution leaves the recurrences alone.
LEMMA ConvolvedRows ==
  ASSUME RowsInv, NEW rows, NEW m \in Nat, Convolved(rows, m)
  PROVE  RowsInv'
<1>1. /\ family = "conv" /\ UNCHANGED <<family, hf, scan, lane, shared, row, state, answers>>
      /\ fed' = [s \in Seqs |-> IF s \in DOMAIN rows THEN fed[s] + m ELSE fed[s]]
  BY Zenon DEF Convolved, scanVars
<1>2. scan = Idle
  BY <1>1 DEF RowsInv, Rest
<1>3. fed' \in [Seqs -> Nat]
  BY <1>1 DEF RowsInv, LinearTypeOK
<1> QED BY <1>1, <1>2, <1>3, SMTT(30) DEF RowsInv, LinearTypeOK, Rest, ScanOK, OutputsOfOwnToken, OwnToken, At, Is

\* The invariant of the recurrences holds at first.
LEMMA RowsInitially ==
  ASSUME LinearInit
  PROVE  RowsInv
<1>1. scan = Idle /\ answers = << >> /\ \A w \in Lanes : lane[w].at = "exit"
  BY DEF LinearInit
<1>2. \A w \in Lanes : Hist(state[w], fed[0], hf)
  <2>1. 0 \in Seqs
    BY LinearOK DEF Seqs
  <2>2. fed[0] = 0 /\ \A w \in Lanes : state[w] = << >>
    BY <2>1 DEF LinearInit
  <2> QED BY <2>2, HistEmpty
<1>3. LinearTypeOK
  <2>1. lane \in [Lanes -> [at : Places, to : Places, t : Nat]]
    <3>1. "exit" \in Places
      BY DEF Places
    <3> QED BY <3>1 DEF LinearInit
  <2>2. shared \in [Lanes -> [k : Int, q : Int, part : Seq(Token)]]
    <3>1. Old \in [k : Int, q : Int, part : Seq(Token)]
      BY DEF Old
    <3> QED BY <3>1 DEF LinearInit
  <2>3. row \in [Lanes -> Seq(Token)] /\ state \in [Lanes -> Seq(Token)]
    BY DEF LinearInit
  <2>4. family \in Families /\ hf \in BOOLEAN /\ fed \in [Seqs -> Nat]
    BY DEF LinearInit
  <2> QED BY <2>1, <2>2, <2>3, <2>4 DEF LinearTypeOK
<1> QED BY <1>1, <1>2, <1>3 DEF RowsInv, Rest, ScanOK, OutputsOfOwnToken, At

\* Every step of the specification.
LEMMA RowsStep ==
  ASSUME RowsInv, [LinearNext \/ (LinearDone /\ UNCHANGED linearVars)]_linearVars
  PROVE  RowsInv'
<1>1. CASE UNCHANGED linearVars
  <2>1. UNCHANGED <<family, hf, fed, scan, lane, shared, row, state, answers>>
    BY <1>1 DEF linearVars
  <2>2. LinearTypeOK' /\ Rest' /\ OutputsOfOwnToken'
    BY <2>1 DEF RowsInv, LinearTypeOK, Rest, OutputsOfOwnToken, OwnToken, Is, At
  <2>3. ScanOK'
    <3>1. scan # Idle => \A w \in Lanes : /\ LaneOK(w)' /\ RowOK(w)' /\ SharedOK(w)' /\ StateOK(w)'
                                          /\ Round(w)' = Round(w)
      BY <2>1 DEF RowsInv, ScanOK, LaneOK, RowOK, SharedOK, StateOK, Round, At, Is
    <3>2. scan # Idle => (\A v, w \in Lanes : Round(v) = Round(w))'
      BY <3>1 DEF RowsInv, ScanOK
    <3> QED BY <2>1, <3>1, <3>2 DEF ScanOK
  <2> QED BY <2>2, <2>3 DEF RowsInv
<1>2. CASE LinearNext
  <2>1. CASE conv1d_silu_bf16
    BY <2>1, ConvolvedRows DEF conv1d_silu_bf16
  <2>2. CASE conv1d_silu_bf16_row
    BY <2>2, ConvolvedRows DEF conv1d_silu_bf16_row
  <2>3. CASE conv1d_silu_chunk_bf16
    BY <2>3, ConvolvedRows DEF conv1d_silu_chunk_bf16
  <2>4. CASE conv1d_silu_bf16_batched
    BY <2>4, ConvolvedRows DEF conv1d_silu_bf16_batched
  <2>5. CASE gdn_decode
    BY <2>5, FeedOK DEF gdn_decode, Gdn, Mamba, Chunk
  <2>6. CASE gdn_prefill
    <3>1. PICK m \in 0 .. MaxFed : Feed("gdn_prefill", m, "load")
      BY <2>6 DEF gdn_prefill
    <3>2. m \in Nat \ {0} /\ family # "conv"
      BY <2>6, <3>1 DEF Feed, gdn_prefill
    <3> QED BY <3>1, <3>2, FeedOK DEF Gdn, Mamba, Chunk
  <2>7. CASE gdn_decode_tma
    BY <2>7, FeedOK DEF gdn_decode_tma, Gdn, Mamba, Chunk
  <2>8. CASE mamba2_selective_scan_decode
    BY <2>8, FeedOK DEF mamba2_selective_scan_decode, Gdn, Mamba, Chunk
  <2>9. CASE mamba2_selective_scan_prefill
    <3>1. PICK m \in 0 .. MaxFed : Feed("mamba2_selective_scan_prefill", m, "h")
      BY <2>9 DEF mamba2_selective_scan_prefill
    <3>2. m \in Nat \ {0} /\ family # "conv"
      BY <2>9, <3>1 DEF Feed, mamba2_selective_scan_prefill
    <3> QED BY <3>1, <3>2, FeedOK DEF Gdn, Mamba, Chunk
  <2>10. ChunkLen \in Nat \ {0}
    BY LinearOK
  <2>11. CASE linear_attn_chunk_prefill
    BY <2>10, <2>11, FeedOK DEF linear_attn_chunk_prefill, Gdn, Mamba, Chunk
  <2>12. CASE linear_attn_state_update_mma
    BY <2>10, <2>12, FeedOK DEF linear_attn_state_update_mma, Gdn, Mamba, Chunk
  <2>13. CASE \E w \in Lanes : WarpStep(w)
    BY <2>13, GdnLoadOK, GdnStageOK, GdnAbsorbOK, GdnReadOK, GdnSaveOK, MambaLoadOK, MambaUpdateOK,
       MambaSumOK, MambaSaveOK, ChunkLoadOK, ChunkScanOK, ChunkOuterOK, ChunkMergeOK DEF WarpStep
  <2> QED BY <1>2, <2>1, <2>2, <2>3, <2>4, <2>5, <2>6, <2>7, <2>8, <2>9, <2>11, <2>12, <2>13,
             BarSyncOK, EndedOK DEF LinearNext
<1> QED BY <1>1, <1>2

-----------------------------------------------------------------------------
(* The convolution.                                                        *)

\* The window of a sequence with n tokens behind it.
Window(s, n, c) == << <<s, n - 3, c>>, <<s, n - 2, c>>, <<s, n - 1, c>> >>

\* The window slides by one token.
LEMMA SlidOnce ==
  ASSUME NEW s, NEW n \in Int, NEW c
  PROVE  Append(Tail(Window(s, n, c)), <<s, n, c>>) = Window(s, n + 1, c)
<1>1. n + 1 - 3 = n - 2 /\ n + 1 - 2 = n - 1 /\ n + 1 - 1 = n
  OBVIOUS
<1>2. ASSUME NEW a, NEW b, NEW d, NEW e
      PROVE  Append(Tail(<<a, b, d>>), e) = <<b, d, e>>
  <2>1. Tail(<<a, b, d>>) = <<b, d>>
    <3> DEFINE S == {a, b, d}
    <3>1. <<a, b, d>> \in Seq(S) /\ Len(<<a, b, d>>) = 3
      OBVIOUS
    <3>2. Tail(<<a, b, d>>) \in Seq(S) /\ Len(Tail(<<a, b, d>>)) = 2
      BY <3>1
    <3>3. Tail(<<a, b, d>>)[1] = b /\ Tail(<<a, b, d>>)[2] = d
      BY <3>1
    <3> QED BY <3>2, <3>3
  <2>2. Append(<<b, d>>, e) = <<b, d, e>>
    <3> DEFINE S == {b, d, e}
    <3>1. <<b, d>> \in Seq(S) /\ Len(<<b, d>>) = 2 /\ e \in S
      OBVIOUS
    <3>2. Append(<<b, d>>, e) \in Seq(S) /\ Len(Append(<<b, d>>, e)) = 3
      BY <3>1
    <3>3. Append(<<b, d>>, e)[1] = b /\ Append(<<b, d>>, e)[2] = d /\ Append(<<b, d>>, e)[3] = e
      BY <3>1
    <3> DEFINE y == Append(<<b, d>>, e)
               z == <<b, d, e>>
    <3>4. y = [i \in 1 .. 3 |-> y[i]]
      BY <3>2
    <3>5. z = [i \in 1 .. 3 |-> z[i]]
      OBVIOUS
    <3>6. \A i \in 1 .. 3 : y[i] = z[i]
      <4>1. \A i \in 1 .. 3 : i = 1 \/ i = 2 \/ i = 3
        OBVIOUS
      <4> QED BY <3>3, <4>1
    <3> HIDE DEF y, z
    <3>7. y = z
      BY <3>4, <3>5, <3>6
    <3> QED BY <3>7 DEF y, z
  <2> QED BY <2>1, <2>2
<1>3. Append(Tail(Window(s, n, c)), <<s, n, c>>) = << <<s, n - 2, c>>, <<s, n - 1, c>>, <<s, n, c>> >>
  BY <1>2 DEF Window
<1> QED BY <1>1, <1>3 DEF Window

\* And by m tokens, for any m.
LEMMA SlidIs ==
  ASSUME NEW s, NEW n \in Nat, NEW c, NEW x, NEW m \in Nat,
         \A i \in 1 .. m : x[i] = <<s, n + i - 1, c>>
  PROVE  Slid(Window(s, n, c), x, m) = Window(s, n + m, c)
<1> DEFINE old == Window(s, n, c)
           Step(f, i) == IF i = 0 THEN old ELSE Append(Tail(f[i - 1]), x[i])
           after == CHOOSE f : f = [i \in 0 .. m |-> IF i = 0 THEN old ELSE Append(Tail(f[i - 1]), x[i])]
           w == [i \in 0 .. m |-> Window(s, n + i, c)]
<1>1. Slid(old, x, m) = after[m]
  BY DEF Slid
<1>2. w = [i \in 0 .. m |-> IF i = 0 THEN old ELSE Append(Tail(w[i - 1]), x[i])]
  <2>1. ASSUME NEW i \in 0 .. m, i = 0 PROVE w[i] = old
    <3>1. n + i = n
      BY <2>1
    <3> QED BY <2>1, <3>1
  <2>2. ASSUME NEW i \in 0 .. m, i # 0 PROVE w[i] = Append(Tail(w[i - 1]), x[i])
    <3>1. i - 1 \in 0 .. m /\ i \in 1 .. m /\ n + (i - 1) = n + i - 1 /\ n + i - 1 + 1 = n + i /\ n + i - 1 \in Int
      BY <2>2
    <3>2. w[i - 1] = Window(s, n + i - 1, c) /\ x[i] = <<s, n + i - 1, c>> /\ w[i] = Window(s, n + i, c)
      BY <3>1
    <3>3. Append(Tail(Window(s, n + i - 1, c)), <<s, n + i - 1, c>>) = Window(s, n + i - 1 + 1, c)
      BY <3>1, SlidOnce
    <3> HIDE DEF w
    <3> QED BY <3>1, <3>2, <3>3
  <2>3. \A i \in 0 .. m : w[i] = IF i = 0 THEN old ELSE Append(Tail(w[i - 1]), x[i])
    BY <2>1, <2>2
  <2>4. w = [i \in 0 .. m |-> w[i]]
    OBVIOUS
  <2> HIDE DEF w, old
  <2> QED BY <2>3, <2>4
<1>3. after = [i \in 0 .. m |-> IF i = 0 THEN old ELSE Append(Tail(after[i - 1]), x[i])]
  <2> HIDE DEF w, old
  <2> QED BY <1>2, Zenon
<1>4. \A i \in Nat : i \in 0 .. m => after[i] = w[i]
  <2> DEFINE T == {i \in Nat : i \in 0 .. m => after[i] = w[i]}
  <2>1. 0 \in T
    <3>1. after[0] = old /\ w[0] = old
      <4>1. 0 \in 0 .. m /\ n + 0 = n
        OBVIOUS
      <4> HIDE DEF after
      <4> QED BY <4>1, <1>3
    <3> HIDE DEF after, w, old
    <3> QED BY <3>1
  <2>2. ASSUME NEW i \in T PROVE i + 1 \in T
    <3> HIDE DEF after, w, old
    <3> SUFFICES ASSUME i + 1 \in 0 .. m PROVE after[i + 1] = w[i + 1]
      OBVIOUS
    <3>1. i \in 0 .. m /\ i + 1 # 0 /\ i + 1 - 1 = i
      OBVIOUS
    <3>2. after[i] = w[i]
      BY <3>1
    <3>3. after[i + 1] = Append(Tail(after[i + 1 - 1]), x[i + 1])
      <4>1. PICK g : g = [j \in 0 .. m |-> IF j = 0 THEN old ELSE Append(Tail(after[j - 1]), x[j])]
        OBVIOUS
      <4>2. g[i + 1] = Append(Tail(after[i + 1 - 1]), x[i + 1])
        BY <3>1, <4>1, SMTT(30)
      <4>3. after = g
        BY <1>3, <4>1
      <4> QED BY <4>2, <4>3
    <3>4. w[i + 1] = Append(Tail(w[i + 1 - 1]), x[i + 1])
      <4>1. PICK g : g = [j \in 0 .. m |-> IF j = 0 THEN old ELSE Append(Tail(w[j - 1]), x[j])]
        OBVIOUS
      <4>2. g[i + 1] = Append(Tail(w[i + 1 - 1]), x[i + 1])
        BY <3>1, <4>1, SMTT(30)
      <4>3. w = g
        BY <1>2, <4>1
      <4> QED BY <4>2, <4>3
    <3> QED BY <3>1, <3>2, <3>3, <3>4
  <2> HIDE DEF T
  <2>3. T = Nat
    BY <2>1, <2>2, NaturalInduction DEF T
  <2> QED BY <2>3 DEF T
<1>5. after[m] = w[m]
  <2> HIDE DEF after, w
  <2> QED BY <1>4
<1>6. w[m] = Window(s, n + m, c)
  OBVIOUS
<1> HIDE DEF after, w
<1> QED BY <1>1, <1>5, <1>6

\* The place of a tap in the state buffer, and back.
LEMMA TapIndex ==
  ASSUME NEW s \in Seqs, NEW tap \in 0 .. 2, NEW c \in 0 .. Channels - 1
  PROVE  /\ Tap(s, tap, c) \in 0 .. Batch * 3 * Channels - 1
         /\ Tap(s, tap, c) \div (3 * Channels) = s
         /\ (Tap(s, tap, c) \div Channels) % 3 = tap
         /\ Tap(s, tap, c) % Channels = c
<1> DEFINE d == 3 * Channels
           q == s * 3 + tap
<1>1. Channels \in Nat \ {0} /\ Batch \in Nat \ {0} /\ s \in Nat /\ Batch - 1 - s \in Nat /\ tap \in Nat
      /\ c \in Nat /\ c <= Channels - 1 /\ s \in Int /\ Batch \in Int
  BY LinearOK DEF Seqs
<1>2. d \in Nat \ {0} /\ q \in Nat
  BY <1>1
<1>3. tap * Channels + c \in 0 .. d - 1
  <2>1. CASE tap = 0
    BY <1>1, <2>1
  <2>2. CASE tap = 1
    BY <1>1, <2>2
  <2>3. CASE tap = 2
    BY <1>1, <2>3
  <2> QED BY <2>1, <2>2, <2>3
<1>4. Tap(s, tap, c) = s * d + (tap * Channels + c)
  <2>1. s * 3 * Channels = s * d
    BY <1>1
  <2> QED BY <2>1, <1>1 DEF Tap
<1>5. Tap(s, tap, c) = q * Channels + c
  <2>1. s * 3 * Channels + tap * Channels = q * Channels
    BY <1>1
  <2> QED BY <2>1, <1>1 DEF Tap
<1>6. Tap(s, tap, c) \div d = s
  <2> HIDE DEF d
  <2> QED BY <1>1, <1>2, <1>3, <1>4, Divided
<1>7. Tap(s, tap, c) \div Channels = q /\ Tap(s, tap, c) % Channels = c
  <2> HIDE DEF q
  <2>1. Channels \in Nat \ {0} /\ q \in Nat
    BY <1>1, <1>2
  <2>2. (q * Channels + c) \div Channels = q /\ (q * Channels + c) % Channels = c
    BY <2>1, Divided
  <2> QED BY <1>5, <2>2, Zenon
<1>8. q % 3 = tap
  BY <1>1, Divided
<1>9. Tap(s, tap, c) \in 0 .. Batch * 3 * Channels - 1
  <2> DEFINE k == tap * Channels + c
             b == Batch * d
             sd == s * d
  <2>1. Batch * 3 * Channels = b
    BY <1>1
  <2>2. (Batch - 1 - s) * d >= 0
    <3> HIDE DEF d
    <3> QED BY <1>1, <1>2
  <2>3. (Batch - 1 - s) * d = b - d - sd
    <3> HIDE DEF d
    <3> QED BY <1>1, <1>2
  <2>4. sd >= 0 /\ sd \in Int /\ b \in Int
    <3> HIDE DEF d
    <3> QED BY <1>1, <1>2
  <2>5. Tap(s, tap, c) = sd + k /\ k \in 0 .. d - 1 /\ d \in Int
    BY <1>2, <1>3, <1>4
  <2> HIDE DEF k, b, sd, d
  <2>6. Tap(s, tap, c) \in 0 .. b - 1
    BY <2>2, <2>3, <2>4, <2>5
  <2> QED BY <2>1, <2>6
<1>10. (Tap(s, tap, c) \div Channels) % 3 = tap
  <2> HIDE DEF q
  <2> QED BY <1>7, <1>8
<1> QED BY <1>6, <1>7, <1>9, <1>10

\* Every place of the state buffer is a tap of a channel of a sequence.
LEMMA IndexTap ==
  ASSUME NEW i \in 0 .. Batch * 3 * Channels - 1
  PROVE  \E s \in Seqs, tap \in 0 .. 2, c \in 0 .. Channels - 1 : i = Tap(s, tap, c)
<1>1. Channels \in Nat \ {0} /\ Batch \in Nat \ {0} /\ Batch * 3 * Channels \in Int
  BY LinearOK
<1>2. i \in Nat /\ i < Batch * 3 * Channels
  BY <1>1
<1>3. PICK q \in Nat, c \in 0 .. Channels - 1 : i = q * Channels + c
  BY <1>1, <1>2, DividedBack
<1>4. 3 \in Nat \ {0}
  OBVIOUS
<1>5. PICK s \in Nat, tap \in 0 .. 2 : q = s * 3 + tap
  <2>1. \E s \in Nat, r \in 0 .. 3 - 1 : q \div 3 = s /\ q % 3 = r /\ q = s * 3 + r
    BY <1>3, <1>4, DividedBack
  <2>2. 3 - 1 = 2
    OBVIOUS
  <2> QED BY <2>1, <2>2
<1>6. i = s * 3 * Channels + tap * Channels + c
  <2>1. (s * 3 + tap) * Channels = s * 3 * Channels + tap * Channels
    BY <1>1, <1>5
  <2>2. q * Channels = (s * 3 + tap) * Channels
    BY <1>5
  <2> DEFINE a == s * 3 * Channels
             b == tap * Channels
             e == q * Channels
             f == (s * 3 + tap) * Channels
  <2>3. f = a + b /\ e = f /\ i = e + c
    BY <2>1, <2>2, <1>3
  <2> HIDE DEF a, b, e, f
  <2>4. i = a + b + c
    BY <2>3
  <2> QED BY <2>4 DEF a, b
<1>7. s < Batch
  <2> SUFFICES ASSUME s >= Batch PROVE FALSE
    BY <1>1, <1>5
  <2> DEFINE a == s * 3 * Channels
             b == tap * Channels
             e == Batch * 3 * Channels
  <2>1. (s - Batch) * 3 \in Nat
    BY <1>1, <1>5
  <2>2. (s - Batch) * 3 * Channels >= 0
    BY <1>1, <2>1
  <2>3. (s - Batch) * 3 * Channels = a - e
    BY <1>1, <1>5
  <2>4. b >= 0 /\ a \in Int /\ b \in Int /\ e \in Int /\ c >= 0 /\ c \in Int
    BY <1>1, <1>5, <1>3
  <2>5. i = a + b + c /\ i < e
    BY <1>6, <1>2
  <2> HIDE DEF a, b, e
  <2>6. a - e >= 0
    BY <2>2, <2>3
  <2> QED BY <2>4, <2>5, <2>6
<1>8. s \in Seqs
  BY <1>1, <1>5, <1>7 DEF Seqs
<1> QED BY <1>3, <1>5, <1>6, <1>8 DEF Tap

\* An output made of the n-th token of a sequence.
Made(s, n, c) == [j \in 1 .. 4 |-> <<s, n + j - 4, c>>]

\* The window with the token that comes in is what its output is made of.
LEMMA MadeIs ==
  ASSUME NEW s, NEW n \in Int, NEW c
  PROVE  Append(Window(s, n, c), <<s, n, c>>) = Made(s, n, c)
<1> DEFINE y == Append(Window(s, n, c), <<s, n, c>>)
           S == {<<s, n - 3, c>>, <<s, n - 2, c>>, <<s, n - 1, c>>, <<s, n, c>>}
<1>1. Window(s, n, c) \in Seq(S) /\ Len(Window(s, n, c)) = 3
  BY DEF Window
<1> HIDE DEF S
<1>2. ASSUME NEW T, NEW z \in Seq(T), Len(z) = 3, NEW e \in T
      PROVE  /\ Append(z, e) \in Seq(T) /\ Len(Append(z, e)) = 4 /\ Append(z, e)[4] = e
             /\ Append(z, e)[1] = z[1] /\ Append(z, e)[2] = z[2] /\ Append(z, e)[3] = z[3]
  <2>1. Append(z, e) \in Seq(T)
    OBVIOUS
  <2>2. Len(Append(z, e)) = 4
    <3>1. Len(Append(z, e)) = Len(z) + 1
      OBVIOUS
    <3> QED BY <3>1, <1>2
  <2>3. Append(z, e)[4] = e
    <3>1. Append(z, e)[Len(z) + 1] = e
      OBVIOUS
    <3>2. Len(z) + 1 = 4
      BY <1>2
    <3> QED BY <3>1, <3>2
  <2>4. \A i \in 1 .. Len(z) : Append(z, e)[i] = z[i]
    OBVIOUS
  <2>5. 1 \in 1 .. Len(z) /\ 2 \in 1 .. Len(z) /\ 3 \in 1 .. Len(z)
    BY <1>2
  <2> QED BY <2>1, <2>2, <2>3, <2>4, <2>5
<1>3. /\ y \in Seq(S) /\ Len(y) = 4
      /\ y[1] = <<s, n - 3, c>> /\ y[2] = <<s, n - 2, c>> /\ y[3] = <<s, n - 1, c>> /\ y[4] = <<s, n, c>>
  <2>1. Window(s, n, c)[1] = <<s, n - 3, c>> /\ Window(s, n, c)[2] = <<s, n - 2, c>>
        /\ Window(s, n, c)[3] = <<s, n - 1, c>>
    BY DEF Window
  <2>2. <<s, n, c>> \in S
    BY DEF S
  <2>3. PICK z, e : z = Window(s, n, c) /\ e = <<s, n, c>>
    OBVIOUS
  <2>4. z \in Seq(S) /\ Len(z) = 3 /\ e \in S
    BY <1>1, <2>2, <2>3
  <2>5. y = Append(z, e)
    BY <2>3
  <2> HIDE DEF y
  <2>6. /\ y \in Seq(S) /\ Len(y) = 4 /\ y[4] = e
        /\ y[1] = z[1] /\ y[2] = z[2] /\ y[3] = z[3]
    BY <1>2, <2>4, <2>5
  <2> QED BY <2>1, <2>3, <2>6
<1>4. n + 1 - 4 = n - 3 /\ n + 2 - 4 = n - 2 /\ n + 3 - 4 = n - 1 /\ n + 4 - 4 = n
  OBVIOUS
<1>5. \A j \in 1 .. 4 : y[j] = <<s, n + j - 4, c>>
  <2>1. \A j \in 1 .. 4 : j = 1 \/ j = 2 \/ j = 3 \/ j = 4
    OBVIOUS
  <2> HIDE DEF y
  <2> QED BY <1>3, <1>4, <2>1
<1>6. y = [j \in 1 .. 4 |-> y[j]]
  <2> HIDE DEF y
  <2> QED BY <1>3
<1> HIDE DEF y, S
<1>7. y = Made(s, n, c)
  BY <1>5, <1>6 DEF Made
<1> QED BY <1>7 DEF y

\* The state buffer holds the last three tokens of every sequence.
Slides ==
  \A s \in Seqs, c \in 0 .. Channels - 1 : \A tap \in 0 .. 2 :
    window[Tap(s, tap, c)] = <<s, fed[s] + tap - 3, c>>

\* A call of m tokens of a sequence: every output is made of the token that was
\* due there and the three before it, and the window has slid by m.
LEMMA ConvolveIs ==
  ASSUME NEW s \in Seqs, NEW r \in Nat, NEW m \in Nat, fed \in [Seqs -> Nat], Slides
  PROVE  /\ DOMAIN Convolve(s, r, m).due = DOMAIN Convolve(s, r, m).out
         /\ \A a \in DOMAIN Convolve(s, r, m).out :
              LET x == Convolve(s, r, m).due[a]
              IN  Convolve(s, r, m).out[a] = Made(x[1], x[2], x[3])
         /\ \A tap \in 0 .. 2, c \in 0 .. Channels - 1 :
              Convolve(s, r, m).state[Tap(s, tap, c)] = <<s, fed[s] + m + tap - 3, c>>
<1> DEFINE old(c)  == [tap \in 1 .. 3 |-> window[Tap(s, tap - 1, c)]]
           x(c)    == [i \in 1 .. m |-> <<s, fed[s] + i - 1, c>>]
           places  == {<<i, c>> : i \in 1 .. m, c \in 0 .. Channels - 1}
           at(p)   == (r + p[1] - 1) * Channels + p[2]
           from(a) == CHOOSE p \in places : at(p) = a
           written == {at(p) : p \in places}
           ST == [i \in {Tap(s, tap, c) : tap \in 0 .. 2, c \in 0 .. Channels - 1} |->
                    Slid(old(i % Channels), x(i % Channels), m)[((i \div Channels) % 3) + 1]]
           OUT == [a \in written |->
                    LET p == from(a) IN Append(Slid(old(p[2]), x(p[2]), p[1] - 1), x(p[2])[p[1]])]
           DUE == [a \in written |-> x(from(a)[2])[from(a)[1]]]
<1>1. Convolve(s, r, m) = [state |-> ST, out |-> OUT, due |-> DUE]
  BY DEF Convolve
<1>2. fed[s] \in Nat
  OBVIOUS
<1>3. ASSUME NEW c \in 0 .. Channels - 1
      PROVE  old(c) = Window(s, fed[s], c)
  <2>1. old(c)[1] = <<s, fed[s] - 3, c>> /\ old(c)[2] = <<s, fed[s] - 2, c>> /\ old(c)[3] = <<s, fed[s] - 1, c>>
    <3>1. 0 \in 0 .. 2 /\ 1 \in 0 .. 2 /\ 2 \in 0 .. 2 /\ 1 \in 1 .. 3 /\ 2 \in 1 .. 3 /\ 3 \in 1 .. 3
          /\ 1 - 1 = 0 /\ 2 - 1 = 1 /\ 3 - 1 = 2
      OBVIOUS
    <3>2. window[Tap(s, 0, c)] = <<s, fed[s] + 0 - 3, c>> /\ window[Tap(s, 1, c)] = <<s, fed[s] + 1 - 3, c>>
          /\ window[Tap(s, 2, c)] = <<s, fed[s] + 2 - 3, c>>
      BY <3>1 DEF Slides
    <3>3. fed[s] + 0 - 3 = fed[s] - 3 /\ fed[s] + 1 - 3 = fed[s] - 2 /\ fed[s] + 2 - 3 = fed[s] - 1
      BY <1>2
    <3>4. old(c)[1] = window[Tap(s, 0, c)] /\ old(c)[2] = window[Tap(s, 1, c)] /\ old(c)[3] = window[Tap(s, 2, c)]
      BY <3>1
    <3> QED BY <3>2, <3>3, <3>4
  <2>2. old(c) = [i \in 1 .. 3 |-> old(c)[i]]
    OBVIOUS
  <2> DEFINE o == old(c)
             z == Window(s, fed[s], c)
  <2>3. z = [i \in 1 .. 3 |-> z[i]] /\ z[1] = <<s, fed[s] - 3, c>> /\ z[2] = <<s, fed[s] - 2, c>>
        /\ z[3] = <<s, fed[s] - 1, c>>
    BY DEF Window
  <2>4. \A i \in 1 .. 3 : i = 1 \/ i = 2 \/ i = 3
    OBVIOUS
  <2>5. o = [i \in 1 .. 3 |-> o[i]] /\ o[1] = <<s, fed[s] - 3, c>> /\ o[2] = <<s, fed[s] - 2, c>>
        /\ o[3] = <<s, fed[s] - 1, c>>
    BY <2>1, <2>2
  <2> HIDE DEF o, z, old
  <2>6. o = z
    BY <2>3, <2>4, <2>5
  <2> QED BY <2>6 DEF o, z
<1>4. ASSUME NEW c \in 0 .. Channels - 1, NEW k \in 0 .. m
      PROVE  Slid(old(c), x(c), k) = Window(s, fed[s] + k, c)
  <2>1. k \in Nat /\ \A i \in 1 .. k : x(c)[i] = <<s, fed[s] + i - 1, c>>
    OBVIOUS
  <2> HIDE DEF x, old
  <2> QED BY <1>2, <1>3, <2>1, SlidIs
<1>5. ASSUME NEW a \in written
      PROVE  OUT[a] = Made(DUE[a][1], DUE[a][2], DUE[a][3])
  <2>1. from(a) \in places
    <3> HIDE DEF at, places
    <3> QED OBVIOUS
  <2>2. PICK i \in 1 .. m, c \in 0 .. Channels - 1 : from(a) = <<i, c>>
    <3> HIDE DEF from
    <3> QED BY <2>1
  <2>3. from(a)[1] = i /\ from(a)[2] = c
    <3> HIDE DEF from
    <3> QED BY <2>2
  <2>4. OUT[a] = Append(Slid(old(c), x(c), i - 1), x(c)[i]) /\ DUE[a] = x(c)[i]
    <3> HIDE DEF from, old, x, written
    <3> QED BY <2>3
  <2>5. x(c)[i] = <<s, fed[s] + i - 1, c>>
    OBVIOUS
  <2>6. i - 1 \in 0 .. m /\ fed[s] + (i - 1) = fed[s] + i - 1 /\ fed[s] + i - 1 \in Int
    BY <1>2
  <2>7. Slid(old(c), x(c), i - 1) = Window(s, fed[s] + i - 1, c)
    <3>1. Slid(old(c), x(c), i - 1) = Window(s, fed[s] + (i - 1), c)
      <4> HIDE DEF old, x
      <4> QED BY <1>4, <2>6
    <3> QED BY <3>1, <2>6
  <2> HIDE DEF from, old, x, written, OUT, DUE
  <2>8. OUT[a] = Made(s, fed[s] + i - 1, c)
    BY <2>4, <2>5, <2>6, <2>7, MadeIs
  <2>9. DUE[a][1] = s /\ DUE[a][2] = fed[s] + i - 1 /\ DUE[a][3] = c
    BY <2>4, <2>5
  <2> QED BY <2>8, <2>9
<1>6. ASSUME NEW tap \in 0 .. 2, NEW c \in 0 .. Channels - 1
      PROVE  ST[Tap(s, tap, c)] = <<s, fed[s] + m + tap - 3, c>>
  <2> DEFINE i == Tap(s, tap, c)
  <2>1. (i \div Channels) % 3 = tap /\ i % Channels = c
    BY TapIndex
  <2>2. i \in {Tap(s, t, d) : t \in 0 .. 2, d \in 0 .. Channels - 1}
    OBVIOUS
  <2>3. ST[i] = Slid(old(i % Channels), x(i % Channels), m)[((i \div Channels) % 3) + 1]
    <3> HIDE DEF old, x, i
    <3> QED BY <2>2
  <2>4. ST[i] = Slid(old(c), x(c), m)[tap + 1]
    <3> HIDE DEF old, x, i, ST
    <3> QED BY <2>1, <2>3
  <2>5. Slid(old(c), x(c), m) = Window(s, fed[s] + m, c)
    <3>1. m \in 0 .. m
      OBVIOUS
    <3> HIDE DEF old, x
    <3> QED BY <1>4, <3>1
  <2>6. Window(s, fed[s] + m, c)[tap + 1] = <<s, fed[s] + m + tap - 3, c>>
    <3>1. CASE tap = 0
      BY <3>1, <1>2 DEF Window
    <3>2. CASE tap = 1
      BY <3>2, <1>2 DEF Window
    <3>3. CASE tap = 2
      BY <3>3, <1>2 DEF Window
    <3> QED BY <3>1, <3>2, <3>3
  <2> HIDE DEF old, x, ST
  <2> QED BY <2>4, <2>5, <2>6
<1>7. DOMAIN OUT = written /\ DOMAIN DUE = written
  <2> HIDE DEF from, old, x, written
  <2> QED OBVIOUS
<1> HIDE DEF ST, OUT, DUE, written
<1> QED BY <1>1, <1>5, <1>6, <1>7

\* What a session of convolutions keeps between its calls.
ConvOK ==
  /\ DOMAIN window = 0 .. Batch * 3 * Channels - 1
  /\ DOMAIN due = DOMAIN conv
  /\ family = "conv" => Slides
  /\ \A a \in DOMAIN conv : conv[a] = Made(due[a][1], due[a][2], due[a][3])

\* A call of the convolution, for any number of sequences, tokens and rows.
LEMMA ConvolvedOK ==
  ASSUME fed \in [Seqs -> Nat], ConvOK, NEW m \in Nat, NEW rows, DOMAIN rows \subseteq Seqs,
         \A s \in DOMAIN rows : rows[s] \in Nat, Convolved(rows, m)
  PROVE  ConvOK'
<1> DEFINE done  == [s \in DOMAIN rows |-> Convolve(s, rows[s], m)]
           of(i) == i \div (3 * Channels)
           cells == UNION {DOMAIN done[s].out : s \in DOMAIN rows}
           by(a) == CHOOSE s \in DOMAIN rows : a \in DOMAIN done[s].out
           OUT   == [a \in cells |-> done[by(a)].out[a]]
           DUE   == [a \in cells |-> done[by(a)].due[a]]
<1>1. /\ family = "conv" /\ family' = family
      /\ window' = [i \in DOMAIN window |->
                      IF of(i) \in DOMAIN rows THEN done[of(i)].state[i] ELSE window[i]]
      /\ conv' = Written(OUT, conv) /\ due' = Written(DUE, due)
      /\ fed' = [s \in Seqs |-> IF s \in DOMAIN rows THEN fed[s] + m ELSE fed[s]]
  BY Zenon DEF Convolved
<1>2. ASSUME NEW s \in DOMAIN rows
      PROVE  /\ done[s] = Convolve(s, rows[s], m)
             /\ DOMAIN done[s].due = DOMAIN done[s].out
             /\ \A a \in DOMAIN done[s].out :
                  done[s].out[a] = Made(done[s].due[a][1], done[s].due[a][2], done[s].due[a][3])
             /\ \A tap \in 0 .. 2, c \in 0 .. Channels - 1 :
                  done[s].state[Tap(s, tap, c)] = <<s, fed[s] + m + tap - 3, c>>
  <2>1. s \in Seqs /\ rows[s] \in Nat /\ Slides
    BY <1>1, Zenon DEF ConvOK
  <2>2. PICK d : d = Convolve(s, rows[s], m)
    OBVIOUS
  <2>3. done[s] = d
    BY <2>2
  <2>4. /\ DOMAIN d.due = DOMAIN d.out
        /\ \A a \in DOMAIN d.out : d.out[a] = Made(d.due[a][1], d.due[a][2], d.due[a][3])
        /\ \A tap \in 0 .. 2, c \in 0 .. Channels - 1 :
             d.state[Tap(s, tap, c)] = <<s, fed[s] + m + tap - 3, c>>
    BY <2>1, <2>2, ConvolveIs
  <2> HIDE DEF done
  <2> QED BY <2>2, <2>3, <2>4, SMTT(30)
<1> HIDE DEF done
<1>3. ASSUME NEW a \in cells PROVE OUT[a] = Made(DUE[a][1], DUE[a][2], DUE[a][3])
  <2>1. \E s \in DOMAIN rows : a \in DOMAIN done[s].out
    OBVIOUS
  <2>2. by(a) \in DOMAIN rows /\ a \in DOMAIN done[by(a)].out
    BY <2>1
  <2>3. OUT[a] = done[by(a)].out[a] /\ DUE[a] = done[by(a)].due[a]
    <3> HIDE DEF by, cells
    <3> QED OBVIOUS
  <2> HIDE DEF by, OUT, DUE
  <2> QED BY <1>2, <2>2, <2>3
<1>4. DOMAIN OUT = cells /\ DOMAIN DUE = cells
  <2> HIDE DEF by, cells
  <2> QED OBVIOUS
<1> HIDE DEF OUT, DUE, cells
<1>5. DOMAIN conv' = cells \cup DOMAIN conv /\ DOMAIN due' = cells \cup DOMAIN conv
  BY <1>1, <1>4 DEF Written, ConvOK
<1>6. ASSUME NEW a \in DOMAIN conv' PROVE conv'[a] = Made(due'[a][1], due'[a][2], due'[a][3])
  <2>1. CASE a \in cells
    <3>1. conv'[a] = OUT[a] /\ due'[a] = DUE[a]
      BY <1>1, <1>4, <2>1 DEF Written
    <3> QED BY <1>3, <2>1, <3>1
  <2>2. CASE a \notin cells
    <3>1. a \in DOMAIN conv /\ a \in DOMAIN due
      BY <1>5, <2>2 DEF ConvOK
    <3>2. conv'[a] = conv[a] /\ due'[a] = due[a]
      BY <1>1, <1>4, <2>2, <3>1 DEF Written
    <3> QED BY <3>1, <3>2 DEF ConvOK
  <2> QED BY <2>1, <2>2
<1>7. DOMAIN window' = 0 .. Batch * 3 * Channels - 1
  BY <1>1 DEF ConvOK
<1>8. Slides'
  <2> SUFFICES ASSUME NEW s \in Seqs, NEW c \in 0 .. Channels - 1, NEW tap \in 0 .. 2
               PROVE  window'[Tap(s, tap, c)] = <<s, fed'[s] + tap - 3, c>>
    BY DEF Slides
  <2>1. PICK i : i = Tap(s, tap, c)
    OBVIOUS
  <2>2. i \in DOMAIN window /\ of(i) = s
    BY <2>1, TapIndex DEF ConvOK
  <2> HIDE DEF of
  <2>3. CASE s \in DOMAIN rows
    <3>1. window'[i] = done[s].state[i]
      BY <1>1, <2>2, <2>3
    <3>2. fed'[s] = fed[s] + m
      BY <1>1, <2>3
    <3>3. done[s].state[i] = <<s, fed[s] + m + tap - 3, c>>
      BY <1>2, <2>1, <2>3
    <3> QED BY <2>1, <3>1, <3>2, <3>3
  <2>4. CASE s \notin DOMAIN rows
    <3>1. window'[i] = window[i] /\ fed'[s] = fed[s]
      BY <1>1, <2>2, <2>4
    <3>2. window[i] = <<s, fed[s] + tap - 3, c>>
      BY <1>1, <2>1 DEF ConvOK, Slides
    <3> QED BY <2>1, <3>1, <3>2
  <2> QED BY <2>3, <2>4
<1> QED BY <1>5, <1>6, <1>7, <1>8 DEF ConvOK

\* The invariant of the convolution holds at first.
LEMMA ConvInitially ==
  ASSUME LinearInit
  PROVE  ConvOK
<1>1. DOMAIN window = 0 .. Batch * 3 * Channels - 1 /\ DOMAIN due = DOMAIN conv /\ DOMAIN conv = {}
  BY DEF LinearInit
<1>2. ASSUME NEW s \in Seqs, NEW c \in 0 .. Channels - 1, NEW tap \in 0 .. 2
      PROVE  window[Tap(s, tap, c)] = <<s, fed[s] + tap - 3, c>>
  <2>1. PICK i : i = Tap(s, tap, c)
    OBVIOUS
  <2>2. i \in 0 .. Batch * 3 * Channels - 1 /\ i \div (3 * Channels) = s /\ (i \div Channels) % 3 = tap
        /\ i % Channels = c
    BY <2>1, TapIndex
  <2>3. window[i] = <<i \div (3 * Channels), ((i \div Channels) % 3) - 3, i % Channels>>
    BY <2>2 DEF LinearInit
  <2>4. window[i] = <<s, tap - 3, c>>
    BY <2>2, <2>3, Zenon
  <2>5. fed[s] = 0 /\ fed[s] + tap - 3 = tap - 3
    BY DEF LinearInit
  <2> QED BY <2>1, <2>4, <2>5
<1> QED BY <1>1, <1>2 DEF ConvOK, Slides

\* Every step: only a call of the convolution touches its buffers, and only in
\* a session of its own.
LEMMA ConvStep ==
  ASSUME RowsInv, ConvOK, [LinearNext \/ (LinearDone /\ UNCHANGED linearVars)]_linearVars
  PROVE  ConvOK'
<1>1. fed \in [Seqs -> Nat] /\ 0 \in Seqs /\ Batch \in Nat \ {0} /\ OutRows \in Nat
  BY LinearOK DEF RowsInv, LinearTypeOK, Seqs
<1>2. DOMAIN Only(0, 0) \subseteq Seqs /\ \A r : DOMAIN Only(0, r) \subseteq Seqs /\ Only(0, r)[0] = r
                                                /\ DOMAIN Only(0, r) = {0}
  BY <1>1 DEF Only
<1>3. CASE UNCHANGED <<family, fed, convVars>>
  BY <1>3 DEF convVars, ConvOK, Slides
<1>4. CASE family # "conv" /\ UNCHANGED <<family, convVars>>
  BY <1>4 DEF convVars, ConvOK, Slides
<1>5. ASSUME NEW fn, NEW m, NEW first, family # "conv", Feed(fn, m, first) PROVE ConvOK'
  BY <1>4, <1>5 DEF Feed
<1>6. CASE conv1d_silu_bf16
  <2>1. \A s \in DOMAIN Only(0, 0) : Only(0, 0)[s] \in Nat
    BY <1>2
  <2> QED BY <1>1, <1>2, <1>6, <2>1, ConvolvedOK DEF conv1d_silu_bf16
<1>7. CASE conv1d_silu_bf16_row
  <2>1. PICK r \in 0 .. OutRows : Convolved(Only(0, r), 1)
    BY <1>7 DEF conv1d_silu_bf16_row
  <2>2. \A s \in DOMAIN Only(0, r) : Only(0, r)[s] \in Nat
    BY <1>2
  <2> QED BY <1>1, <1>2, <2>1, <2>2, ConvolvedOK
<1>8. CASE conv1d_silu_chunk_bf16
  <2>1. PICK m \in 1 .. OutRows : Convolved(Only(0, 0), m)
    BY <1>8 DEF conv1d_silu_chunk_bf16
  <2>2. \A s \in DOMAIN Only(0, 0) : Only(0, 0)[s] \in Nat
    BY <1>2
  <2>3. m \in Nat
    BY <1>1
  <2> QED BY <1>1, <1>2, <2>1, <2>2, <2>3, ConvolvedOK
<1>9. CASE conv1d_silu_bf16_batched
  <2>1. PICK rows : rows = [s \in Seqs |-> s]
    OBVIOUS
  <2>2. DOMAIN rows \subseteq Seqs /\ \A s \in DOMAIN rows : rows[s] \in Nat
    BY <1>1, <2>1 DEF Seqs
  <2> QED BY <1>1, <1>9, <2>1, <2>2, ConvolvedOK DEF conv1d_silu_bf16_batched
<1>10. CASE gdn_decode \/ gdn_prefill \/ gdn_decode_tma \/ mamba2_selective_scan_decode
            \/ mamba2_selective_scan_prefill \/ linear_attn_chunk_prefill \/ linear_attn_state_update_mma
  BY <1>5, <1>10 DEF gdn_decode, gdn_prefill, gdn_decode_tma, mamba2_selective_scan_decode,
     mamba2_selective_scan_prefill, linear_attn_chunk_prefill, linear_attn_state_update_mma
<1>11. CASE BarSync
  BY <1>3, <1>11 DEF BarSync, KeepIn
<1>12. CASE \E w \in Lanes : WarpStep(w)
  <2>1. KeepIn
    BY <1>12, Zenon DEF WarpStep, GdnLoad, GdnStage, GdnAbsorb, GdnRead, GdnSave, MambaLoad, MambaUpdate,
       MambaSum, MambaSave, ChunkLoad, ChunkScan, ChunkOuter, ChunkMerge
  <2> QED BY <1>3, <2>1, SMTT(30) DEF KeepIn
<1>13. CASE Ended
  BY <1>3, <1>13 DEF Ended
<1>14. CASE UNCHANGED linearVars
  BY <1>3, <1>14 DEF linearVars, convVars
<1> QED BY <1>6, <1>7, <1>8, <1>9, <1>10, <1>11, <1>12, <1>13, <1>14 DEF LinearNext

-----------------------------------------------------------------------------
(* The theorems.                                                           *)

\* What the two invariants say of the states, outputs and windows.
LEMMA SequenceFollows ==
  ASSUME RowsInv, ConvOK
  PROVE  SequenceExact
<1>1. WindowExact
  <2> SUFFICES ASSUME NEW a \in DOMAIN conv
               PROVE  conv[a] = [j \in 1 .. 4 |-> <<due[a][1], due[a][2] + j - 4, due[a][3]>>]
    BY DEF WindowExact
  <2> QED BY DEF ConvOK, Made
<1>2. StateIsHistory
  <2> SUFFICES ASSUME scan = Idle, family # "conv", NEW w \in Lanes
               PROVE  /\ InOrder(state[w], fed[0])
                      /\ hf => \A i \in DOMAIN state[w] : state[w][i].rule # "plain"
    BY DEF StateIsHistory
  <2>1. Hist(state[w], fed[0], hf) /\ state[w] \in Seq(Token)
    BY DEF RowsInv, Rest, LinearTypeOK
  <2>2. DOMAIN state[w] = 1 .. fed[0]
    BY <2>1 DEF Hist, InOrder
  <2> QED BY <2>1, <2>2 DEF Hist
<1>3. OutputsOfOwnToken
  BY DEF RowsInv
<1> QED BY <1>1, <1>2, <1>3 DEF SequenceExact

\* The invariant holds from the start and after every step, for any block, any
\* number of sequences and channels, chunk length and bound.
THEOREM LinearInductive == LinearSpec => [](RowsInv /\ ConvOK)
<1>1. LinearInit => RowsInv /\ ConvOK
  BY RowsInitially, ConvInitially
<1>2. RowsInv /\ ConvOK /\ [LinearNext \/ (LinearDone /\ UNCHANGED linearVars)]_linearVars
        => (RowsInv /\ ConvOK)'
  BY RowsStep, ConvStep
<1> QED BY <1>1, <1>2, PTL DEF LinearSpec

\* However a sequence is cut into calls, and however the warps of a block run
\* between the bar.syncs, no token is lost, seen twice or seen early: each output
\* of the convolution is made of its token and the three before it, every row of
\* a state is the list of the tokens given so far, and every output but
\* gdn_prefill's is made of the state up to its token and of its own q.
THEOREM SequenceCorrect == LinearSpec => []SequenceExact
<1>1. RowsInv /\ ConvOK => SequenceExact
  BY SequenceFollows
<1> QED BY <1>1, LinearInductive, PTL
==============================================================================
