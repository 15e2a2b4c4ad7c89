-------------------------------- MODULE MCAttn --------------------------------
EXTENDS AttnForward, KvCache, LinearAttention

Shape(b, h, kv, sq, sk) ==
  [fn |-> "", batch |-> b, heads |-> h, kv_heads |-> kv, seq_q |-> sq, seq_kv |-> sk,
   max_seqlen_q |-> sq, total_q |-> 0, total_kv |-> 0, cu_len |-> 0,
   cu_q |-> [j \in 0 .. b |-> 0], cu_k |-> [j \in 0 .. b |-> 0],
   q |-> b * h * sq, k |-> b * h * sk, v |-> b * h * sk, o |-> b * h * sq,
   offset |-> 0, pos |-> [j \in 0 .. b |-> 0], pos_len |-> b, window |-> 3,
   page_size |-> 2, num_splits |-> 1, max_pages |-> sk, kv_stride |-> sk,
   lens |-> [j \in 0 .. b |-> (sk + j) \div 2], mask_len |-> sq * sk,
   tree |-> {<<i, key>> \in (0 .. sq) \X (0 .. sk) : (key + i) % 3 > 0},
   block_size |-> 2, k_top |-> 2, idx_len |-> b * sq * h * 2, blocks |-> [i \in 0 .. sq |-> {i % 2, 3}],
   table |-> [j \in 0 .. b |-> [p \in 0 .. sk |-> (2 * p + j) % (2 * sk + 1)]]]

\* Whole and broken tiles, one and several heads to a group, a last tile of
\* queries longer than the keys.
Shapes == {Shape(1, 2, 1, 5, 8), Shape(2, 2, 2, 3, 8), Shape(1, 4, 2, 9, 12), Shape(1, 1, 1, 9, 9),
           Shape(2, 1, 1, 8, 7), Shape(1, 2, 2, 6, 4)}
BadShapes == {Shape(0, 2, 2, 4, 4), Shape(1, 0, 1, 4, 4), Shape(1, 3, 2, 4, 4),
              Shape(1, 1, 0, 4, 4), Shape(1, 1, 1, 0, 4), Shape(1, 1, 1, 4, 0)}

\* One buffer a row too short, or V^T with the rows of its padding.
Refitted(c) ==
  {[c EXCEPT !.q = c.q - 1], [c EXCEPT !.k = c.k - 1], [c EXCEPT !.v = c.v - 1],
   [c EXCEPT !.o = c.o - 1], [c EXCEPT !.v = c.v + VtPad]}

Token(b, h, kv, cuq, cuk, n) ==
  [Shape(b, h, kv, 0, 0) EXCEPT
     !.cu_q = cuq, !.cu_k = cuk, !.total_q = cuq[b], !.total_kv = cuk[b],
     !.cu_len = b + 1, !.max_seqlen_q = n]

Cu(x, y) == [j \in 0 .. 2 |-> CASE j = 0 -> 0 [] j = 1 -> x [] j = 2 -> x + y]

\* Sequences of different lengths, an empty one, bad totals.
VarlenShapes ==
  {Token(2, 2, 1, Cu(5, 3), Cu(8, 4), 5), Token(2, 2, 2, Cu(0, 6), Cu(4, 8), 6),
   Token(2, 4, 2, Cu(3, 9), Cu(4, 12), 9), Token(2, 2, 2, Cu(3, 4), Cu(3, 5), 4),
   Token(2, 2, 2, Cu(0, 0), Cu(4, 4), 4), Token(2, 2, 2, Cu(2, 2), Cu(4, 4), 0),
   [Token(2, 2, 2, Cu(2, 2), Cu(4, 4), 2) EXCEPT !.cu_len = 2]}

Varied ==
  Shapes \cup UNION {Refitted(s) : s \in {Shape(1, 2, 2, 6, 4), Shape(1, 2, 2, 4, 8)}}
  \cup {[Shape(2, 2, 1, 3, 8) EXCEPT !.offset = o, !.pos = [j \in 0 .. 2 |-> o + 2 * j], !.pos_len = n] :
          o \in {1, 3}, n \in {1, 2}}
  \cup {[Shape(1, 2, 1, 6, 8) EXCEPT !.window = w] : w \in {0, 1, 5}}
  \cup {[Shape(1, 2, 1, 5, 12) EXCEPT !.num_splits = n] : n \in {2, 3, 4, 6}}

Over(fns, shapes) == UNION {{[s EXCEPT !.fn = f] : f \in fns} : s \in shapes}

\* Decoding with the keys up to a position of a longer cache, the same or another
\* for each sequence, and buffers a row too short.
CacheShape(b, h, kv, sk, stride) ==
  [Shape(b, h, kv, 1, sk) EXCEPT
     !.kv_stride = stride, !.q = b * h, !.o = b * h, !.k = b * kv * stride, !.v = b * kv * stride]
CacheShapes ==
  {CacheShape(2, 4, 2, 3, 4), CacheShape(1, 2, 2, 4, 4), CacheShape(2, 3, 1, 2, 3), CacheShape(1, 3, 2, 2, 3)}
AtPositions(c, p) == [c EXCEPT !.pos = p, !.offset = c.seq_kv - 1]
Decodes ==
  UNION {{AtPositions(c, [j \in 0 .. 2 |-> p]) : p \in 0 .. c.kv_stride - 1} : c \in CacheShapes}
  \cup {[AtPositions(c, [j \in 0 .. 2 |-> 2]) EXCEPT !.window = w] : c \in CacheShapes, w \in {0, 1, 2}}
  \cup {AtPositions(CacheShape(2, 2, 1, 3, 3), [j \in 0 .. 2 |-> 2 - j]), CacheShape(1, 2, 1, 4, 3)}
  \cup UNION {Refitted(c) : c \in CacheShapes}
  \cup {CacheShape(0, 2, 2, 2, 2), CacheShape(1, 0, 1, 2, 2), CacheShape(1, 2, 0, 2, 2), CacheShape(1, 2, 2, 0, 2)}

\* MLA and the explicit masks: whole and broken groups of heads and chunks of
\* keys, few and many blocks, and splits asked for, one of them without a chunk.
LatentShape(b, h, sq, sk) == [Shape(b, h, 1, sq, sk) EXCEPT !.num_splits = 3]
LatentShapes ==
  {LatentShape(b, h, 2, sk) : b \in {1, 2}, h \in {2, 3}, sk \in {3, 4, 7, 8}}
  \cup {LatentShape(2, 4, 3, 6), LatentShape(1, 4, 1, 3), LatentShape(1, 2, 1, 0), LatentShape(0, 2, 1, 2)}
  \cup {[LatentShape(1, 2, 1, 8) EXCEPT !.num_splits = n] : n \in {0, 1, 4, 5}}
  \cup Refitted(LatentShape(1, 2, 2, 4))
ExplicitShapes == {Shape(1, 2, 2, 2, 5), Shape(2, 1, 1, 3, 8), [Shape(1, 1, 1, 2, 4) EXCEPT !.mask_len = 7, !.idx_len = 3]}

MCCalls ==
  Over(DenseFns, Varied) \cup Over(DenseFns \ UncheckedFns, BadShapes)
  \cup Over(VarlenFns, VarlenShapes) \cup Over(DecodeFns, Decodes)
  \cup Over(LatentFns, LatentShapes) \cup Over(ExplicitFns, ExplicitShapes)

Chain(append, attend, heads, kv_heads) ==
  [append |-> append, attend |-> attend, batch |-> 1, heads |-> heads, kv_heads |-> kv_heads,
   head_dim |-> 2, window |-> 0, paged |-> FALSE, perSequence |-> FALSE, page_size |-> 1]

\* Positions from the host, from the device, of several sequences, and pages;
\* and blocks that a wrapper refuses.
MCChains ==
  {Chain(f, "flash_attn_bf16_decode_d128_gqa", 2, 2) :
     f \in {"kv_append_strided_bf16", "kv_append_strided_bf16_src_view"}}
  \cup {Chain("kv_append_strided_fp8", "fa_bf16_fp8kv_decode_d128_gqa", 4, 2)}
  \cup {[Chain(f, "flash_attn_bf16_decode_d256_gqa_pos_dev", 2, 2) EXCEPT !.window = w] :
          f \in {"kv_append_strided_bf16_pos_dev", "kv_append_multihead_bf16_pos_dev"}, w \in {0, 2}}
  \cup {Chain("kv_append_strided_fp8_pos_dev", "flash_attn_bf16_fp8kv_decode_d512_gqa_pos_dev", 2, 1)}
  \cup {[Chain("kv_append_strided_fp8_full_view", "fa_bf16_fp8kv_decode_d128_causal", 2, 2) EXCEPT
          !.batch = 2, !.perSequence = TRUE],
        [Chain("kv_append_strided_bf16_full_view", "fa_bf16_fp8kv_decode_d128_causal", 2, 2) EXCEPT
          !.perSequence = TRUE]}
  \cup {[Chain("kv_cache_fp8_write", "flash_attn_fp8_v3_paged_kv", 4, 2) EXCEPT
          !.batch = 2, !.paged = TRUE, !.page_size = n] : n \in {1, 2}}
  \cup {[Chain("kv_append_strided_bf16", "flash_attn_bf16_decode_d256_gqa", 2, 2) EXCEPT !.window = 2],
        [Chain("kv_append_strided_bf16_full_view", "flash_attn_bf16_decode_d128_gqa", 2, 2) EXCEPT !.batch = 2]}
  \cup {[Chain(f, "flash_attn_bf16_decode_d128_gqa", 2, 2) EXCEPT !.head_dim = n] :
          f \in {"kv_append_strided_bf16", "kv_append_strided_fp8"}, n \in {0, 3, 5}}

\* Either one call of any wrapper, or a session with a cache of keys, or one of
\* linear attention.
FirstCall  == CHOOSE c \in MCCalls : TRUE
FirstChain == CHOOSE x \in MCChains : TRUE
Session    == call = FirstCall
Linear     == Session /\ chain = FirstChain
Unfed      == family = "conv" /\ ~hf /\ fed = [s \in Seqs |-> 0]

MCInit ==
  /\ Init /\ SessionInit /\ LinearInit
  /\ \/ chain = FirstChain /\ Unfed
     \/ Session /\ Unfed
     \/ Linear

MCNext ==
  \/ made = 0 /\ Unfed /\ Next /\ UNCHANGED <<sessionVars, linearVars>>
  \/ turn = 0 /\ Session /\ Unfed /\ SessionNext /\ UNCHANGED <<vars, linearVars>>
  \/ turn = 0 /\ Linear /\ made = 0 /\ LinearNext /\ UNCHANGED <<vars, sessionVars>>
  \/ (SessionDone \/ LinearDone) /\ UNCHANGED <<vars, sessionVars, linearVars>>

MCSpec == MCInit /\ [][MCNext]_<<vars, sessionVars, linearVars>>
=============================================================================
