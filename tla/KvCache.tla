-------------------------------- MODULE KvCache --------------------------------
(***************************************************************************)
(* kv_cache/mod.rs, and a decoding session that composes its appends with  *)
(* the decode wrappers of attention/mod.rs: for each token the host puts   *)
(* on the stream the append of its K and V, a copy of the positions to the *)
(* device, and the attention.  The host runs ahead of the device, and may  *)
(* take tokens back (a rejected draft, a new request in an old slot), so   *)
(* the cache holds stale rows behind every position.                       *)
(***************************************************************************)
EXTENDS AttnRows, Sequences, FiniteSets

CONSTANTS
  MaxThreads,   \* 1024 threads per block
  MaxSeq,       \* places of a sequence in the cache
  MaxTokens,    \* bound: tokens the host makes
  MaxAhead,     \* bound: operations on the stream
  Chains        \* the pairs of an append and an attention, with their dimensions

ASSUME SessionOK == MaxThreads \in Nat /\ MaxSeq \in Nat \ {0}

\* The attentions over keys up to a length, up to the one position on the device,
\* up to each sequence's position, and over pages.
UpToLength ==
  {"flash_attn_bf16_decode_d128_gqa", "flash_attn_bf16_decode_d192_dv128_gqa",
   "fa_bf16_fp8kv_decode_d128_gqa", "flash_attn_bf16_decode_d256_gqa", "flash_attn_bf16_decode_d512_gqa"}
UpToPosition ==
  {"flash_attn_bf16_fp8kv_decode_d256_gqa_pos_dev", "flash_attn_bf16_fp8kv_decode_d512_gqa_pos_dev",
   "flash_attn_bf16_decode_d256_gqa_pos_dev", "flash_attn_bf16_decode_d512_gqa_pos_dev",
   "flash_attn_bf16_decode_d256_gqa_pos_dev_view", "flash_attn_bf16_decode_d512_gqa_pos_dev_view"}
UpToEach  == {"fa_bf16_fp8kv_decode_d128_causal"}
OverPages == {"flash_attn_bf16_v3_paged_kv", "flash_attn_fp8_v3_paged_kv"}
Windowed  ==
  {"flash_attn_bf16_decode_d256_gqa", "flash_attn_bf16_fp8kv_decode_d256_gqa_pos_dev",
   "flash_attn_bf16_decode_d256_gqa_pos_dev", "flash_attn_bf16_decode_d256_gqa_pos_dev_view"}
Appends ==
  {"kv_append_strided_bf16", "kv_append_strided_bf16_src_view", "kv_append_strided_bf16_full_view",
   "kv_append_strided_fp8", "kv_append_strided_fp8_full_view", "kv_append_strided_bf16_pos_dev",
   "kv_append_strided_fp8_pos_dev", "kv_append_multihead_bf16_pos_dev"}

\* What the caller answers for: an append and an attention that agree on where
\* the keys are and how many.
Coupled(x) ==
  /\ {x.batch, x.heads, x.kv_heads, x.page_size} \subseteq Nat \ {0} /\ x.heads % x.kv_heads = 0
  /\ x.head_dim \in Nat /\ x.window \in Nat
  /\ {x.paged, x.perSequence} \subseteq BOOLEAN
  /\ x.attend \in UpToLength \cup UpToPosition \cup UpToEach \cup OverPages
  /\ x.window > 0 => x.attend \in Windowed
  /\ x.perSequence <=> x.attend \in UpToEach
  /\ x.attend \in UpToEach => x.heads = x.kv_heads
  /\ x.paged <=> x.attend \in OverPages
  /\ IF x.paged THEN x.append = "kv_cache_fp8_write" ELSE x.append \in Appends

ASSUME ChainsOK == \A x \in Chains : Coupled(x)

-----------------------------------------------------------------------------
(* The appends.  A call a has kv_heads, head_dim, max_seq, the position,   *)
(* and the lengths src and dst of its buffers; base is where the view of   *)
(* the cache that it is passed begins.                                     *)

NotAppended == [accepted |-> FALSE]

\* Mutant: tokens outside, heads inside.
TokenMajor(a, position, tensors) ==
  [accepted |-> TRUE, tensors |-> tensors,
   rows |-> [h \in 0 .. a.kv_heads - 1 |-> a.base + position * a.kv_heads + h]]

\* The row of each head.
HeadMajor(a, position, tensors) ==
  [accepted |-> TRUE, tensors |-> tensors,
   rows |-> [h \in 0 .. a.kv_heads - 1 |-> a.base + h * a.max_seq + position]]

AppendDims(a) == a.kv_heads > 0 /\ a.head_dim > 0 /\ a.max_seq > 0
AppendFits(a) == a.src >= a.kv_heads * a.head_dim /\ a.dst >= a.kv_heads * a.max_seq * a.head_dim
Bf16Block(a)  == a.head_dim <= MaxThreads
Fp8Block(a)   == a.head_dim % 2 = 0 /\ a.head_dim \div 2 <= MaxThreads

\* The position is an argument and is compared with max_seq.
AtHostPosition(a, block) ==
  IF AppendDims(a) /\ a.position < a.max_seq /\ block /\ AppendFits(a)
  THEN HeadMajor(a, a.position, {"K", "V"}) ELSE NotAppended

\* The position is read when the kernel runs, and compared with nothing.
AtDevicePosition(a, block, tensors, position) ==
  IF AppendDims(a) /\ block /\ AppendFits(a) THEN HeadMajor(a, position, tensors) ELSE NotAppended

kv_append_strided_bf16(a)           == AtHostPosition(a, Bf16Block(a))
kv_append_strided_bf16_src_view(a)  == AtHostPosition(a, Bf16Block(a))
kv_append_strided_bf16_full_view(a) == AtHostPosition(a, Bf16Block(a))
kv_append_strided_fp8(a)            == AtHostPosition(a, Fp8Block(a))
kv_append_strided_fp8_full_view(a)  == AtHostPosition(a, Fp8Block(a))
kv_append_strided_bf16_pos_dev(a, position) ==
  AtDevicePosition(a, Bf16Block(a), {"K", "V"}, position)
kv_append_strided_fp8_pos_dev(a, position) ==
  AtDevicePosition(a, Fp8Block(a), {"K", "V"}, position)

\* One tensor to a call; a block that is too large the driver refuses.
kv_append_multihead_bf16_pos_dev(a, position, tensor) ==
  AtDevicePosition(a, Bf16Block(a), {tensor}, position)

\* One warp for each sequence and head: the place comes from the caller's pages.
kv_cache_fp8_write(a) ==
  IF a.batch > 0 /\ a.kv_heads > 0 /\ a.page_size > 0
  THEN [accepted |-> TRUE, tensors |-> {"K", "V"},
        rows |-> [h \in 0 .. a.kv_heads - 1 |-> (a.page * a.page_size + a.slot) * a.kv_heads + h]]
  ELSE NotAppended

-----------------------------------------------------------------------------
(* A session: chain has append, attend, paged, batch, heads, kv_heads,     *)
(* head_dim, window and page_size.                                         *)

VARIABLES
  chain,     \* the wrappers the session uses
  history,   \* of each sequence, the tokens the host takes to be in the cache
  made,      \* tokens made
  stream,    \* operations the device has yet to run
  devpos,    \* the positions in device memory
  cache,     \* the rows of K and V
  failed,    \* an append was refused: the host stops
  answer     \* what the last attention read, and what it was to read

sessionVars == <<chain, history, made, stream, devpos, cache, failed, answer>>

Slots    == 0 .. chain.batch - 1
Table(b) == [p \in 0 .. MaxSeq |-> p * chain.batch + b]

AppendCall(b, position) ==
  [batch |-> chain.batch, kv_heads |-> chain.kv_heads, head_dim |-> chain.head_dim,
   max_seq |-> MaxSeq, position |-> position, base |-> b * chain.kv_heads * MaxSeq,
   src |-> chain.kv_heads * chain.head_dim, dst |-> chain.kv_heads * MaxSeq * chain.head_dim,
   page |-> Table(b)[position \div chain.page_size], slot |-> position % chain.page_size,
   page_size |-> chain.page_size]

\* What an append does, device being the position in device memory.
Appended(a, device, tensor) ==
  CASE chain.append = "kv_append_strided_bf16"           -> kv_append_strided_bf16(a)
    [] chain.append = "kv_append_strided_bf16_src_view"  -> kv_append_strided_bf16_src_view(a)
    [] chain.append = "kv_append_strided_bf16_full_view" -> kv_append_strided_bf16_full_view(a)
    [] chain.append = "kv_append_strided_fp8"            -> kv_append_strided_fp8(a)
    [] chain.append = "kv_append_strided_fp8_full_view"  -> kv_append_strided_fp8_full_view(a)
    [] chain.append = "kv_append_strided_bf16_pos_dev"   -> kv_append_strided_bf16_pos_dev(a, device)
    [] chain.append = "kv_append_strided_fp8_pos_dev"    -> kv_append_strided_fp8_pos_dev(a, device)
    [] chain.append = "kv_append_multihead_bf16_pos_dev" ->
         kv_append_multihead_bf16_pos_dev(a, device, tensor)
    [] chain.append = "kv_cache_fp8_write"               -> kv_cache_fp8_write(a)

\* K and V are appended by one call, or by one call each.
Tensors == IF chain.append = "kv_append_multihead_bf16_pos_dev" THEN <<"K", "V">> ELSE <<"K">>

\* The attention over lengths keys, the positions being those on the device.
AttendCall(length, positions) ==
  [fn |-> chain.attend, batch |-> chain.batch, heads |-> chain.heads, kv_heads |-> chain.kv_heads,
   seq_q |-> 1, seq_kv |-> length, kv_stride |-> MaxSeq, offset |-> length - 1,
   q |-> chain.batch * chain.heads, o |-> chain.batch * chain.heads,
   k |-> chain.batch * chain.kv_heads * MaxSeq, v |-> chain.batch * chain.kv_heads * MaxSeq,
   pos |-> positions, pos_len |-> chain.batch, window |-> chain.window, num_splits |-> 1,
   page_size |-> chain.page_size, table |-> [b \in Slots |-> Table(b)],
   lens |-> [b \in Slots |-> length],
   cu_q |-> [b \in 0 .. chain.batch |-> 0], cu_k |-> [b \in 0 .. chain.batch |-> 0],
   max_seqlen_q |-> 1, total_q |-> 0, total_kv |-> 0, cu_len |-> 0, max_pages |-> MaxSeq,
   mask_len |-> 0, block_size |-> 0, k_top |-> 0, idx_len |-> 0,
   tree |-> {}, blocks |-> [i \in 0 .. 1 |-> {}]]

Rows == 0 .. (MaxSeq + 1) * chain.batch * chain.page_size * chain.kv_heads - 1
Nothing == <<>>

SessionInit ==
  /\ chain \in Chains
  /\ history = [b \in Slots |-> <<>>]
  /\ made = 0 /\ stream = <<>> /\ failed = FALSE
  /\ devpos = [b \in Slots |-> 0]
  /\ cache = [t \in {"K", "V"} |-> [r \in Rows |-> Nothing]]
  /\ answer = [read |-> {}, due |-> {}]

\* The tokens that a head is to attend: those of its sequence, in its window.
Due(now) ==
  {<<x[1], x[2], x[3], now[x[1]][x[3] + 1]>> :
     x \in {x \in Slots \X (0 .. chain.heads - 1) \X (0 .. MaxSeq - 1) :
             x[3] < Len(now[x[1]]) /\ (chain.window > 0 => x[3] + chain.window >= Len(now[x[1]]))}}

\* Where a wrapper does not look at the position, its caller has to.
PlaceIsChecked ==
  chain.append \notin {"kv_append_strided_bf16_pos_dev", "kv_append_strided_fp8_pos_dev",
                       "kv_append_multihead_bf16_pos_dev", "kv_cache_fp8_write"}

\* The host makes a token for each sequence.  A kernel without a mask of its own
\* is given whole tiles only.
MakeToken ==
  /\ ~failed /\ made < MaxTokens /\ Len(stream) < MaxAhead
  /\ PlaceIsChecked \/ \A b \in Slots : Len(history[b]) < MaxSeq
  /\ LET at     == [b \in Slots |-> Len(history[b])]
         now    == [b \in Slots |-> Append(history[b], made + 1)]
         copy   == <<[op |-> "positions", at |-> at]>>
         append == [n \in 1 .. chain.batch * Len(Tensors) |->
                      LET b == (n - 1) \div Len(Tensors)
                      IN  [op |-> "append", b |-> b, at |-> at[b], token |-> made + 1,
                           tensor |-> Tensors[((n - 1) % Len(Tensors)) + 1]]]
         whole  == chain.paged => Len(now[0]) % Tile = 0
         attend == IF whole THEN <<[op |-> "attend", length |-> Len(now[0]), due |-> Due(now)]>>
                   ELSE <<>>
     IN  IF \A b \in Slots : Appended(AppendCall(b, at[b]), at[b], "K").accepted
         THEN /\ history' = now /\ made' = made + 1
              /\ stream' = stream \o copy \o append \o attend
              /\ UNCHANGED failed
         ELSE failed' = TRUE /\ UNCHANGED <<history, made, stream>>
  /\ UNCHANGED <<chain, devpos, cache, answer>>

\* The host takes back the last tokens of a sequence.
TakeBack ==
  /\ ~failed
  /\ \E b \in Slots : \E n \in 0 .. Len(history[b]) - 1 :
       /\ chain.perSequence \/ chain.batch = 1
       /\ history' = [history EXCEPT ![b] = SubSeq(@, 1, n)]
  /\ UNCHANGED <<chain, made, stream, devpos, cache, failed, answer>>

\* The device runs the next operation of the stream.
CopyPositions ==
  /\ stream # <<>> /\ Head(stream).op = "positions"
  /\ devpos' = Head(stream).at
  /\ stream' = Tail(stream)
  /\ UNCHANGED <<chain, history, made, cache, failed, answer>>

RunAppend ==
  /\ stream # <<>> /\ Head(stream).op = "append"
  /\ LET e == Head(stream)
         w == Appended(AppendCall(e.b, e.at), devpos[e.b], e.tensor)
     IN  cache' = [t \in {"K", "V"} |-> [r \in Rows |->
           IF t \in w.tensors /\ \E h \in DOMAIN w.rows : w.rows[h] = r
           THEN <<e.b, CHOOSE h \in DOMAIN w.rows : w.rows[h] = r, e.token>> ELSE cache[t][r]]]
  /\ stream' = Tail(stream)
  /\ UNCHANGED <<chain, history, made, devpos, failed, answer>>

RunAttend ==
  /\ stream # <<>> /\ Head(stream).op = "attend"
  /\ LET c == AttendCall(IF chain.perSequence THEN MaxSeq ELSE Head(stream).length, devpos)
     IN  answer' = [due  |-> Head(stream).due,
                    read |-> UNION {{<<s.row, k[1], cache["K"][k[2]], cache["V"][k[2]]>> : k \in s.keys} :
                                      s \in Stores(Chosen(c), c, 0)}]
  /\ stream' = Tail(stream)
  /\ UNCHANGED <<chain, history, made, devpos, cache, failed>>

SessionDone ==
  stream = <<>> /\ (failed \/ made = MaxTokens \/ \E b \in Slots : Len(history[b]) = MaxSeq)

SessionNext == MakeToken \/ TakeBack \/ CopyPositions \/ RunAppend \/ RunAttend

SessionSpec == SessionInit /\ [][SessionNext \/ (SessionDone /\ UNCHANGED sessionVars)]_sessionVars

-----------------------------------------------------------------------------
(* Properties.                                                             *)

\* Each attention of a session reads, for every head, K and V of exactly the
\* tokens that the host had in the sequence when it asked, in the head's own
\* rows: never a token that was taken back, a sequence or head next to it, or a
\* token of a step the host has gone on to.
StepExact ==
  answer.read =
    {LET g == d[2] \div (chain.heads \div chain.kv_heads)
     IN  <<<<d[1], d[2], 0>>, d[3], <<d[1], g, d[4]>>, <<d[1], g, d[4]>>>> : d \in answer.due}
=============================================================================
