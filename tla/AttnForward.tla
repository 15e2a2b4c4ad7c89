----------------------------- MODULE AttnForward -----------------------------
(***************************************************************************)
(* One call of an attention wrapper, from the launch to the output.        *)
(* A launch's blocks share nothing but the output, so a launch is one step *)
(* that records the rows of O it stores and the keys they attend.  The     *)
(* split kernels of prefill are launched once for each split, those of MLA *)
(* once for all; a combine merges what they left.                          *)
(***************************************************************************)
EXTENDS AttnRows, FiniteSets

CONSTANT Calls          \* the calls considered, each of the wrapper c.fn

ASSUME CallsOK == \A c \in Calls : Callable(c)

VARIABLES
  call,      \* the call
  launch,    \* the launch its wrapper makes, or Refused
  turn,      \* launches made
  parts,     \* of the split kernels: the rows of each partial output
  stored,    \* whether O has been written
  out        \* the rows stored in O

vars == <<call, launch, turn, parts, stored, out>>

\* The splits' outputs weighted by their sums: a split without a key weighs 0.
Merged(rows) ==
  {[at |-> s.at, tile |-> <<0, 0>>, row |-> s.row,
    keys |-> UNION {p.keys : p \in {p \in UNION {rows[k] : k \in 0 .. turn - 1} : p.at = s.at}}] :
     s \in rows[0]}

-----------------------------------------------------------------------------

Init ==
  /\ call \in Calls
  /\ launch = Chosen(call)
  /\ turn = 0
  /\ parts = <<>>
  /\ out = {} /\ stored = FALSE

\* The only launch of a kernel that does not split the keys.
Run ==
  /\ launch.accepted /\ ~launch.split /\ turn = 0
  /\ out' = Stores(launch, call, 0) /\ stored' = TRUE
  /\ turn' = 1
  /\ UNCHANGED <<call, launch, parts>>

\* The launch of the next split writes its place of the partial outputs.
RunSplit ==
  /\ launch.accepted /\ launch.split /\ launch.layout = "dense" /\ turn < launch.splits
  /\ parts' = [k \in 0 .. turn |-> IF k < turn THEN parts[k] ELSE Stores(launch, call, turn)]
  /\ turn' = turn + 1
  /\ UNCHANGED <<call, launch, stored, out>>

\* A block of the grid for each split of the latent cache.
RunAllSplits ==
  /\ launch.accepted /\ launch.split /\ launch.layout = "token" /\ turn = 0
  /\ parts' = [k \in 0 .. launch.splits - 1 |-> Stores(launch, call, k)]
  /\ turn' = launch.splits
  /\ UNCHANGED <<call, launch, stored, out>>

flash_decoding_combine ==
  /\ launch.accepted /\ launch.split /\ turn = launch.splits /\ turn > 0 /\ ~stored
  /\ out' = Merged(parts) /\ stored' = TRUE
  /\ UNCHANGED <<call, launch, turn, parts>>

Done == ~launch.accepted \/ stored

Next == Run \/ RunSplit \/ RunAllSplits \/ flash_decoding_combine \/ (Done /\ UNCHANGED vars)

Spec == Init /\ [][Next]_vars

-----------------------------------------------------------------------------
(* Properties.                                                             *)

\* The state has its types.
ForwardTypeOK ==
  /\ turn \in Nat /\ stored \in BOOLEAN
  /\ launch.accepted =>
       launch.br > 0 /\ launch.bc > 0 /\ launch.grid_x > 0 /\ launch.step <= NumSMs
  /\ DOMAIN parts \subseteq Nat
  /\ \A s \in out : s.at \in Nat /\ \A k \in s.keys : k[1] \in Nat /\ k[2] \in Nat \cup {NoRow}

\* Every row of every head is stored by one block and no other row of O is:
\* tiles, persistent blocks, sequences of different lengths and the merge of
\* splits neither leave out nor repeat a row.
RowsWrittenOnce ==
  stored =>
    LET rows == IF Ragged(launch) THEN call.heads * call.cu_q[call.batch] ELSE call.batch * call.heads * launch.rows
    IN  /\ {s.at : s \in out} = 0 .. rows - 1
        /\ Cardinality({<<s.at, s.tile, s.row>> : s \in out}) = rows

\* The sequences of a batch of which the kernel reads one position have that
\* position, inside the cache.
OnePosition(L, c) ==
  L.bound = "first" => \A b \in Batches(c) : c.pos[b] = c.pos[0] /\ c.pos[b] < L.stride

\* The position of a sequence, and its number of keys.
OwnPosition(L, c, b) == IF L.pos = "first" THEN c.pos[b] ELSE Position(L, c, b)
OwnKv(L, c, b)       == IF L.bound = "first" THEN c.pos[b] + 1 ELSE SeqKv(L, c, b)

\* Whether the mask of the wrapper's name leaves row i a key.
MaskLeaves(L, c, b, i, key) ==
  /\ L.mask \in {"causal", "diagonal", "window"} => key <= i + OwnPosition(L, c, b)
  /\ L.mask = "window" => i - key < c.window
  /\ L.mask = "sliding" /\ c.window > 0 => OwnPosition(L, c, b) - key < c.window
  /\ L.mask = "tree" => <<i, key>> \in c.tree
  /\ L.mask = "blocks" => \E t \in c.blocks[i] : t * L.bc <= key /\ key < (t + 1) * L.bc

ReferenceKeys(L, c, b, i) == {key \in 0 .. OwnKv(L, c, b) - 1 : MaskLeaves(L, c, b, i, key)}

\* What a kernel that does not look where the sequence ends adds to them: the
\* rest of the last tile, as far as the mask leaves it.
Padding(L, c, b, i) ==
  {key \in OwnKv(L, c, b) .. CeilDiv(OwnKv(L, c, b), L.bc) * L.bc - 1 :
     ~L.masks /\ MaskLeaves(L, c, b, i, key)}

OwnHead(L, c, h) == CHOOSE g \in 0 .. L.kv_heads - 1 :
  \E m \in 0 .. c.heads \div L.kv_heads - 1 : h = g * (c.heads \div L.kv_heads) + m

\* At every length a row attends each key that the mask leaves it, once, in its
\* own sequence and in the head of its group, and nothing else but the padding
\* of the last tile where the kernel does not mask it: whatever the tiles, the
\* loop's bound and the splits.
KeysExact ==
  stored /\ OnePosition(launch, call) =>
    \A s \in out :
      LET b == s.row[1]  h == s.row[2]  i == s.row[3]
          want == ReferenceKeys(launch, call, b, i)
          rest == Padding(launch, call, b, i)
      IN  /\ {k[1] : k \in s.keys} = want \cup rest
          /\ Cardinality(s.keys) = Cardinality(want \cup rest)
          /\ \A k \in s.keys : k[1] \in want => k[2] = FlatKey(launch, call, b, OwnHead(launch, call, h), k[1])

\* What docs/CORRECTNESS.md:99-109 says of the end of the sequence: a kernel without
\* a mask attends none but the keys of the sequence when seq_kv is a multiple of
\* the 64 rows of a tile, a causal one at any length.
ExactAsDocumented ==
  stored /\ call.fn \in DenseFns \cup VarlenFns =>
    \A s \in out :
      LET kv == SeqKv(launch, call, s.row[1])
      IN  (launch.mask = "none" => kv % Tile = 0) => \A k \in s.keys : k[1] < kv

\* Whatever the lengths, a kernel whose threads copy the tiles reads no row of
\* another sequence or head: behind the sequence it attends zeros.
Isolation ==
  stored /\ launch.load # "tma" =>
    \A s \in out : \A k \in s.keys :
      LET b == s.row[1]  h == s.row[2]
      IN  k[2] # NoRow =>
            /\ k[1] < SeqKv(launch, call, b)
            /\ k[2] = FlatKey(launch, call, b, OwnHead(launch, call, h), k[1])

\* The wrappers that measure the buffers.
Measuring ==
  {"flash_attn_bf16_d128", "flash_attn_bf16_d128_causal", "flash_attn_bf16_v3_d128",
   "flash_attn_bf16_v3_d128_causal", "flash_attn_bf16_v22_db", "flash_attn_bf16_v3_d256",
   "flash_attn_bf16_v3_d256_causal", "flash_attn_fp8_d128", "flash_attn_fp8_d128_causal",
   "flash_attn_bf16_v3_d256_gqa", "flash_attn_bf16_v3_d256_gqa_causal",
   "flash_attn_bf16_v3_d256_gqa_causal_with_offset",
   "flash_attn_bf16_v3_d256_gqa_causal_pos_dev",
   "flash_attn_bf16_fp8kv_v3_d256_gqa_causal_pos_dev", "flash_attn_bf16_v8_tma_db_d128",
   "flash_attn_bf16_v11_fused_scale", "flash_attn_bf16_v12_persistent",
   "flash_attn_bf16_v13_bc32_d128", "flash_attn_bf16_v11_causal",
   "flash_attn_bf16_v20_tma_bc128", "flash_attn_bf16_v21_streaming_p",
   "flash_attn_bf16_v21_causal", "flash_attn_bf16_v21_softcap_causal",
   "flash_attn_bf16_v21_swa", "flash_attn_bf16_v21_swa_softcap", "flash_attn_fp8_v11_tma",
   "flash_attn_fp8_v12a_transpose", "flash_attn_fp8_v12c_vt", "flash_attn_fp8_v12c_vt_causal",
   "flash_attn_bf16_decode_d128_gqa", "flash_attn_bf16_decode_d192_dv128_gqa",
   "fa_bf16_fp8kv_decode_d128_gqa", "flash_attn_bf16_decode_d256_gqa",
   "flash_attn_bf16_decode_d512_gqa", "flash_attn_bf16_fp8kv_decode_d256_gqa_pos_dev",
   "flash_attn_bf16_fp8kv_decode_d512_gqa_pos_dev", "flash_attn_bf16_decode_d256_gqa_pos_dev",
   "flash_attn_bf16_decode_d512_gqa_pos_dev", "fa_bf16_fp8kv_decode_d128",
   "fa_bf16_fp8kv_decode_d128_causal", "mla_decode_bf16", "mla_prefill_bf16"}

\* A wrapper that measures the buffers launches nothing that reads or writes
\* behind them, at any length and at any position inside the cache.
InBounds ==
  stored /\ call.fn \in Measuring /\ (launch.bound = "first" => call.pos[0] < call.kv_stride) =>
    /\ launch.v_stride <= call.v
    /\ \A s \in out : s.at < call.o
                      /\ \A k \in s.keys : k[2] < call.k /\ (launch.v_stride = 0 => k[2] < call.v)
=============================================================================
