---------------------------- MODULE LinearAttention ----------------------------
(***************************************************************************)
(* linear_attention/mod.rs: the layers whose memory of a sequence outlives *)
(* a call.  A session feeds a sequence to the calls of one family: the     *)
(* causal convolution with its window of three tokens (one token, a row of *)
(* a larger buffer, a chunk, or one token of each of several sequences),   *)
(* the gated delta rule, Mamba2, or the chunk kernel, in prefills and      *)
(* decodes of any length.  Within a block the warps run between bar.syncs. *)
(* A state is the list of the tokens it has absorbed.                      *)
(***************************************************************************)
EXTENDS Integers, Sequences, FiniteSets

CONSTANTS
  Lanes,      \* the 128 threads of a block, as warps
  Channels,   \* total_qkv
  Batch,      \* sequences of the batched convolution
  OutRows,    \* rows that fit the convolution's current and out
  ChunkLen,   \* C = 32 tokens of a chunk
  MaxFed      \* bound: tokens of a sequence

ASSUME LinearOK ==
  /\ 0 \in Lanes /\ Lanes \subseteq Nat
  /\ {Channels, Batch, OutRows, ChunkLen} \subseteq Nat \ {0} /\ Batch <= OutRows /\ MaxFed \in Nat

Families == {"conv", "gdn", "gdn_tma", "mamba2", "chunk"}

VARIABLES
  family,  \* the calls of the session
  hf,      \* SPARK_GDN_HF is set
  fed,     \* of each sequence, the tokens given so far
  window,  \* the convolution's state buffer, [Batch, 3, Channels]
  conv,    \* its output rows: the inputs each output was made of
  due,     \* and the input the caller put in that place
  scan,    \* the call in progress
  lane,    \* of each warp: where it is, where after a bar.sync, the token
  shared,  \* q, k and partial sums in shared memory
  row,     \* each warp's rows of the state, in shared memory or registers
  state,   \* the same in global memory
  answers        \* the outputs of the last call: the rows and the q they were made of

convVars   == <<window, conv, due>>
scanVars   == <<scan, lane, shared, row, state, answers>>
linearVars == <<family, hf, fed, window, conv, due, scan, lane, shared, row, state, answers>>

Seqs == 0 .. Batch - 1
Idle == [fn |-> "none", base |-> 0, m |-> 0]
Old  == [k |-> -1, q |-> -1, part |-> <<>>]

LinearInit ==
  /\ family \in Families /\ hf \in BOOLEAN
  /\ fed = [s \in Seqs |-> 0]
  /\ window = [i \in 0 .. Batch * 3 * Channels - 1 |->
       <<i \div (3 * Channels), ((i \div Channels) % 3) - 3, i % Channels>>]
  /\ conv = << >> /\ due = << >>
  /\ scan = Idle
  /\ lane = [w \in Lanes |-> [at |-> "exit", to |-> "exit", t |-> 0]]
  /\ shared = [w \in Lanes |-> Old]
  /\ row = [w \in Lanes |-> << >>]
  /\ state = [w \in Lanes |-> << >>]
  /\ answers = << >>

\* One entry, and the entries of new in place of those of old.
Only(x, entry)    == [y \in {x} |-> entry]
Written(new, old) ==
  [y \in DOMAIN new \cup DOMAIN old |-> IF y \in DOMAIN new THEN new[y] ELSE old[y]]

-----------------------------------------------------------------------------
(* The convolution.  x = <<sequence, token, channel>> is an input.         *)

Tap(s, tap, c) == s * 3 * Channels + tap * Channels + c

\* The window after m tokens, token by token: it slides by one.
Slid(old, x, m) ==
  LET after[i \in 0 .. m] == IF i = 0 THEN old ELSE Append(Tail(after[i - 1]), x[i])
  IN  after[m]

\* The threads of sequence s, a channel each: m tokens, from row r of the buffers.
Convolve(s, r, m) ==
  LET old(c)    == [tap \in 1 .. 3 |-> window[Tap(s, tap - 1, c)]]
      x(c)      == [i \in 1 .. m |-> <<s, fed[s] + i - 1, c>>]
      places    == {<<i, c>> : i \in 1 .. m, c \in 0 .. Channels - 1}
      at(p)     == (r + p[1] - 1) * Channels + p[2]
      from(a)   == CHOOSE p \in places : at(p) = a
      written   == {at(p) : p \in places}
  IN  [state |-> [i \in {Tap(s, tap, c) : tap \in 0 .. 2, c \in 0 .. Channels - 1} |->
                    Slid(old(i % Channels), x(i % Channels), m)[((i \div Channels) % 3) + 1]],
       out   |-> [a \in written |->
                    LET p == from(a) IN Append(Slid(old(p[2]), x(p[2]), p[1] - 1), x(p[2])[p[1]])],
       due   |-> [a \in written |-> x(from(a)[2])[from(a)[1]]]]

\* A call of m tokens of each sequence in rows, sequence s from row rows[s] on.
Convolved(rows, m) ==
  /\ family = "conv" /\ \A s \in DOMAIN rows : fed[s] + m <= MaxFed /\ rows[s] + m <= OutRows
  /\ LET done  == [s \in DOMAIN rows |-> Convolve(s, rows[s], m)]
         of(i) == i \div (3 * Channels)
         cells == UNION {DOMAIN done[s].out : s \in DOMAIN rows}
         by(a) == CHOOSE s \in DOMAIN rows : a \in DOMAIN done[s].out
     IN  /\ window' = [i \in DOMAIN window |->
                         IF of(i) \in DOMAIN rows THEN done[of(i)].state[i] ELSE window[i]]
         /\ conv' = Written([a \in cells |-> done[by(a)].out[a]], conv)
         /\ due' = Written([a \in cells |-> done[by(a)].due[a]], due)
  /\ fed' = [s \in Seqs |-> IF s \in DOMAIN rows THEN fed[s] + m ELSE fed[s]]
  /\ UNCHANGED <<family, hf, scanVars>>

\* Given the buffer of a batch, a call for one sequence takes the first.
conv1d_silu_bf16         == Convolved(Only(0, 0), 1)
conv1d_silu_bf16_row     == \E r \in 0 .. OutRows : Convolved(Only(0, r), 1)
conv1d_silu_chunk_bf16   == \E m \in 1 .. OutRows : Convolved(Only(0, 0), m)
conv1d_silu_bf16_batched == Convolved([s \in Seqs |-> s], 1)

-----------------------------------------------------------------------------
(* The recurrences: a launch, then the warps of one block.                 *)

Prefills == {"gdn_prefill", "mamba2_selective_scan_prefill"}

\* The stream runs a call when the one before it has ended.
Feed(fn, m, first) ==
  /\ scan = Idle /\ m > 0 /\ fed[0] + m <= MaxFed
  /\ scan' = [fn |-> fn, base |-> fed[0], m |-> m]
  /\ fed' = [fed EXCEPT ![0] = @ + m]
  /\ lane' = [w \in Lanes |-> [at |-> first, to |-> first, t |-> 0]]
  /\ UNCHANGED <<family, hf, convVars, shared, row, state, answers>>

gdn_decode     == family = "gdn" /\ Feed("gdn_decode", 1, "load")
gdn_prefill    == family = "gdn" /\ \E seq_q \in 0 .. MaxFed : Feed("gdn_prefill", seq_q, "load")
gdn_decode_tma == family = "gdn_tma" /\ Feed("gdn_decode_tma", 1, "load")
mamba2_selective_scan_decode ==
  family = "mamba2" /\ Feed("mamba2_selective_scan_decode", 1, "h")
mamba2_selective_scan_prefill ==
  family = "mamba2" /\ \E seq_q \in 0 .. MaxFed : Feed("mamba2_selective_scan_prefill", seq_q, "h")
linear_attn_chunk_prefill ==
  family = "chunk" /\ Feed("linear_attn_chunk_prefill", ChunkLen, "chunk")

linear_attn_state_update_mma ==
  family = "chunk" /\ Feed("linear_attn_state_update_mma", ChunkLen, "chunk")

At(w, place) == lane[w].at = place
Now(w)  == scan.base + lane[w].t
Is(fn)  == scan.fn = fn
Goto(place)  == [at |-> place, to |-> place]
Bar(place)   == [at |-> "bar", to |-> place]
Go(w, where) == lane' = [lane EXCEPT ![w].at = where.at, ![w].to = where.to]
GoNext(w, where) == lane' = [lane EXCEPT ![w] = [at |-> where.at, to |-> where.to, t |-> @.t + 1]]
Last(w) == lane[w].t + 1 = scan.m

\* The decayed state enters the correction, or the state as it was.
Rule == IF Is("gdn_prefill") /\ ~hf THEN "plain" ELSE "decayed"
Absorbed(token, rule) == [k |-> token, rule |-> rule]
Single(token) == [v \in Lanes |-> token]

KeepIn == UNCHANGED <<family, hf, fed, convVars, scan>>

\* Warps arrive; the last one lets all go on.
BarSync ==
  /\ \A w \in Lanes : At(w, "bar")
  /\ lane' = [w \in Lanes |-> [lane[w] EXCEPT !.at = lane[w].to]]
  /\ UNCHANGED <<shared, row, state, answers>> /\ KeepIn

\* The rows of the state are copied in: its own by each warp, or all by thread 0
\* with one TMA copy that every warp waits for.
GdnLoad(w) ==
  /\ At(w, "load")
  /\ IF Is("gdn_decode_tma")
     THEN /\ w # 0 => ~At(0, "load")
          /\ row' = IF w = 0 THEN state ELSE row
     ELSE row' = [row EXCEPT ![w] = state[w]]
  /\ Go(w, IF Is("gdn_prefill") THEN Bar("stage") ELSE Goto("stage"))
  /\ UNCHANGED <<shared, state, answers>> /\ KeepIn

\* Each thread puts its element of q and k where the others read it.
GdnStage(w) ==
  /\ At(w, "stage")
  /\ shared' = [shared EXCEPT ![w].q = Now(w), ![w].k = Now(w)]
  /\ Go(w, Bar("absorb"))
  /\ UNCHANGED <<row, state, answers>> /\ KeepIn

\* Steps 1 to 3: S k, the correction, and the new rows.
GdnAbsorb(w) ==
  /\ At(w, "absorb")
  /\ row' = [row EXCEPT ![w] = Append(@, Absorbed([v \in Lanes |-> shared[v].k], Rule))]
  /\ Go(w, Bar("read"))
  /\ UNCHANGED <<shared, state, answers>> /\ KeepIn

\* Step 4: S q.  Nothing keeps a warp that is through with it from going on to
\* the next token's stores.
GdnRead(w) ==
  /\ At(w, "read")
  /\ answers' = Written(Only(<<Now(w), w>>, [rows |-> Only(w, row[w]),
                                             q |-> [v \in Lanes |-> shared[v].q]]), answers)
  /\ IF ~Last(w) THEN GoNext(w, Goto("stage"))
     ELSE Go(w, IF Is("gdn_decode_tma") THEN Bar("save") ELSE Goto("save"))
  /\ UNCHANGED <<shared, row, state>> /\ KeepIn

\* The state goes back: own rows, or by every thread the whole tile.
GdnSave(w) ==
  /\ At(w, "save")
  /\ state' = IF Is("gdn_decode_tma") THEN row ELSE [state EXCEPT ![w] = row[w]]
  /\ Go(w, Goto("exit"))
  /\ UNCHANGED <<shared, row, answers>> /\ KeepIn

\* Mamba2: the state is in registers.
MambaLoad(w) ==
  /\ At(w, "h")
  /\ row' = [row EXCEPT ![w] = state[w]]
  /\ Go(w, Goto("update"))
  /\ UNCHANGED <<shared, state, answers>> /\ KeepIn

\* h is decayed and updated from the thread's own inputs (a decode stores it at
\* once); the warp's share of y goes to shared memory.
MambaUpdate(w) ==
  LET h == Append(row[w], Absorbed(Single(Now(w)), "decayed")) IN
  /\ At(w, "update")
  /\ row' = [row EXCEPT ![w] = h]
  /\ state' = IF scan.fn \in Prefills THEN state ELSE [state EXCEPT ![w] = h]
  /\ shared' = [shared EXCEPT ![w].part = h]
  /\ Go(w, Bar("sum"))
  /\ UNCHANGED answers /\ KeepIn

MambaSumUp(w) ==
  answers' = IF w # 0 THEN answers
    ELSE Written(Only(<<Now(w), 0>>, [rows |-> [v \in Lanes |-> shared[v].part],
                                      q |-> Single(Now(w))]), answers)

\* Mutant: without the bar.sync at the end of a token.
MambaSumUnsynced(w) ==
  /\ At(w, "sum") /\ MambaSumUp(w)
  /\ IF scan.fn \notin Prefills THEN Go(w, Goto("exit"))
     ELSE GoNext(w, Goto(IF Last(w) THEN "h_out" ELSE "update"))
  /\ UNCHANGED <<shared, row, state>> /\ KeepIn

\* Warp 0 adds the shares up; a prefill's warps wait for it before the next token.
MambaSum(w) ==
  /\ At(w, "sum") /\ MambaSumUp(w)
  /\ IF scan.fn \notin Prefills THEN Go(w, Goto("exit"))
     ELSE GoNext(w, Bar(IF Last(w) THEN "h_out" ELSE "update"))
  /\ UNCHANGED <<shared, row, state>> /\ KeepIn

MambaSave(w) ==
  /\ At(w, "h_out")
  /\ state' = [state EXCEPT ![w] = row[w]]
  /\ Go(w, Goto("exit"))
  /\ UNCHANGED <<shared, row, answers>> /\ KeepIn

\* The chunk kernels: k, v, q of the whole chunk come in, for one of them the
\* state too, ...
ChunkLoad(w) ==
  /\ At(w, "chunk")
  /\ shared' = [shared EXCEPT ![w].q = scan.base, ![w].k = scan.base]
  /\ row' = [row EXCEPT ![w] = state[w]]
  /\ Go(w, Bar(IF Is("linear_attn_chunk_prefill") THEN "intra" ELSE "outer"))
  /\ UNCHANGED <<state, answers>> /\ KeepIn

ChunkTokens(m) ==
  [i \in 1 .. m |-> Absorbed([v \in Lanes |-> shared[v].k + i - 1], "none")]

\* ... each token attends the old state and the tokens of the chunk up to it,
\* and the state takes in the whole chunk.
ChunkScan(w) ==
  /\ At(w, "intra")
  /\ answers' = Written(
       [x \in {<<scan.base + i, w>> : i \in 0 .. scan.m - 1} |->
          [rows |-> Only(w, row[w] \o ChunkTokens(x[1] - scan.base + 1)),
           q |-> [v \in Lanes |-> shared[v].q + x[1] - scan.base]]], answers)
  /\ state' = [state EXCEPT ![w] = row[w] \o ChunkTokens(scan.m)]
  /\ Go(w, Goto("exit"))
  /\ UNCHANGED <<shared, row>> /\ KeepIn

\* ... or, with tensor cores, each warp adds up V^T K in a quadrant of its own
\* and then takes the quadrants in that its rows lie across.
ChunkOuter(w) ==
  /\ At(w, "outer")
  /\ shared' = [shared EXCEPT ![w].part = ChunkTokens(scan.m)]
  /\ Go(w, Bar("merge"))
  /\ UNCHANGED <<row, state, answers>> /\ KeepIn

ChunkMerge(w) ==
  /\ At(w, "merge")
  /\ LET sums == [i \in 1 .. scan.m |->
                   Absorbed([v \in Lanes |-> shared[v].part[i].k[v]], "none")]
     IN  state' = [state EXCEPT ![w] = @ \o sums]
  /\ Go(w, Goto("exit"))
  /\ UNCHANGED <<shared, row, answers>> /\ KeepIn

Ended ==
  /\ scan # Idle /\ \A w \in Lanes : At(w, "exit")
  /\ scan' = Idle /\ answers' = << >>
  /\ UNCHANGED <<family, hf, fed, convVars, lane, shared, row, state>>

WarpStep(w) ==
  \/ GdnLoad(w) \/ GdnStage(w) \/ GdnAbsorb(w) \/ GdnRead(w) \/ GdnSave(w)
  \/ MambaLoad(w) \/ MambaUpdate(w) \/ MambaSum(w) \/ MambaSave(w)
  \/ ChunkLoad(w) \/ ChunkScan(w) \/ ChunkOuter(w) \/ ChunkMerge(w)

LinearNext ==
  \/ conv1d_silu_bf16 \/ conv1d_silu_bf16_row \/ conv1d_silu_chunk_bf16 \/ conv1d_silu_bf16_batched
  \/ gdn_decode \/ gdn_prefill \/ gdn_decode_tma
  \/ mamba2_selective_scan_decode \/ mamba2_selective_scan_prefill \/ linear_attn_chunk_prefill
  \/ linear_attn_state_update_mma
  \/ BarSync \/ (\E w \in Lanes : WarpStep(w)) \/ Ended

\* No call of the family fits the rest of the sequence any more.
LinearDone == scan = Idle /\ fed[0] + (IF family = "chunk" THEN ChunkLen ELSE 1) > MaxFed

LinearSpec == LinearInit /\ [][LinearNext \/ (LinearDone /\ UNCHANGED linearVars)]_linearVars

-----------------------------------------------------------------------------
(* Properties.                                                             *)

\* However a sequence is cut into calls, each output of the convolution is made
\* of its own token and the three before it.
WindowExact ==
  \A a \in DOMAIN conv :
    LET x == due[a] IN conv[a] = [j \in 1 .. 4 |-> <<x[1], x[2] + j - 4, x[3]>>]

InOrder(history, n) ==
  /\ Len(history) = n
  /\ \A i \in 1 .. n : history[i].k = Single(i - 1)

\* Between calls every row of the state has absorbed each token of the sequence
\* once, in order; and under the same rule, when SPARK_GDN_HF is set
\* (docs/CORRECTNESS.md, "so prefill matches gdn_decode").
StateIsHistory ==
  scan = Idle /\ family # "conv" => \A w \in Lanes :
    /\ InOrder(state[w], fed[0])
    /\ hf => \A i \in DOMAIN state[w] : state[w][i].rule # "plain"

OwnToken(x) ==
  /\ answers[x].q = Single(x[1])
  /\ \A v \in DOMAIN answers[x].rows : InOrder(answers[x].rows[v], x[1] + 1)

\* Each output is made of the state up to its token and of its own token's q,
\* but for gdn_prefill.
OutputsOfOwnToken == ~Is("gdn_prefill") => \A x \in DOMAIN answers : OwnToken(x)

\* However a sequence is cut into calls, and however the warps run, no token is
\* lost, seen twice or seen early.
SequenceExact == WindowExact /\ StateIsHistory /\ OutputsOfOwnToken

\* Also gdn_prefill's outputs are: "same recurrence as gdn_decode.ptx", as a
\* "sequential reference" (gdn_prefill.ptx).
PrefillOfOwnToken == Is("gdn_prefill") => \A x \in DOMAIN answers : OwnToken(x)
=============================================================================
