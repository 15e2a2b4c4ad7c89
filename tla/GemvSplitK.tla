----------------------------- MODULE GemvSplitK ------------------------------
(***************************************************************************)
(* The managed split-K wrappers of gemm/mod.rs: a matrix-vector product    *)
(* whose K products are divided among shards, which either add their       *)
(* partial sums into a zeroed scratch buffer with atomics or, when         *)
(* SPARK_DETERMINISTIC is set, store them side by side for a reducer.      *)
(*                                                                         *)
(* A caller makes one call after another with the same scratch buffer, on  *)
(* one stream.  A call enqueues its kernels one by one and may fail at     *)
(* each; the stream runs them in order, the shards of one kernel in any    *)
(* order.  A cell stands for the 8 columns of one thread, and n counts     *)
(* cells.  A number is abstracted to the list of partial sums that were    *)
(* added up, in that order: f32 addition is not associative.               *)
(***************************************************************************)
EXTENDS SplitK, FiniteSets, SequencesExt

CONSTANTS
  ScratchLen,     \* cells in out_f32_scratch
  MaxKShard,      \* products of one row that fit 96 KB of shared memory
  Requests,       \* the calls a caller makes
  MaxCalls,       \* bound: calls made
  MayFail         \* load_kernel or a launch can return an error

ASSUME SplitKOK ==
  /\ MayFail \in BOOLEAN
  /\ ScratchLen \in Nat /\ MaxKShard \in Nat /\ MaxCalls \in Nat
  /\ \A q \in Requests :
       /\ q.wrapper \in {"w8a16", "w8a16_w16", "bf16", "bf16_w16", "bf16_view", "bf16_v4", "gemm_bf16_det"}
       /\ q.n \in Nat \ {0} /\ q.k \in Nat \ {0} /\ q.rows \in Nat \ {0} /\ q.shards \in Nat
       /\ q.wrapper # "gemm_bf16_det" => q.rows = 1
       /\ q.wrapper = "bf16_v4" => q.n <= ScratchLen   \* the only wrapper that does not check

VARIABLES
  flag,     \* is_deterministic(): read from the environment once
  made,     \* the calls made so far
  todo,     \* the kernels the call in progress has yet to enqueue
  stream,   \* the kernels enqueued and not finished
  ran,      \* the threads of the kernel at its head that have run
  scratch,  \* out_f32_scratch
  out       \* out_bf16 of each call

vars == <<flag, made, todo, stream, ran, scratch, out>>

\* What memory holds before the first write belongs to no call.
Unwritten == <<[start |-> 0, len |-> 0, cell |-> 0, call |-> 0]>>

Cells(q) == 0 .. q.rows * q.n - 1

Init ==
  /\ flag \in BOOLEAN
  /\ made = <<>> /\ todo = <<>> /\ stream = <<>> /\ ran = {}
  /\ scratch = [a \in 0 .. ScratchLen - 1 |-> Unwritten]
  /\ out = <<>>

-----------------------------------------------------------------------------
(* The wrappers.                                                           *)

\* Mutant: the rows of the batch forgotten.
StageFitsOneRow(q) == q.shards * q.n <= ScratchLen

StageFits(q) == q.shards * q.rows * q.n <= ScratchLen

\* Mutant: the scratch buffer is not cleared.
AtomicPathNoZero == <<"atomic", "convert">>

AtomicPath == <<"zero", "atomic", "convert">>
StagedPath == <<"stage", "reduce">>

\* Mutant: the flag is not looked at.
W8A16PathNoFlag(q) == AtomicPath

W8A16Path(q) == IF flag /\ StageFits(q) THEN StagedPath ELSE AtomicPath

Bf16Path(q) ==
  IF ~flag THEN AtomicPath ELSE IF StageFits(q) THEN StagedPath ELSE <<"whole">>

\* The kernels a wrapper enqueues, in order.
Path(q) ==
  CASE q.wrapper \in {"w8a16", "w8a16_w16"} -> W8A16Path(q)
    [] q.wrapper = "bf16" -> Bf16Path(q)
    [] q.wrapper = "gemm_bf16_det" -> StagedPath
    [] q.wrapper \in {"bf16_w16", "bf16_view", "bf16_v4"} -> AtomicPath

SplitKDetMaxM == 8

\* The wrappers for one row may use 96 KB, the one for several 48 KB.
TileFits(q) ==
  IF q.wrapper = "gemm_bf16_det"
    THEN q.rows <= SplitKDetMaxM /\ 2 * q.rows * KShard(q.k, q.shards) <= MaxKShard
    ELSE KShard(q.k, q.shards) <= MaxKShard

ColumnsAligned(q) == q.wrapper \in {"w8a16_w16", "bf16_w16"} => q.n % 2 = 0

\* The checks of the function that launches a kernel.
Accepts(q, kernel) ==
  CASE kernel \in {"atomic", "stage"} ->
         /\ q.shards > 0 /\ ColumnsAligned(q) /\ TileFits(q)
         /\ IF kernel = "stage" THEN StageFits(q) ELSE q.n <= ScratchLen
    [] kernel = "reduce" -> q.shards > 0 /\ StageFits(q)
    [] kernel = "convert" -> q.n <= ScratchLen
    [] kernel = "whole" -> q.k <= MaxKShard
    [] kernel = "zero" -> TRUE

Call(q) ==
  /\ todo = <<>> /\ Len(made) < MaxCalls
  /\ made' = Append(made, q)
  /\ todo' = Path(q)
  /\ out' = Append(out, [c \in Cells(q) |-> Unwritten])
  /\ UNCHANGED <<flag, stream, ran, scratch>>

Enqueue ==
  /\ todo # <<>>
  /\ Accepts(Last(made), Head(todo))
  /\ stream' = Append(stream, [kernel |-> Head(todo), call |-> Len(made)])
  /\ todo' = Tail(todo)
  /\ UNCHANGED <<flag, made, ran, scratch, out>>

\* The call returns the error; what it has enqueued stays.
EnqueueFails ==
  /\ todo # <<>>
  /\ MayFail \/ ~Accepts(Last(made), Head(todo))
  /\ todo' = <<>>
  /\ UNCHANGED <<flag, made, stream, ran, scratch, out>>

-----------------------------------------------------------------------------
(* The stream.  A thread of the two split kernels is a shard and a cell.   *)

Running(kernel) == stream # <<>> /\ Head(stream).kernel = kernel

CallRunning == Head(stream).call
Request == made[CallRunning]

Partial(s, c) ==
  [start |-> KStart(Request.k, Request.shards, s), len |-> ShardLen(Request.k, Request.shards, s),
   cell |-> c, call |-> CallRunning]

Threads == (0 .. Request.shards - 1) \X Cells(Request)

Finish == stream' = Tail(stream) /\ ran' = {}

MemsetZeros ==
  /\ Running("zero")
  /\ scratch' = [a \in DOMAIN scratch |-> <<>>]
  /\ Finish
  /\ UNCHANGED <<flag, made, todo, out>>

AddPartial(s, c) ==
  /\ Running("atomic") /\ <<s, c>> \in Threads \ ran
  /\ scratch' = [scratch EXCEPT ![c] = Append(@, Partial(s, c))]
  /\ ran' = ran \cup {<<s, c>>}
  /\ UNCHANGED <<flag, made, todo, stream, out>>

\* Mutant: the stride of one row, as in the kernel for one row.
StageSlotOneRow(s, c) == s * Request.n + c

\* stage[shard, row, col]
StageSlot(s, c) == s * Request.rows * Request.n + c

StorePartial(s, c) ==
  /\ Running("stage") /\ <<s, c>> \in Threads \ ran
  /\ scratch' = [scratch EXCEPT ![StageSlot(s, c)] = <<Partial(s, c)>>]
  /\ ran' = ran \cup {<<s, c>>}
  /\ UNCHANGED <<flag, made, todo, stream, out>>

SplitKernelEnds ==
  /\ Running("atomic") \/ Running("stage")
  /\ ran = Threads
  /\ Finish
  /\ UNCHANGED <<flag, made, todo, scratch, out>>

WriteOut(sum(_)) ==
  /\ out' = [out EXCEPT ![CallRunning] = [c \in Cells(Request) |-> sum(c)]]
  /\ Finish
  /\ UNCHANGED <<flag, made, todo, scratch>>

\* n' = rows * n: the reducer's stride is the number of outputs it is given.
ShardReduce ==
  /\ Running("reduce")
  /\ WriteOut(LAMBDA c : FlattenSeq([i \in 1 .. Request.shards |->
                           scratch[(i - 1) * Cardinality(Cells(Request)) + c]]))

ConvertF32 ==
  /\ Running("convert")
  /\ WriteOut(LAMBDA c : scratch[c])

\* gemv_bf16: one thread adds all products of a column.
GemvWhole ==
  /\ Running("whole")
  /\ WriteOut(LAMBDA c : <<[start |-> 0, len |-> Request.k, cell |-> c, call |-> CallRunning]>>)

-----------------------------------------------------------------------------

Thread ==
  /\ stream # <<>>
  /\ \E t \in Threads : AddPartial(t[1], t[2]) \/ StorePartial(t[1], t[2])

Next ==
  \/ \E q \in Requests : Call(q)
  \/ Enqueue \/ EnqueueFails
  \/ Thread \/ SplitKernelEnds
  \/ MemsetZeros \/ ShardReduce \/ ConvertF32 \/ GemvWhole

Spec == Init /\ [][Next]_vars

-----------------------------------------------------------------------------
(* Properties.                                                             *)

Part == [start : Nat, len : Nat, cell : Nat, call : 0 .. MaxCalls]

\* The variables have their types, and no thread writes outside the scratch buffer.
TypeOK ==
  /\ made \in Seq(Requests) /\ Len(made) <= MaxCalls
  /\ \A i \in DOMAIN todo : todo[i] \in {"zero", "atomic", "convert", "stage", "reduce", "whole"}
  /\ \A i \in DOMAIN stream : stream[i].call \in DOMAIN made
  /\ IF stream = <<>> THEN ran = {} ELSE ran \subseteq Threads
  /\ scratch \in [0 .. ScratchLen - 1 -> Seq(Part)]
  /\ DOMAIN out = DOMAIN made
  /\ \A i \in DOMAIN out : out[i] \in [Cells(made[i]) -> Seq(Part)]
  /\ Running("stage") => \A t \in Threads : StageSlot(t[1], t[2]) \in DOMAIN scratch
  /\ Running("atomic") => Cells(Request) \subseteq DOMAIN scratch

Written(i, c) == out[i][c] # Unwritten

\* Every output a call has written adds up each of its K products exactly once and
\* nothing else: no product of an earlier call that used the same scratch buffer, of
\* a call that failed half-way, of another column, none past K.
ExactSums ==
  \A i \in DOMAIN made : \A c \in Cells(made[i]) : Written(i, c) =>
    LET sum == out[i][c] IN
      /\ \A j \in DOMAIN sum : sum[j].call = i /\ sum[j].cell = c
      /\ \A j \in DOMAIN sum : sum[j].start + sum[j].len <= made[i].k
      /\ \A k \in 0 .. made[i].k - 1 : Cardinality({j \in DOMAIN sum : Covers(sum[j], k)}) = 1

\* What decides the f32 value of a sum: which products each summand has and the order
\* they are added in, but for the first two, since addition commutes.
Rounding(i, c) ==
  LET part(j) == [start |-> out[i][c][j].start, len |-> out[i][c][j].len]
      n == Len(out[i][c])
  IN <<{part(j) : j \in 1 .. Lower(2, n)}, [j \in 1 .. n - 2 |-> part(j + 2)]>>

\* The wrappers that take the flag into account, where they can.
HonoursFlag(q) ==
  \/ q.wrapper \in {"w8a16", "w8a16_w16"} /\ StageFits(q)
  \/ q.wrapper \in {"bf16", "gemm_bf16_det"}

SameResult(i, c, j, d) ==
  Written(i, c) /\ Written(j, d) => Rounding(i, c) = Rounding(j, d)

\* With the flag, two equal calls of such a wrapper round alike, whatever order the
\* device ran the shards in and whatever the scratch buffer was used for in between.
StagedReproducible ==
  flag => \A i, j \in DOMAIN made : made[i] = made[j] /\ HonoursFlag(made[i]) =>
            \A c \in Cells(made[i]) : SameResult(i, c, j, c)

\* With the flag, a row of gemm_bf16_split_k_det_managed is byte-identical to
\* gemv_bf16_split_k_managed on that row alone, with the same num_shards and a scratch
\* buffer that lets both stage.
BatchedRowsMatch ==
  flag => \A i, j \in DOMAIN made :
    (/\ made[i].wrapper = "bf16" /\ made[j].wrapper = "gemm_bf16_det" /\ StageFits(made[i])
     /\ made[i].n = made[j].n /\ made[i].k = made[j].k /\ made[i].shards = made[j].shards)
    => \A c \in Cells(made[i]), row \in 0 .. made[j].rows - 1 :
         SameResult(i, c, j, row * made[j].n + c)

=============================================================================
