------------------------------ MODULE SmemStages ------------------------------
(***************************************************************************)
(* The shared memory of one thread block of a kernel that loads with TMA   *)
(* (ptx/attention/templates/fa_bf16_v21.ptx.in, ptx/gemm/                  *)
(* gemm_bf16_mma_v4.ptx, ptx/attention/fa_bf16_mla_decode_mma_tma_split    *)
(* .ptx): the mbarriers, the copies under way, the stages they fill, and   *)
(* bar.sync.  The copy engine and the mbarrier instructions are the        *)
(* hardware's; they are modelled from how the kernels use them.            *)
(*                                                                         *)
(* A tile in shared memory is the number of the block it belongs to,       *)
(* counted through all the tiles of the launch.                            *)
(***************************************************************************)
EXTENDS Integers, Sequences, FiniteSets, FiniteSetsExt

CONSTANTS
  Consumers, \* the warps that compute
  Leader,    \* the one thread 0 belongs to
  Dma,       \* the warp that only loads
  Pipes,     \* the pipelines: style, stages, kvBlocks, causal, qBlock, tiles
  Nothing, Sums

ASSUME PipesOK ==
  /\ IsFiniteSet(Consumers) /\ Leader \in Consumers /\ Dma \notin Consumers
  /\ Pipes \subseteq [style : {"attention", "transpose", "gemm", "chunks"}, stages : 1 .. 3,
                      kvBlocks : Nat, causal : BOOLEAN, qBlock : Nat, tiles : Nat \ {0}]
  \* A packed sequence may be without keys, and a split of the MLA kernel without a
  \* chunk; the wrappers refuse the rest.
  /\ \A p \in Pipes : p.kvBlocks = 0 => p.style \in {"attention", "chunks"} /\ p.stages = 2 /\ p.tiles = 1
  \* The MLA decode kernels have two chunk buffers and one sequence per block of threads.
  /\ \A p \in Pipes : p.style = "chunks" => p.stages = 2 /\ p.tiles = 1
  /\ Nothing \notin Int /\ Sums \notin Int

Warps == Consumers \cup {Dma}

VARIABLES
  pipe,    \* the pipeline this launch runs
  mbar,    \* the mbarriers
  flight,  \* copies the TMA unit has not finished
  smem,    \* what each piece of each stage holds
  vt,      \* the transposed V: what each warp's share of each stage holds
  bcast,   \* what warp 0 hands to the other warps: the chunk's weights, or Sums
  issued,  \* loads issued so far for each operand, a history variable
  warp     \* per warp: where it is, its tile, block, operand and parities

memVars == <<mbar, flight, smem, vt, bcast, issued>>

\* What a block is made of, in the order it is loaded and waited for.
Operands == [attention |-> <<"k", "v">>, transpose |-> <<"k", "v">>,
             gemm |-> <<"a", "b">>, chunks |-> <<"kv">>]
OperandSeq == Operands[pipe.style]
OperandSet == {OperandSeq[i] : i \in DOMAIN OperandSeq}

\* A bf16 operand comes in two halves, a chunk as c_kv and k_rope.
Pieces == IF pipe.style \in {"attention", "chunks"} THEN {0, 1} ELSE {0}

Stages == 0 .. pipe.stages - 1
Loads == (OperandSet \X Stages) \cup {<<"q", 0>>}
Mbars == Loads \cup ({"done"} \X Stages)
Places == {<<l[1], l[2], p>> : l \in Loads, p \in Pieces}

\* Where the computing warps stop: a causal tile has no use for later blocks.
Blocks == IF pipe.causal THEN Min({pipe.kvBlocks, pipe.qBlock + 1}) ELSE pipe.kvBlocks

-----------------------------------------------------------------------------
(* mbarrier: a phase ends when nobody is pending and no byte is expected.  *)

MbarInit(n) == [phase |-> 0, pending |-> n, count |-> n, tx |-> 0]

Settle(b) ==
  IF b.pending = 0 /\ b.tx = 0
  THEN [b EXCEPT !.phase = @ + 1, !.pending = b.count] ELSE b

Arrive(b) == Settle([b EXCEPT !.pending = @ - 1])
ArriveExpectTx(b, n) == Settle([b EXCEPT !.pending = @ - 1, !.tx = @ + n])
CompleteTx(b) == Settle([b EXCEPT !.tx = @ - 1])

\* True when the current phase has the other parity.
TryWaitParity(b, parity) == b.phase % 2 # parity

-----------------------------------------------------------------------------
\* Mutant: announces one piece only.
ExpectedOnePiece == 1

ExpectedPieces == Cardinality(Pieces)

\* arrive.expect_tx, then the copies: none can complete before the arrival.
Load(o, s, n) ==
  /\ mbar' = [mbar EXCEPT ![<<o, s>>] = ArriveExpectTx(@, ExpectedPieces)]
  /\ flight' = flight \cup
       {[operand |-> o, stage |-> s, piece |-> p, block |-> n] : p \in Pieces}
  /\ issued' = [issued EXCEPT ![o] = @ + 1]
  /\ UNCHANGED <<smem, vt, bcast>>

\* The TMA unit finishes one copy, in any order.
Land(x) ==
  /\ smem' = [smem EXCEPT ![<<x.operand, x.stage, x.piece>>] = x.block]
  /\ mbar' = [mbar EXCEPT ![<<x.operand, x.stage>>] = CompleteTx(@)]
  /\ flight' = flight \ {x}
  /\ UNCHANGED <<pipe, vt, bcast, issued, warp>>

LandAny == \E x \in flight : Land(x)

-----------------------------------------------------------------------------
(* Warps.                                                                  *)

\* Nothing is known of shared memory; the chunk kernel has no loading warp.
Init ==
  /\ pipe \in Pipes
  /\ mbar = [b \in Mbars |-> MbarInit(0)]
  /\ flight = {}
  /\ smem = [l \in Places |-> Nothing]
  /\ vt = [l \in Stages \X Consumers |-> Nothing]
  /\ bcast = Nothing
  /\ issued = [o \in OperandSet \cup {"q"} |-> 0]
  /\ warp = [w \in Warps |->
       [at |-> IF w = Dma /\ pipe.style = "chunks" THEN "exit" ELSE "init", to |-> "init",
        tile |-> 0, block |-> 0, next |-> 1, parity |-> [s \in Stages |-> 0]]]

At(w, l) == warp[w].at = l

Goto(w, l) == warp' = [warp EXCEPT ![w].at = l]

\* bar.sync 0, then on to l.
SyncThen(w, l) == warp' = [warp EXCEPT ![w].at = "bar", ![w].to = l]

Flip(parity, s) == [parity EXCEPT ![s] = 1 - @]

\* bar.sync 0 lets everybody go when everybody is at one, whichever.
BarSync ==
  /\ \A w \in Warps : At(w, "bar") \/ (w = Dma /\ pipe.style = "chunks")
  /\ warp' = [w \in Warps |-> IF At(w, "bar") THEN [warp[w] EXCEPT !.at = warp[w].to] ELSE warp[w]]
  /\ UNCHANGED <<pipe, memVars>>

\* Mutant: one warp too few.
DoneCountShort == Cardinality(Consumers) - 1

DoneCount == Cardinality(Consumers)

\* Thread 0 initialises every mbarrier, the fence, then bar.sync.
InitMbars ==
  /\ At(Leader, "init")
  /\ mbar' = [b \in Mbars |-> MbarInit(IF b[1] = "done" THEN DoneCount ELSE 1)]
  /\ SyncThen(Leader, "start")
  /\ UNCHANGED <<pipe, flight, smem, vt, bcast, issued>>

SkipInit(w) ==
  /\ At(w, "init") /\ w # Leader
  /\ SyncThen(w, "start")
  /\ UNCHANGED <<pipe, memVars>>

Stage(w) == warp[w].block % pipe.stages

\* The number of the warp's block, and the operand it is at.
Number(w) == warp[w].tile * Blocks + warp[w].block
Operand(w) == OperandSeq[warp[w].next]

=============================================================================
