----------------------------- MODULE TmaPipeline -----------------------------
(***************************************************************************)
(* The producer and consumer pipelines of the attention and GEMM kernels:  *)
(*   ptx/attention/templates/fa_bf16_v21.ptx.in   K and V in two stages    *)
(*   ptx/attention/fa_bf16_v12_persistent.ptx     the same, tile by tile   *)
(*   ptx/attention/fa_bf16_v20_tma_bc128.ptx      the same with one stage  *)
(*   ptx/attention/fa_fp8_v12a_transpose.ptx      V transposed by the warps*)
(*   ptx/gemm/gemm_bf16_mma_v4.ptx                A and B in three stages  *)
(* One warp issues the TMA copies; the others wait for a block's copies,   *)
(* compute, and tell the loading warp over DONE[stage] that the stage may  *)
(* be filled again.  Both sides keep one parity bit per stage.             *)
(***************************************************************************)
EXTENDS SmemStages

Pipelined == pipe.style # "chunks"

\* Both sides start a tile with fresh parities; a GEMM's loading warp with 1.
FirstParity(w) == IF w = Dma /\ pipe.style = "gemm" THEN 1 ELSE 0

\* Mutant: the parities of the tile before are kept.
StaleParities(w) == warp[w].parity

FreshParities(w) == [s \in Stages |-> FirstParity(w)]

Begin(w, l) == warp' = [warp EXCEPT ![w].at = l, ![w].parity = FreshParities(w)]

\* The loading warp's own bound.
\* Mutant: all the blocks, although the computing warps stop earlier.
DmaEveryBlock == pipe.kvBlocks

DmaBlocks == IF pipe.causal THEN Min({pipe.kvBlocks, pipe.qBlock + 1}) ELSE pipe.kvBlocks

\* Block 0 is loaded before the number of blocks is looked at.
DmaIssues == IF DmaBlocks = 0 THEN 1 ELSE DmaBlocks

\* Out of the K loop: to the next tile of this block of threads, or done.
TileDoneTo(w, l) ==
  /\ Pipelined
  /\ At(w, "loop") /\ warp[w].block >= IF w = Dma THEN DmaIssues ELSE Blocks
  /\ IF warp[w].tile + 1 < pipe.tiles
     THEN warp' = [warp EXCEPT ![w].at = l, ![w].to = "init", ![w].tile = @ + 1, ![w].block = 0]
     ELSE Goto(w, "exit")
  /\ UNCHANGED <<pipe, memVars>>

\* Mutant: no bar.sync before the next initialisation.
TileDoneUnsynced(w) == TileDoneTo(w, "init")

TileDone(w) == TileDoneTo(w, "bar")

-----------------------------------------------------------------------------
(* The loading warp.                                                       *)

DmaStart ==
  /\ Pipelined /\ At(Dma, "start")
  /\ IF pipe.style # "gemm"
     THEN Load("q", 0, warp[Dma].tile)
     ELSE UNCHANGED memVars
  /\ Begin(Dma, "loop")
  /\ UNCHANGED pipe

\* The first loads fill empty stages.  A GEMM counts them in its parities.
DmaLoop ==
  /\ At(Dma, "loop")
  /\ LET d == warp[Dma] IN
       /\ d.block < DmaIssues
       /\ warp' = [warp EXCEPT
            ![Dma].at = IF d.block < pipe.stages THEN "load" ELSE "wait",
            ![Dma].next = 1,
            ![Dma].parity = IF d.block < pipe.stages /\ pipe.style = "gemm"
                            THEN Flip(@, Stage(Dma)) ELSE @]
  /\ UNCHANGED <<pipe, memVars>>

\* Mutant: goes on without the consumers' word.
DmaDoesNotWait ==
  /\ At(Dma, "wait")
  /\ warp' = [warp EXCEPT ![Dma].at = "load", ![Dma].parity = Flip(@, Stage(Dma))]
  /\ UNCHANGED <<pipe, memVars>>

DmaWaitDone ==
  /\ At(Dma, "wait")
  /\ TryWaitParity(mbar[<<"done", Stage(Dma)>>], warp[Dma].parity[Stage(Dma)])
  /\ warp' = [warp EXCEPT ![Dma].at = "load", ![Dma].parity = Flip(@, Stage(Dma))]
  /\ UNCHANGED <<pipe, memVars>>

DmaLoad ==
  /\ At(Dma, "load")
  /\ Load(Operand(Dma), Stage(Dma), Number(Dma))
  /\ IF warp[Dma].next < Len(OperandSeq)
     THEN warp' = [warp EXCEPT ![Dma].next = @ + 1]
     ELSE warp' = [warp EXCEPT ![Dma].at = "loop", ![Dma].block = @ + 1]
  /\ UNCHANGED pipe

-----------------------------------------------------------------------------
(* A computing warp.                                                       *)

ConsumerStart(c) ==
  /\ Pipelined /\ At(c, "start")
  /\ Begin(c, IF pipe.style # "gemm" THEN "query" ELSE "loop")
  /\ UNCHANGED <<pipe, memVars>>

WaitQuery(c) ==
  /\ At(c, "query")
  /\ TryWaitParity(mbar[<<"q", 0>>], 0)
  /\ Goto(c, "fetch")
  /\ UNCHANGED <<pipe, memVars>>

\* Q is in registers.
FetchQuery(c) ==
  /\ At(c, "fetch")
  /\ Goto(c, "loop")
  /\ UNCHANGED <<pipe, memVars>>

ConsumerLoop(c) ==
  /\ Pipelined /\ At(c, "loop") /\ warp[c].block < Blocks
  /\ warp' = [warp EXCEPT ![c].at = "wait", ![c].next = 1]
  /\ UNCHANGED <<pipe, memVars>>

\* A GEMM waits for A and B before it reads either; attention reads K first.
WaitLoad(c) ==
  /\ Pipelined /\ At(c, "wait")
  /\ TryWaitParity(mbar[<<Operand(c), Stage(c)>>], warp[c].parity[Stage(c)])
  /\ IF pipe.style = "gemm" /\ warp[c].next < Len(OperandSeq)
     THEN warp' = [warp EXCEPT ![c].next = @ + 1]
     ELSE Goto(c, "read")
  /\ UNCHANGED <<pipe, memVars>>

\* The scores are in registers, K is not read again.
ReadFirst(c) ==
  /\ Pipelined /\ At(c, "read") /\ warp[c].next < Len(OperandSeq)
  /\ warp' = [warp EXCEPT ![c].at = "wait", ![c].next = @ + 1]
  /\ UNCHANGED <<pipe, memVars>>

\* Each warp transposes its share of V for all of them.
Transpose(c) ==
  /\ pipe.style = "transpose" /\ At(c, "read") /\ warp[c].next = Len(OperandSeq)
  /\ vt' = [vt EXCEPT ![<<Stage(c), c>>] = Number(c)]
  /\ Goto(c, "bar128")
  /\ UNCHANGED <<pipe, mbar, flight, smem, bcast, issued>>

\* Mutant: the warp goes on alone.
Bar128Alone == \E c \in Consumers :
  At(c, "bar128") /\ Goto(c, "multiply") /\ UNCHANGED <<pipe, memVars>>

\* bar.sync 0, 128: without the loading warp.
Bar128 ==
  /\ \A c \in Consumers : At(c, "bar128")
  /\ warp' = [w \in Warps |-> IF w = Dma THEN warp[w] ELSE [warp[w] EXCEPT !.at = "multiply"]]
  /\ UNCHANGED <<pipe, memVars>>

LastRead(c) ==
  IF pipe.style = "transpose" THEN At(c, "multiply")
  ELSE Pipelined /\ At(c, "read") /\ warp[c].next = Len(OperandSeq)

FinishWith(c, parity) ==
  /\ LastRead(c)
  /\ mbar' = [mbar EXCEPT ![<<"done", Stage(c)>>] = Arrive(@)]
  /\ warp' = [warp EXCEPT ![c].at = "loop", ![c].block = @ + 1, ![c].parity = parity]
  /\ UNCHANGED <<pipe, flight, smem, vt, bcast, issued>>

\* Mutant: the parity of the stage is not turned.
FinishSameParity(c) == FinishWith(c, warp[c].parity)

\* The last read, the arrival at DONE[stage], and on to the next block.
FinishBlock(c) == FinishWith(c, Flip(warp[c].parity, Stage(c)))

DmaNext == DmaStart \/ DmaLoop \/ DmaWaitDone \/ DmaLoad \/ TileDone(Dma)

ConsumerNext(c) ==
  \/ ConsumerStart(c) \/ WaitQuery(c) \/ FetchQuery(c) \/ ConsumerLoop(c)
  \/ WaitLoad(c) \/ ReadFirst(c) \/ Transpose(c) \/ FinishBlock(c) \/ TileDone(c)

=============================================================================
