------------------------------ MODULE TmaKernels ------------------------------
(***************************************************************************)
(* The kernels that load with TMA, as one specification, and what their    *)
(* synchronisation is for.                                                 *)
(***************************************************************************)
EXTENDS TmaPipeline, MlaChunks

vars == <<pipe, memVars, warp>>

Step(w) ==
  \/ w = Leader /\ InitMbars
  \/ SkipInit(w)
  \/ w = Dma /\ DmaNext
  \/ w \in Consumers /\ (ConsumerNext(w) \/ ChunkNext(w))

\* Every warp has left the kernel.
Finished == (\A w \in Warps : At(w, "exit")) /\ UNCHANGED vars

Next == LandAny \/ BarSync \/ Bar128 \/ (\E w \in Warps : Step(w)) \/ Finished

\* The hardware runs every resident warp and finishes every copy.
Spec ==
  /\ Init /\ [][Next]_vars
  /\ WF_vars(LandAny) /\ WF_vars(BarSync) /\ WF_vars(Bar128)
  /\ \A w \in Warps : WF_vars(Step(w))

-----------------------------------------------------------------------------
TypeOK ==
  /\ pipe \in Pipes
  /\ mbar \in [Mbars -> [phase : Nat, pending : 0 .. Cardinality(Consumers),
                         count : 0 .. Cardinality(Consumers), tx : 0 .. Cardinality(Pieces)]]
  /\ flight \subseteq [operand : OperandSet \cup {"q"}, stage : Stages, piece : Pieces, block : Nat]
  /\ smem \in [Places -> Nat \cup {Nothing}]
  /\ vt \in [Stages \X Consumers -> Nat \cup {Nothing}]
  /\ bcast \in Nat \cup {Nothing, Sums}
  /\ issued \in [OperandSet \cup {"q"} -> Nat]
  /\ \A w \in Warps :
       /\ warp[w].tile \in 0 .. pipe.tiles - 1
       /\ warp[w].block \in 0 .. IF w = Dma THEN DmaIssues ELSE Blocks
       /\ warp[w].next \in DOMAIN OperandSeq
       /\ warp[w].parity \in [Stages -> {0, 1}]

\* What the warp is reading: <<operand, stage, block>>.
Reading(c) ==
  IF At(c, "fetch") THEN {<<"q", 0, warp[c].tile>>}
  ELSE IF At(c, "read") \/ At(c, "score")
  THEN {<<o, Stage(c), Number(c)>> : o \in IF pipe.style = "gemm" THEN OperandSet ELSE {Operand(c)}}
  ELSE {}

\* While a warp reads a stage, the stage holds every piece of the warp's own
\* block and no copy is on its way into it (every ldmatrix between the waits
\* and the arrival at DONE, or between two bar.syncs).
ReadsOwnBlock ==
  \A c \in Consumers : \A r \in Reading(c) :
    /\ \A p \in Pieces : smem[<<r[1], r[2], p>>] = r[3]
    /\ \A x \in flight : ~(x.operand = r[1] /\ x.stage = r[2])

\* What warps hand one another through shared memory is of the reader's own
\* block: every share of a transposed V (fa_fp8_v12a_transpose), a chunk's
\* weights, at the end the sums (SMEM_VT, SMEM_P_TILE, SMEM_BCAST).  No warp
\* that is further has overwritten it, none that is behind still owes it.
HandedOverWhole ==
  \A c \in Consumers :
    /\ At(c, "multiply") => \A d \in Consumers : vt[<<Stage(c), d>>] = Number(c)
    /\ Chunks /\ At(c, "read") => bcast = Number(c)
    /\ At(c, "normalize") => bcast = Sums

\* One parity bit is enough: the mbarrier a warp is going to wait for is in
\* the phase the warp waits for or the one after it, never further.
PhasesNeverAlias ==
  \A w \in Warps :
    LET lap == warp[w].block \div pipe.stages IN
      /\ w \in Consumers /\ At(w, "wait") =>
           mbar[<<Operand(w), Stage(w)>>].phase \in {lap, lap + 1}
      /\ At(w, "wait") /\ w = Dma =>
           mbar[<<"done", Stage(w)>>].phase \in {lap - 1, lap}

\* The mbarriers are initialised when no warp is between the two bar.syncs of
\* a tile and no copy is under way.  No copy outlives the warps of a launch that
\* has a block; of one that has none, only copies of the block 0 that is loaded
\* all the same and that nobody waits for do.
QuietBetweenTiles ==
  /\ At(Leader, "init") =>
       flight = {} /\ \A w \in Warps : At(w, "init") \/ At(w, "bar") \/ At(w, "exit")
  /\ (\A w \in Warps : At(w, "exit")) =>
       \A x \in flight : Blocks = 0 /\ x.operand # "q" /\ x.block = 0

\* Nobody waits for ever for a stage to be filled or to be freed.
EveryWarpLeaves == <>(\A w \in Warps : At(w, "exit"))

-----------------------------------------------------------------------------
Job == [operands |-> OperandSet, depth |-> pipe.stages, blocks |-> Blocks, tiles |-> pipe.tiles]

Landed ==
  {l \in OperandSet \X (0 .. pipe.tiles * Blocks - 1) :
     l[2] < issued[l[1]] /\ \A x \in flight : ~(x.operand = l[1] /\ x.block = l[2])}

\* A chunk is used up at the bar.sync after its reads.
Used(c) ==
  Number(c) + IF At(c, "prefetch") \/ (At(c, "bar") /\ warp[c].to = "prefetch") THEN 1 ELSE 0

Stream == INSTANCE TileStream WITH
  Readers <- Consumers, job <- Job, landed <- Landed, used <- [c \in Consumers |-> Used(c)]

\* Every kernel streams its tiles as TileStream promises.
ImplementsStream == Stream!Spec

=============================================================================
