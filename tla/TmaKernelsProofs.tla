--------------------------- MODULE TmaKernelsProofs ---------------------------
(***************************************************************************)
(* What keeps the stages of every TMA kernel whole, for any number of      *)
(* warps, tiles and blocks, none included: the inductive invariant IInv,   *)
(* one lemma per action that it is kept, and the theorems it gives.        *)
(*                                                                         *)
(* The proof counts.  Of every operand, Loaded blocks of the tile have     *)
(* been issued and Passed ones are behind a warp; Fills(n, s) of the first *)
(* n blocks go into stage s.  An mbarrier's phase is such a count, a       *)
(* warp's parity bit is one modulo 2, and the window between Loaded and    *)
(* Passed is never wider than the stages: so the bit tells the phase.      *)
(***************************************************************************)
EXTENDS TmaKernels, Induction, FiniteSetTheorems, TLAPS

\* At a bar.sync 0, to go on at l.
Held(w, l) == At(w, "bar") /\ warp[w].to = l

\* Before the bar.sync that makes the mbarriers visible; behind the last block.
Setup(w)  == At(w, "init") \/ Held(w, "start")
Turned(w) == Held(w, "init")

\* The tile a warp is in and its blocks there that are behind it: until the
\* bar.sync that ends the tile, that tile.
TileOf(w)  == warp[w].tile - IF Turned(w) THEN 1 ELSE 0
BlockOf(w) == IF Turned(w) THEN Blocks ELSE warp[w].block

\* bar.syncs the warp has gone through.
Round(w) ==
  IF Setup(w) THEN 2 * warp[w].tile
  ELSE IF Pipelined THEN 2 * TileOf(w) + 1
  ELSE 2 * warp[w].block
         + IF At(w, "read") \/ Held(w, "prefetch") \/ At(w, "normalize") \/ At(w, "exit") THEN 2
           ELSE IF At(w, "prefetch") THEN 3 ELSE 1

Syncing == IF Chunks THEN Consumers ELSE Warps

\* The same for the bar.sync of the warps that transpose.
Shared(c) == BlockOf(c) + IF At(c, "multiply") THEN 1 ELSE 0

-----------------------------------------------------------------------------
\* Blocks below n that go into stage s.
Fills(n, s) == (n + pipe.stages - 1 - s) \div pipe.stages

WithQuery == pipe.style \in {"attention", "transpose"}

\* Blocks of the tile whose loads have been issued; Q is its own only one.
Loaded(o) ==
  IF o = "q" THEN IF WithQuery /\ ~Setup(Dma) /\ ~At(Dma, "start") THEN 1 ELSE 0
  ELSE IF Pipelined
  THEN BlockOf(Dma)
         + IF At(Dma, "load") /\ \E i \in 1 .. warp[Dma].next - 1 : OperandSeq[i] = o THEN 1 ELSE 0
  ELSE IF Setup(Leader) \/ At(Leader, "start") THEN 0
  ELSE IF At(Leader, "second") \/ Blocks < warp[Leader].block + 2
  THEN IF At(Leader, "second") THEN 1 ELSE DmaIssues
  ELSE warp[Leader].block + 2

\* Blocks of the tile the warp does not read again.
Done(c) == BlockOf(c) + IF At(c, "prefetch") \/ Held(c, "prefetch") THEN 1 ELSE 0

Passed(c, o) ==
  IF o = "q"
  THEN IF WithQuery /\ ~Setup(c) /\ ~At(c, "start") /\ ~At(c, "query") /\ ~At(c, "fetch") THEN 1 ELSE 0
  ELSE Done(c)

\* The warp knows that this operand of its block is there.
Has(c, o) ==
  \/ o = "q" /\ At(c, "fetch")
  \/ \E i \in DOMAIN OperandSeq :
       /\ OperandSeq[i] = o
       /\ \/ Pipelined /\ At(c, "wait") /\ i < warp[c].next
          \/ Pipelined /\ At(c, "read") /\ i <= warp[c].next
          \/ At(c, "bar128") \/ At(c, "multiply")
          \/ Chunks /\ (At(c, "score") \/ Held(c, "read") \/ At(c, "read"))

Base == TileOf(Leader) * Blocks
Tag(o, m) == IF o = "q" THEN TileOf(Leader) ELSE Base + m
AllOperands == OperandSet \cup {"q"}

\* m is the latest block issued into the stage.
Latest(o, s, m) == m < Loaded(o) /\ m % pipe.stages = s /\ Loaded(o) <= m + pipe.stages

Filling(o, s) == {x \in flight : x.operand = o /\ x.stage = s}
Copy(o, s, p, n) == [operand |-> o, stage |-> s, piece |-> p, block |-> n]

-----------------------------------------------------------------------------
Labels == {"init", "bar", "start", "query", "fetch", "loop", "wait", "load", "read", "bar128",
           "multiply", "exit", "second", "score", "prefetch", "normalize"}

\* The computing warps count no further than their blocks.
Within == \A w \in Warps : w # Dma => warp[w].block <= Blocks

Typed ==
  /\ pipe \in Pipes
  /\ mbar = [b \in Mbars |-> mbar[b]]
  /\ \A b \in Mbars : mbar[b] \in [phase : Nat, pending : Nat, count : Nat, tx : Nat]
  /\ flight \subseteq [operand : AllOperands, stage : Stages, piece : Pieces, block : Nat]
  /\ IsFiniteSet(flight)
  /\ smem \in [Places -> Nat \cup {Nothing}]
  /\ vt \in [Stages \X Consumers -> Nat \cup {Nothing}]
  /\ bcast \in Nat \cup {Nothing, Sums}
  /\ issued \in [AllOperands -> Nat]
  /\ warp \in [Warps -> [at : Labels, to : Labels, tile : 0 .. pipe.tiles - 1, block : 0 .. DmaIssues,
                         next : DOMAIN OperandSeq, parity : [Stages -> {0, 1}]]]
  /\ Within

InPipeline(w) ==
  /\ warp[w].at \in {"init", "bar", "start", "loop", "wait", "exit"}
       \cup IF w = Dma THEN {"load"} ELSE {"query", "fetch", "read", "bar128", "multiply"}
  /\ At(w, "bar") => warp[w].to \in {"start", "init"}
  /\ At(w, "init") \/ At(w, "bar") \/ At(w, "start") \/ At(w, "query") \/ At(w, "fetch")
       => warp[w].block = 0
  /\ Turned(w) => warp[w].tile # 0
  /\ At(w, "wait") \/ At(w, "load") \/ At(w, "read") \/ At(w, "bar128") \/ At(w, "multiply")
       => warp[w].block < IF w = Dma THEN DmaIssues ELSE Blocks
  /\ At(w, "exit") => /\ warp[w].block = IF w = Dma THEN DmaIssues ELSE Blocks
                      /\ warp[w].tile = pipe.tiles - 1
  /\ At(w, "query") \/ At(w, "fetch") => WithQuery
  /\ At(w, "bar128") \/ At(w, "multiply") => pipe.style = "transpose" /\ warp[w].next = Len(OperandSeq)
  /\ At(w, "read") /\ pipe.style = "gemm" => warp[w].next = Len(OperandSeq)
  /\ At(w, "wait") /\ w = Dma => warp[w].next = 1 /\ pipe.stages <= warp[w].block

InChunks(w) ==
  /\ w = Dma => At(w, "exit")
  /\ w # Dma =>
       /\ warp[w].at \in {"init", "bar", "start", "second", "loop", "wait", "score", "read",
                          "prefetch", "normalize", "exit"}
       /\ warp[w].tile = 0
       /\ At(w, "bar") => warp[w].to \in {"start", "read", "prefetch", "normalize"}
       /\ Setup(w) \/ At(w, "start") \/ At(w, "second") => warp[w].block = 0
       /\ At(w, "second") \/ At(w, "score") => w = Leader
       /\ At(w, "wait") \/ At(w, "score") \/ At(w, "read") \/ At(w, "prefetch")
            \/ Held(w, "read") \/ Held(w, "prefetch") => warp[w].block < Blocks
       /\ Held(w, "normalize") \/ At(w, "normalize") \/ At(w, "exit") => warp[w].block = Blocks

Placed(w) == IF Chunks THEN InChunks(w) ELSE InPipeline(w)

InStep ==
  /\ \A v, w \in Syncing : Round(v) = Round(w)
  /\ pipe.style = "transpose" => \A c, d \in Consumers : Shared(c) = Shared(d)

\* The blocks a warp's parities count.
Counted(w) ==
  warp[w].block +
    IF \/ w = Dma /\ At(w, "load")
       \/ Chunks /\ (At(w, "score") \/ At(w, "read") \/ At(w, "prefetch")
                       \/ Held(w, "read") \/ Held(w, "prefetch"))
    THEN 1 ELSE 0

ParityOf(w, s) ==
  LET n == Fills(Counted(w), s) IN
    IF w \in Consumers THEN n % 2
    ELSE IF n = 0 /\ pipe.style # "gemm" THEN 0 ELSE (n + 1) % 2

Parities(w) ==
  (IF Chunks THEN w # Dma
   ELSE ~At(w, "init") /\ ~At(w, "bar") /\ ~At(w, "start") /\ ~At(w, "exit"))
    => \A s \in Stages : warp[w].parity[s] = ParityOf(w, s)

-----------------------------------------------------------------------------
\* Nobody is ahead of the loads, no load more than the stages ahead of anybody.
Window ==
  /\ \A o \in AllOperands, c \in Consumers :
       Passed(c, o) <= Loaded(o) /\ Loaded(o) <= Passed(c, o) + pipe.stages
  /\ \A o \in OperandSet : Loaded(o) <= DmaIssues /\ issued[o] = Base + Loaded(o)

\* The loading warp was told that the stage it fills is free.
Ahead == At(Dma, "load") => \A c \in Consumers : warp[Dma].block < Done(c) + pipe.stages

LoadBar(o, s) ==
  mbar[<<o, s>>] =
    IF Filling(o, s) = {}
    THEN [phase |-> Fills(Loaded(o), s), pending |-> 1, count |-> 1, tx |-> 0]
    ELSE [phase |-> Fills(Loaded(o), s) - 1, pending |-> 0, count |-> 1,
          tx |-> Cardinality(Filling(o, s))]

\* Who is in the phase f of a stage's DONE.
Owing(s, f) == {c \in Consumers : Fills(Done(c), s) = f}

DoneBar(s) ==
  \E f \in Nat : LET b == mbar[<<"done", s>>] IN
    /\ b.phase = f /\ b.tx = 0 /\ b.count = Cardinality(Consumers)
    /\ b.pending = Cardinality(Owing(s, f)) /\ b.pending # 0
    /\ \A c \in Consumers : Fills(Done(c), s) \in {f, f + 1}

InFlight ==
  \A x \in flight : 
    /\ <<x.operand, x.stage>> \in Loads
    /\ \E m \in Nat :
         /\ Latest(x.operand, x.stage, m) /\ x.block = Tag(x.operand, m)
         /\ \A c \in Consumers : Passed(c, x.operand) <= m

Filled ==
  \A l \in Loads, p \in Pieces, m \in Nat :
    Latest(l[1], l[2], m) =>
      \/ smem[<<l[1], l[2], p>>] = Tag(l[1], m)
      \/ Copy(l[1], l[2], p, Tag(l[1], m)) \in flight

\* The operand's next block for c is in its stage.
There(c, o) ==
  Passed(c, o) < Loaded(o) /\ Filling(o, Passed(c, o) % pipe.stages) = {}

Granted == \A c \in Consumers, o \in AllOperands : Has(c, o) => There(c, o)

Transposed ==
  pipe.style = "transpose" => \A c \in Consumers :
    /\ At(c, "bar128") => vt[<<Stage(c), c>>] = Number(c)
    /\ At(c, "multiply") => \A d \in Consumers : vt[<<Stage(c), d>>] = Number(c)

Handed ==
  Chunks =>
    /\ Held(Leader, "read") \/ At(Leader, "read") \/ Held(Leader, "prefetch") =>
         bcast = Number(Leader)
    /\ Held(Leader, "normalize") \/ At(Leader, "normalize") \/ At(Leader, "exit") => bcast = Sums

Streaming ==
  /\ \A l \in Loads : LoadBar(l[1], l[2])
  /\ Pipelined => \A s \in Stages : DoneBar(s)

IInv ==
  /\ Typed /\ (\A w \in Warps : Placed(w) /\ Parities(w))
  /\ InStep /\ Window /\ Ahead /\ InFlight /\ Filled /\ Granted /\ Transposed /\ Handed
  /\ (At(Leader, "init") => flight = {})
  /\ (~At(Leader, "init") => Streaming)

LEMMA PipeFacts ==
  ASSUME pipe \in Pipes
  PROVE  /\ pipe.stages \in {1, 2, 3} /\ pipe.tiles \in Nat /\ pipe.tiles > 0
         /\ pipe.style \in {"attention", "transpose", "gemm", "chunks"}
         /\ Blocks \in Nat /\ DmaBlocks = Blocks
         /\ DmaIssues = (IF Blocks = 0 THEN 1 ELSE Blocks) /\ DmaIssues \in Nat /\ DmaIssues > 0
         /\ Blocks <= DmaIssues /\ (pipe.tiles > 1 => Blocks = DmaIssues)
         /\ Chunks => pipe.stages = 2 /\ pipe.tiles = 1
         /\ Chunks <=> ~Pipelined
<1>1. /\ pipe \in [style : {"attention", "transpose", "gemm", "chunks"}, stages : 1 .. 3,
                   kvBlocks : Nat, causal : BOOLEAN, qBlock : Nat, tiles : Nat \ {0}]
      /\ pipe.kvBlocks = 0 => pipe.tiles = 1
      /\ pipe.style = "chunks" => pipe.stages = 2 /\ pipe.tiles = 1
  BY PipesOK
<1>2. /\ pipe.stages \in 1 .. 3 /\ pipe.kvBlocks \in Nat /\ pipe.qBlock \in Nat
      /\ pipe.tiles \in Nat \ {0} /\ pipe.style \in {"attention", "transpose", "gemm", "chunks"}
  BY <1>1
<1>3. Min({pipe.kvBlocks, pipe.qBlock + 1}) \in {pipe.kvBlocks, pipe.qBlock + 1}
  <2>1. \E x \in {pipe.kvBlocks, pipe.qBlock + 1} :
          \A y \in {pipe.kvBlocks, pipe.qBlock + 1} : x <= y
    BY <1>2
  <2> QED BY <2>1 DEF Min
<1>4. Blocks \in Nat /\ (Blocks = 0 => pipe.kvBlocks = 0)
  BY <1>2, <1>3 DEF Blocks
<1>5. DmaBlocks = Blocks
  BY DEF Blocks, DmaBlocks
<1>6. DmaIssues = (IF Blocks = 0 THEN 1 ELSE Blocks)
  BY <1>5 DEF DmaIssues
<1>7. Chunks <=> ~Pipelined
  BY DEF Chunks, Pipelined
<1> QED BY <1>1, <1>2, <1>4, <1>5, <1>6, <1>7 DEF Chunks

LEMMA OperandFacts ==
  ASSUME pipe \in Pipes
  PROVE  /\ Chunks => OperandSeq = <<"kv">> /\ OperandSet = {"kv"}
         /\ pipe.style = "gemm" => OperandSeq = <<"a", "b">> /\ OperandSet = {"a", "b"}
         /\ WithQuery => OperandSeq = <<"k", "v">> /\ OperandSet = {"k", "v"}
         /\ Chunks \/ pipe.style = "gemm" \/ WithQuery
<1>1. CASE Chunks
  <2>1. OperandSeq = <<"kv">>
    BY <1>1 DEF OperandSeq, Operands, Chunks
  <2>2. OperandSet = {"kv"}
    BY <2>1 DEF OperandSet
  <2> QED BY <1>1, <2>1, <2>2 DEF Chunks, WithQuery
<1>2. CASE pipe.style = "gemm"
  <2>1. OperandSeq = <<"a", "b">>
    BY <1>2 DEF OperandSeq, Operands
  <2>2. OperandSet = {"a", "b"}
    BY <2>1 DEF OperandSet
  <2> QED BY <1>2, <2>1, <2>2 DEF Chunks, WithQuery
<1>3. CASE WithQuery
  <2>1. OperandSeq = <<"k", "v">>
    BY <1>3 DEF OperandSeq, Operands, WithQuery
  <2>2. OperandSet = {"k", "v"}
    BY <2>1 DEF OperandSet
  <2> QED BY <1>3, <2>1, <2>2 DEF Chunks, WithQuery
<1> QED BY <1>1, <1>2, <1>3, PipeFacts DEF Chunks, WithQuery

LEMMA StageOf ==
  ASSUME pipe \in Pipes, NEW n \in Nat
  PROVE  n % pipe.stages \in Stages
<1>1. CASE pipe.stages = 1
  BY <1>1 DEF Stages
<1>2. CASE pipe.stages = 2
  BY <1>2 DEF Stages
<1>3. CASE pipe.stages = 3
  BY <1>3 DEF Stages
<1> QED BY <1>1, <1>2, <1>3, PipeFacts

LEMMA FillsFacts ==
  ASSUME pipe \in Pipes, NEW s \in Stages, NEW n \in Nat
  PROVE  /\ Fills(n, s) \in Nat
         /\ Fills(0, s) = 0
         /\ n % pipe.stages # s => Fills(n + 1, s) = Fills(n, s)
         /\ n % pipe.stages = s => /\ Fills(n + 1, s) = Fills(n, s) + 1
                                   /\ Fills(n, s) = n \div pipe.stages
<1>1. CASE pipe.stages = 1
  BY <1>1 DEF Stages, Fills
<1>2. CASE pipe.stages = 2
  BY <1>2 DEF Stages, Fills
<1>3. CASE pipe.stages = 3
  BY <1>3 DEF Stages, Fills
<1> QED BY <1>1, <1>2, <1>3, PipeFacts

LEMMA FillsOrder ==
  ASSUME pipe \in Pipes, NEW s \in Stages, NEW n \in Nat, NEW m \in Nat
  PROVE  /\ m <= n => Fills(m, s) <= Fills(n, s)
         /\ n <= m + pipe.stages => Fills(n, s) <= Fills(m, s) + 1
         /\ n % pipe.stages = s /\ Fills(n, s) <= Fills(m, s) => n < m + pipe.stages
         /\ n % pipe.stages = s /\ Fills(n, s) < Fills(m, s) => n < m
<1>1. CASE pipe.stages = 1
  BY <1>1 DEF Stages, Fills
<1>2. CASE pipe.stages = 2
  BY <1>2 DEF Stages, Fills
<1>3. CASE pipe.stages = 3
  BY <1>3 DEF Stages, Fills
<1> QED BY <1>1, <1>2, <1>3, PipeFacts

-----------------------------------------------------------------------------
(* The warp that takes a step.                                             *)

WarpType == [at : Labels, to : Labels, tile : 0 .. pipe.tiles - 1, block : 0 .. DmaIssues,
             next : DOMAIN OperandSeq, parity : [Stages -> {0, 1}]]

\* One warp moves, and is where a warp may be.
Moved(w) ==
  /\ pipe' = pipe
  /\ warp' = [v \in Warps |-> warp'[v]]
  /\ \A v \in Warps : v # w => warp'[v] = warp[v]
  /\ warp'[w] \in WarpType /\ (w # Dma => warp'[w].block <= Blocks)
  /\ Placed(w)' /\ Parities(w)'
  /\ Round(w)' = Round(w) /\ TileOf(w)' = TileOf(w)
  /\ pipe.style = "transpose" /\ w \in Consumers => Shared(w)' = Shared(w)

LEMMA SamePipe ==
  ASSUME pipe' = pipe
  PROVE  /\ Blocks' = Blocks /\ DmaIssues' = DmaIssues /\ OperandSeq' = OperandSeq /\ OperandSet' = OperandSet
         /\ Stages' = Stages /\ Pieces' = Pieces /\ Loads' = Loads /\ Mbars' = Mbars
         /\ Places' = Places /\ AllOperands' = AllOperands /\ WarpType' = WarpType
         /\ Chunks' = Chunks /\ Pipelined' = Pipelined /\ WithQuery' = WithQuery
         /\ \A n, s : Fills(n, s)' = Fills(n, s)
BY DEF Blocks, DmaIssues, DmaBlocks, OperandSeq, OperandSet, Stages, Pieces, Loads, Mbars, Places, AllOperands, Chunks,
       Pipelined, WithQuery, Fills, WarpType

\* What a warp is at depends on nothing but the warp.
LEMMA SameWarp ==
  ASSUME NEW v \in Warps, warp'[v] = warp[v], pipe' = pipe
  PROVE  /\ Placed(v)' = Placed(v) /\ Parities(v)' = Parities(v)
         /\ Round(v)' = Round(v) /\ Shared(v)' = Shared(v)
         /\ TileOf(v)' = TileOf(v) /\ Done(v)' = Done(v)
         /\ \A o : Passed(v, o)' = Passed(v, o) /\ Has(v, o)' = Has(v, o)
<1>1. \A l : At(v, l)' = At(v, l) /\ Held(v, l)' = Held(v, l)
  BY DEF At, Held
<1>2. Setup(v)' = Setup(v) /\ Turned(v)' = Turned(v)
  BY <1>1 DEF Setup, Turned
<1>3. TileOf(v)' = TileOf(v) /\ BlockOf(v)' = BlockOf(v)
  BY <1>2, SamePipe DEF TileOf, BlockOf
<1>4. Done(v)' = Done(v) /\ Shared(v)' = Shared(v)
  BY <1>1, <1>3 DEF Done, Shared
<1>5. Round(v)' = Round(v)
  BY <1>1, <1>2, <1>3, SamePipe DEF Round
<1>6. \A o : Passed(v, o)' = Passed(v, o)
  BY <1>1, <1>2, <1>4, SamePipe DEF Passed
<1>7. \A o : Has(v, o)' = Has(v, o)
  BY <1>1, SamePipe DEF Has
<1>8. Placed(v)' = Placed(v)
  BY <1>1, <1>2, SamePipe DEF Placed, InPipeline, InChunks
<1>9. Parities(v)' = Parities(v)
  <2>1. Counted(v)' = Counted(v)
    BY <1>1, SamePipe DEF Counted
  <2>2. \A s : ParityOf(v, s)' = ParityOf(v, s)
    BY <2>1, SamePipe DEF ParityOf
  <2> QED BY <1>1, <2>2, SamePipe DEF Parities
<1> QED BY <1>3, <1>4, <1>5, <1>6, <1>7, <1>8, <1>9

LEMMA ParityKept ==
  ASSUME NEW w \in Warps, pipe' = pipe,
         \A s \in Stages : warp[w].parity[s] = ParityOf(w, s),
         warp'[w].parity = warp[w].parity, Counted(w)' = Counted(w)
  PROVE  Parities(w)'
<1>1. \A s : ParityOf(w, s)' = ParityOf(w, s)
  BY SamePipe DEF ParityOf
<1> QED BY <1>1, SamePipe DEF Parities

\* Q's, or a fresh warp's.
LEMMA ParityFresh ==
  ASSUME pipe \in Pipes, NEW w \in Warps, pipe' = pipe,
         warp'[w].parity = FreshParities(w), Counted(w)' = 0
  PROVE  Parities(w)'
<1>1. \A s \in Stages : Fills(0, s) = 0
  BY FillsFacts
<1>2. w \in Consumers => w # Dma
  BY PipesOK
<1>3. w \notin Consumers => w = Dma
  BY DEF Warps
<1>4. \A s \in Stages : warp'[w].parity[s] = ParityOf(w, s)'
  BY <1>1, <1>2, <1>3, SamePipe DEF ParityOf, FreshParities, FirstParity
<1> QED BY <1>4, SamePipe DEF Parities

LEMMA ParityTurned ==
  ASSUME pipe \in Pipes, NEW w \in Warps, pipe' = pipe, NEW n \in Nat,
         \A s \in Stages : warp[w].parity[s] = ParityOf(w, s),
         warp[w].parity \in [Stages -> {0, 1}],
         Counted(w) = n, Counted(w)' = n + 1,
         w = Dma /\ pipe.style # "gemm" => pipe.stages <= n,
         warp'[w].parity = Flip(warp[w].parity, n % pipe.stages)
  PROVE  Parities(w)'
<1>1. w \in Consumers => w # Dma
  BY PipesOK
<1>2. w \notin Consumers => w = Dma
  BY DEF Warps
<1>3. ASSUME NEW s \in Stages
      PROVE  warp'[w].parity[s] = ParityOf(w, s)'
  <2>1. Fills(n, s) \in Nat /\ Fills(n + 1, s) \in Nat
    BY FillsFacts
  <2>2. ParityOf(w, s)' =
          IF w \in Consumers THEN Fills(n + 1, s) % 2
          ELSE IF Fills(n + 1, s) = 0 /\ pipe.style # "gemm" THEN 0 ELSE (Fills(n + 1, s) + 1) % 2
    BY SamePipe DEF ParityOf
  <2>3. warp[w].parity[s] =
          IF w \in Consumers THEN Fills(n, s) % 2
          ELSE IF Fills(n, s) = 0 /\ pipe.style # "gemm" THEN 0 ELSE (Fills(n, s) + 1) % 2
    BY DEF ParityOf
  <2>4. CASE n % pipe.stages # s
    <3>1. warp'[w].parity[s] = warp[w].parity[s]
      BY <2>4 DEF Flip
    <3> QED BY <2>2, <2>3, <2>4, <3>1, FillsFacts
  <2>5. CASE n % pipe.stages = s
    <3>1. warp'[w].parity[s] = 1 - warp[w].parity[s]
      BY <2>5 DEF Flip
    <3>2. Fills(n + 1, s) = Fills(n, s) + 1
      BY <2>5, FillsFacts
    <3>3. ~(w \in Consumers) /\ pipe.style # "gemm" => Fills(n, s) # 0
      <4> SUFFICES ASSUME w = Dma, pipe.style # "gemm" PROVE Fills(n, s) # 0
        BY <1>2
      <4>1. Fills(n, s) <= Fills(0, s) => n < 0 + pipe.stages
        BY <2>5, FillsOrder
      <4>2. pipe.stages <= n /\ pipe.stages \in Nat
        BY PipeFacts
      <4>3. Fills(0, s) = 0
        BY FillsFacts
      <4> QED BY <2>1, <4>1, <4>2, <4>3
    <3> DEFINE f == Fills(n, s)
    <3>4. f \in Nat
      BY <2>1
    <3>5. warp[w].parity[s] = IF w \in Consumers THEN f % 2
                              ELSE IF f = 0 /\ pipe.style # "gemm" THEN 0 ELSE (f + 1) % 2
      BY <2>3
    <3>6. ParityOf(w, s)' = IF w \in Consumers THEN (f + 1) % 2
                            ELSE IF f + 1 = 0 /\ pipe.style # "gemm" THEN 0 ELSE (f + 2) % 2
      BY <2>1, <2>2, <3>2
    <3>7. ~(w \in Consumers) /\ pipe.style # "gemm" => f # 0
      BY <3>3
    <3> HIDE DEF f
    <3>8. CASE w \in Consumers
      BY <3>1, <3>4, <3>5, <3>6, <3>8
    <3>9. CASE w \notin Consumers
      BY <3>1, <3>4, <3>5, <3>6, <3>7, <3>9
    <3> QED BY <3>8, <3>9
  <2> QED BY <2>4, <2>5
<1> QED BY <1>3, SamePipe DEF Parities

\* The first loads of a tile but a GEMM's go without a turn of the parity.
LEMMA ParityFirst ==
  ASSUME pipe \in Pipes, pipe' = pipe, NEW n \in Nat, pipe.style # "gemm", n < pipe.stages,
         \A s \in Stages : warp[Dma].parity[s] = ParityOf(Dma, s),
         Counted(Dma) = n, Counted(Dma)' = n + 1,
         warp'[Dma].parity = warp[Dma].parity
  PROVE  Parities(Dma)'
<1>1. Dma \notin Consumers
  BY PipesOK
<1>2. ASSUME NEW s \in Stages
      PROVE  warp'[Dma].parity[s] = ParityOf(Dma, s)'
  <2>1. Fills(n, s) \in Nat /\ Fills(n + 1, s) \in Nat
    BY FillsFacts
  <2>2. ParityOf(Dma, s)' = IF Fills(n + 1, s) = 0 THEN 0 ELSE (Fills(n + 1, s) + 1) % 2
    BY <1>1, SamePipe DEF ParityOf
  <2>3. warp[Dma].parity[s] = IF Fills(n, s) = 0 THEN 0 ELSE (Fills(n, s) + 1) % 2
    BY <1>1 DEF ParityOf
  <2>4. n % pipe.stages # s => Fills(n + 1, s) = Fills(n, s)
    BY FillsFacts
  <2>5. n % pipe.stages = s => Fills(n, s) = 0 /\ Fills(n + 1, s) = 1
    <3>1. CASE pipe.stages = 1
      BY <3>1 DEF Fills, Stages
    <3>2. CASE pipe.stages = 2
      BY <3>2 DEF Fills, Stages
    <3>3. CASE pipe.stages = 3
      BY <3>3 DEF Fills, Stages
    <3> QED BY <3>1, <3>2, <3>3, PipeFacts
  <2> QED BY <2>2, <2>3, <2>4, <2>5
<1> QED BY <1>2, SamePipe DEF Parities

-----------------------------------------------------------------------------
(* Where each action takes its warp.                                       *)

\* What is known of the warp that moves.
LEMMA Mover ==
  ASSUME Typed, NEW w \in Warps
  PROVE  /\ pipe \in Pipes
         /\ warp \in [Warps -> WarpType] /\ warp[w] \in WarpType
         /\ warp[w].tile \in 0 .. pipe.tiles - 1 /\ warp[w].block \in 0 .. DmaIssues
         /\ (w # Dma => warp[w].block \in 0 .. Blocks /\ warp[w].block <= Blocks)
         /\ warp[w].next \in DOMAIN OperandSeq /\ warp[w].parity \in [Stages -> {0, 1}]
         /\ Blocks \in Nat /\ DmaIssues \in Nat /\ DmaIssues > 0 /\ Blocks <= DmaIssues
         /\ pipe.stages \in 1 .. 3 /\ pipe.tiles \in Nat
         /\ Len(OperandSeq) \in {1, 2} /\ DOMAIN OperandSeq = 1 .. Len(OperandSeq)
         /\ (w = Dma <=> w \notin Consumers) /\ Leader # Dma
<1>1. Len(OperandSeq) \in {1, 2} /\ DOMAIN OperandSeq = 1 .. Len(OperandSeq)
  BY OperandFacts DEF Typed
<1>2. /\ warp \in [Warps -> WarpType] /\ warp[w] \in WarpType
  BY DEF Typed, WarpType
<1>3. /\ warp[w].tile \in 0 .. pipe.tiles - 1 /\ warp[w].block \in 0 .. DmaIssues
      /\ warp[w].next \in DOMAIN OperandSeq /\ warp[w].parity \in [Stages -> {0, 1}]
  BY <1>2 DEF WarpType
<1>4. /\ pipe \in Pipes /\ Blocks \in Nat /\ DmaIssues \in Nat /\ DmaIssues > 0 /\ Blocks <= DmaIssues
      /\ pipe.stages \in 1 .. 3 /\ pipe.tiles \in Nat
  BY PipeFacts DEF Typed
<1>5. w # Dma => warp[w].block \in 0 .. Blocks /\ warp[w].block <= Blocks
  BY <1>3, <1>4 DEF Typed, Within
<1> QED BY <1>1, <1>2, <1>3, <1>4, <1>5, PipesOK DEF Warps


\* The warp's record after the step.
Goes(w, a, l, t, b, n) ==
  /\ pipe' = pipe
  /\ warp' = [v \in Warps |-> warp'[v]]
  /\ \A v \in Warps : v # w => warp'[v] = warp[v]
  /\ warp'[w] \in WarpType /\ (w # Dma => warp'[w].block <= Blocks)
  /\ warp'[w].at = a /\ warp'[w].to = l /\ warp'[w].tile = t
  /\ warp'[w].block = b /\ warp'[w].next = n

\* To a bar.sync nothing else of the warp's changes.
LEMMA GoesToSync ==
  ASSUME Typed, NEW w \in Warps, NEW l \in Labels, pipe' = pipe, SyncThen(w, l)
  PROVE  /\ Goes(w, "bar", l, warp[w].tile, warp[w].block, warp[w].next)
         /\ warp'[w].parity = warp[w].parity
<1>1. warp' = [warp EXCEPT ![w] = [@ EXCEPT !.at = "bar", !.to = l]]
  BY DEF SyncThen
<1>2. warp \in [Warps -> WarpType] /\ warp[w] \in WarpType /\ (w # Dma => warp[w].block <= Blocks)
  BY Mover
<1>3. /\ warp'[w] = [warp[w] EXCEPT !.at = "bar", !.to = l]
      /\ warp' = [v \in Warps |-> warp'[v]] /\ \A v \in Warps : v # w => warp'[v] = warp[v]
  BY <1>1, <1>2
<1>4. /\ warp'[w] \in WarpType /\ warp'[w].at = "bar" /\ warp'[w].to = l
      /\ warp'[w].tile = warp[w].tile /\ warp'[w].block = warp[w].block
      /\ warp'[w].next = warp[w].next /\ warp'[w].parity = warp[w].parity
  BY <1>2, <1>3 DEF WarpType, Labels
<1> QED BY <1>2, <1>3, <1>4 DEF Goes

LEMMA MovesSkipInit ==
  ASSUME Typed, NEW w \in Warps, Placed(w), Parities(w), pipe' = pipe,
         At(w, "init"), SyncThen(w, "start")
  PROVE  Moved(w)
<1>1. /\ Goes(w, "bar", "start", warp[w].tile, warp[w].block, warp[w].next)
      /\ warp'[w].parity = warp[w].parity
  BY GoesToSync DEF Labels
<1>2. Placed(w)'
  BY <1>1, SamePipe, Mover
     DEF Goes, Placed, InPipeline, InChunks, At, Held, Setup, Turned, Chunks
<1>3. Parities(w)'
  <2>1. Counted(w)' = Counted(w)
    BY <1>1 DEF Goes, Counted, At, Held
  <2>2. CASE Chunks
    <3>1. w # Dma
      BY <2>2 DEF Placed, InChunks, At
    <3> QED BY <1>1, <2>1, <2>2, <3>1, ParityKept DEF Goes, Parities
  <2>3. CASE ~Chunks
    BY <1>1, <2>3, SamePipe DEF Goes, Parities, At
  <2> QED BY <2>2, <2>3
<1>4. Round(w)' = Round(w) /\ Shared(w)' = Shared(w) /\ TileOf(w)' = TileOf(w)
  BY <1>1, SamePipe DEF Goes, Round, Shared, TileOf, BlockOf, At, Held, Setup, Turned
<1> QED BY <1>1, <1>2, <1>3, <1>4 DEF Moved, Goes

LEMMA MovesTileDone ==
  ASSUME Typed, NEW w \in Warps, Placed(w), Parities(w), TileDone(w)
  PROVE  Moved(w)
<1>1. /\ pipe' = pipe /\ Pipelined /\ ~Chunks /\ At(w, "loop")
      /\ warp[w].block = IF w = Dma THEN DmaIssues ELSE Blocks
  BY Mover, PipeFacts DEF TileDone, TileDoneTo
<1>2. CASE warp[w].tile + 1 < pipe.tiles
  <2>0. warp[w].block = Blocks /\ Blocks \in Nat /\ 0 <= Blocks
        /\ warp[w].tile + 1 \in 0 .. pipe.tiles - 1 /\ 0 \in 0 .. DmaIssues
    BY <1>1, <1>2, Mover, PipeFacts
  <2>1. Goes(w, "bar", "init", warp[w].tile + 1, 0, warp[w].next)
    <3>1. warp' = [warp EXCEPT ![w].at = "bar", ![w].to = "init", ![w].tile = @ + 1, ![w].block = 0]
      BY <1>2 DEF TileDone, TileDoneTo
    <3> QED BY <1>1, <2>0, <3>1, Mover DEF Goes, WarpType, Labels
  <2>2. Placed(w)'
    BY <1>1, <2>1, SamePipe, PipeFacts, Mover
       DEF Goes, Placed, InPipeline, At, Held, Setup, Turned
  <2>3. Parities(w)'
    BY <1>1, <2>1, SamePipe DEF Goes, Parities, At
  <2>4. Round(w)' = Round(w) /\ Shared(w)' = Shared(w) /\ TileOf(w)' = TileOf(w)
    BY <1>1, <2>0, <2>1, SamePipe, Mover
       DEF Goes, Round, Shared, TileOf, BlockOf, At, Held, Setup, Turned
  <2> QED BY <2>1, <2>2, <2>3, <2>4 DEF Moved, Goes
<1>3. CASE ~(warp[w].tile + 1 < pipe.tiles)
  <2>1. Goes(w, "exit", warp[w].to, warp[w].tile, warp[w].block, warp[w].next)
    <3>1. warp' = [warp EXCEPT ![w].at = "exit"]
      BY <1>3 DEF TileDone, TileDoneTo, Goto
    <3>2. w # Dma => warp[w].block <= Blocks
      BY Mover
    <3> QED BY <1>1, <3>1, <3>2, Mover DEF Goes, WarpType, Labels
  <2>2. Placed(w)'
    <3>1. warp[w].tile = pipe.tiles - 1
      BY <1>3, Mover
    <3> QED BY <1>1, <2>1, <3>1, SamePipe, PipeFacts DEF Goes, Placed, InPipeline, At, Held, Turned
  <2>3. Parities(w)'
    BY <1>1, <2>1, SamePipe DEF Goes, Parities, At
  <2>4. Round(w)' = Round(w) /\ Shared(w)' = Shared(w) /\ TileOf(w)' = TileOf(w)
    BY <1>1, <2>1, SamePipe, Mover
       DEF Goes, Round, Shared, TileOf, BlockOf, At, Held, Setup, Turned
  <2> QED BY <2>1, <2>2, <2>3, <2>4 DEF Moved, Goes
<1> QED BY <1>2, <1>3

LEMMA MovesDma ==
  ASSUME Typed, Placed(Dma), Parities(Dma), DmaStart \/ DmaLoop \/ DmaWaitDone \/ DmaLoad
  PROVE  Moved(Dma)
<1> Dma \in Warps
  BY DEF Warps
<1>1. pipe' = pipe /\ ~Chunks /\ Pipelined
  BY PipeFacts DEF Typed, DmaStart, DmaLoop, DmaWaitDone, DmaLoad, Placed, InChunks, At
<1> DEFINE d == warp[Dma]
<1>2. d.block \in Nat /\ d.parity \in [Stages -> {0, 1}]
  BY Mover
<1>3. CASE DmaStart
  <2>1. /\ Goes(Dma, "loop", d.to, d.tile, d.block, d.next)
        /\ warp'[Dma].parity = FreshParities(Dma)
    <3>1. FreshParities(Dma) \in [Stages -> {0, 1}]
      BY DEF FreshParities, FirstParity
    <3> QED BY <1>1, <1>3, <3>1, Mover DEF DmaStart, Begin, Goes, WarpType, Labels
  <2>2. At(Dma, "start") /\ d.block = 0
    BY <1>1, <1>3 DEF DmaStart, Placed, InPipeline
  <2>3. Placed(Dma)'
    BY <1>1, <2>1, SamePipe, Mover DEF Goes, Placed, InPipeline, At, Held, Turned
  <2>4. Counted(Dma)' = 0
    BY <1>1, <2>1, <2>2, SamePipe DEF Goes, Counted, At
  <2>5. Parities(Dma)'
    BY <1>1, <2>1, <2>4, ParityFresh DEF Typed
  <2>6. Round(Dma)' = Round(Dma) /\ Shared(Dma)' = Shared(Dma) /\ TileOf(Dma)' = TileOf(Dma)
    BY <1>1, <2>1, <2>2, SamePipe DEF Goes, Round, Shared, TileOf, BlockOf, At, Held, Setup, Turned
  <2> QED BY <2>1, <2>3, <2>5, <2>6 DEF Moved, Goes
<1>4. CASE DmaLoop
  <2>1. At(Dma, "loop") /\ d.block < DmaIssues
    BY <1>4, PipeFacts DEF DmaLoop, Typed
  <2>2. d.block % pipe.stages \in Stages /\ Stage(Dma) = d.block % pipe.stages
    BY <1>2, StageOf DEF Typed, Stage
  <2>3. /\ Goes(Dma, IF d.block < pipe.stages THEN "load" ELSE "wait", d.to, d.tile, d.block, 1)
        /\ warp'[Dma].parity = IF d.block < pipe.stages /\ pipe.style = "gemm"
                               THEN Flip(d.parity, Stage(Dma)) ELSE d.parity
    <3>1. Flip(d.parity, Stage(Dma)) \in [Stages -> {0, 1}]
      BY <1>2, <2>2 DEF Flip
    <3> DEFINE q == IF d.block < pipe.stages /\ pipe.style = "gemm"
                    THEN Flip(d.parity, Stage(Dma)) ELSE d.parity
               a == IF d.block < pipe.stages THEN "load" ELSE "wait"
    <3>2. warp' = [warp EXCEPT ![Dma].at = a, ![Dma].next = 1, ![Dma].parity = q]
      BY <1>4, Mover DEF DmaLoop
    <3>3. a \in Labels /\ q \in [Stages -> {0, 1}] /\ 1 \in DOMAIN OperandSeq
      BY <1>2, <3>1, Mover DEF Labels
    <3> HIDE DEF a, q
    <3>4. Goes(Dma, a, d.to, d.tile, d.block, 1) /\ warp'[Dma].parity = q
      BY <1>1, <3>2, <3>3, Mover DEF Goes, WarpType
    <3> QED BY <3>4 DEF a, q
  <2>4. Placed(Dma)'
    BY <1>1, <2>1, <2>3, SamePipe, Mover DEF Goes, Placed, InPipeline, At, Held, Turned
  <2>5. \A s \in Stages : d.parity[s] = ParityOf(Dma, s)
    BY <1>1, <2>1 DEF Parities, At
  <2>6. Counted(Dma) = d.block
    BY <1>1, <1>2, <2>1 DEF Counted, At
  <2>7. CASE ~(d.block < pipe.stages)
    <3>1. Counted(Dma)' = d.block
      BY <1>1, <1>2, <2>3, <2>7, SamePipe DEF Goes, Counted, At
    <3> QED BY <1>1, <2>3, <2>4, <2>5, <2>6, <2>7, <3>1, <2>1, SamePipe, ParityKept
            DEF Moved, Goes, Round, Shared, TileOf, BlockOf, At, Held, Setup, Turned
  <2>8. CASE d.block < pipe.stages
    <3>1. Counted(Dma)' = d.block + 1
      BY <1>1, <1>2, <2>3, <2>8, SamePipe DEF Goes, Counted, At
    <3>2. Parities(Dma)'
      <4>1. CASE pipe.style = "gemm"
        BY <1>1, <1>2, <2>2, <2>3, <2>5, <2>6, <2>8, <3>1, <4>1, ParityTurned DEF Typed
      <4>2. CASE pipe.style # "gemm"
        BY <1>1, <1>2, <2>3, <2>5, <2>6, <2>8, <3>1, <4>2, ParityFirst DEF Typed
      <4> QED BY <4>1, <4>2
    <3> QED BY <1>1, <2>1, <2>3, <2>4, <2>8, <3>2, SamePipe
            DEF Moved, Goes, Round, Shared, TileOf, BlockOf, At, Held, Setup, Turned
  <2> QED BY <2>7, <2>8
<1>5. CASE DmaWaitDone
  <2>1. At(Dma, "wait") /\ d.block < DmaIssues /\ pipe.stages <= d.block /\ d.next = 1
    BY <1>1, <1>5 DEF DmaWaitDone, Placed, InPipeline
  <2>2. d.block % pipe.stages \in Stages /\ Stage(Dma) = d.block % pipe.stages
    BY <1>2, StageOf DEF Typed, Stage
  <2>3. /\ Goes(Dma, "load", d.to, d.tile, d.block, d.next)
        /\ warp'[Dma].parity = Flip(d.parity, Stage(Dma))
    <3>1. Flip(d.parity, Stage(Dma)) \in [Stages -> {0, 1}]
      BY <1>2, <2>2 DEF Flip
    <3> QED BY <1>1, <1>5, <3>1, Mover DEF DmaWaitDone, Goes, WarpType, Labels
  <2>4. Placed(Dma)'
    BY <1>1, <2>1, <2>3, SamePipe, Mover DEF Goes, Placed, InPipeline, At, Held, Turned
  <2>5. \A s \in Stages : d.parity[s] = ParityOf(Dma, s)
    BY <1>1, <2>1 DEF Parities, At
  <2>6. Counted(Dma) = d.block /\ Counted(Dma)' = d.block + 1
    BY <1>1, <1>2, <2>1, <2>3, SamePipe DEF Goes, Counted, At
  <2>7. Parities(Dma)'
    BY <1>1, <1>2, <2>1, <2>2, <2>3, <2>5, <2>6, ParityTurned DEF Typed
  <2> QED BY <1>1, <2>1, <2>3, <2>4, <2>7, SamePipe
          DEF Moved, Goes, Round, Shared, TileOf, BlockOf, At, Held, Setup, Turned
<1>6. CASE DmaLoad
  <2>1. At(Dma, "load") /\ d.block < DmaIssues
    BY <1>1, <1>6 DEF DmaLoad, Placed, InPipeline
  <2>2. \A s \in Stages : d.parity[s] = ParityOf(Dma, s)
    BY <1>1, <2>1 DEF Parities, At
  <2>3. CASE d.next < Len(OperandSeq)
    <3>1. /\ Goes(Dma, "load", d.to, d.tile, d.block, d.next + 1)
          /\ warp'[Dma].parity = d.parity
      <4>1. warp' = [warp EXCEPT ![Dma].next = @ + 1]
        BY <1>6, <2>3 DEF DmaLoad
      <4>2. d.next + 1 \in DOMAIN OperandSeq
        BY <2>3, Mover
      <4> QED BY <1>1, <2>1, <4>1, <4>2, Mover DEF Goes, WarpType, At
    <3>2. Placed(Dma)'
      BY <1>1, <2>1, <3>1, SamePipe, Mover DEF Goes, Placed, InPipeline, At, Held, Turned
    <3>3. Counted(Dma)' = Counted(Dma)
      BY <1>1, <2>1, <3>1, SamePipe DEF Goes, Counted, At
    <3> QED BY <1>1, <2>1, <2>2, <3>1, <3>2, <3>3, SamePipe, ParityKept
            DEF Moved, Goes, Round, Shared, TileOf, BlockOf, At, Held, Setup, Turned
  <2>4. CASE ~(d.next < Len(OperandSeq))
    <3>1. /\ Goes(Dma, "loop", d.to, d.tile, d.block + 1, d.next)
          /\ warp'[Dma].parity = d.parity
      <4>1. warp' = [warp EXCEPT ![Dma].at = "loop", ![Dma].block = @ + 1]
        BY <1>6, <2>4 DEF DmaLoad
      <4>2. d.block + 1 \in 0 .. DmaIssues
        BY <2>1, Mover
      <4> QED BY <1>1, <4>1, <4>2, Mover DEF Goes, WarpType, Labels
    <3>2. Placed(Dma)'
      BY <1>1, <2>1, <3>1, SamePipe, Mover DEF Goes, Placed, InPipeline, At, Held, Turned
    <3>3. Counted(Dma)' = Counted(Dma)
      BY <1>1, <1>2, <2>1, <3>1, SamePipe DEF Goes, Counted, At
    <3> QED BY <1>1, <2>1, <2>2, <3>1, <3>2, <3>3, SamePipe, ParityKept, PipesOK
            DEF Moved, Goes, Round, Shared, TileOf, BlockOf, At, Held, Setup, Turned
  <2> QED BY <2>3, <2>4
<1> QED BY <1>3, <1>4, <1>5, <1>6

LEMMA MovesConsumer ==
  ASSUME Typed, NEW c \in Consumers, Placed(c), Parities(c),
         \/ ConsumerStart(c) \/ WaitQuery(c) \/ FetchQuery(c) \/ ConsumerLoop(c)
         \/ WaitLoad(c) \/ ReadFirst(c) \/ Transpose(c) \/ FinishBlock(c)
  PROVE  Moved(c)
<1> c \in Warps
  BY DEF Warps
<1> USE DEF At
<1>1. pipe' = pipe /\ ~Chunks /\ Pipelined
  <2>1. pipe' = pipe
    BY DEF ConsumerStart, WaitQuery, FetchQuery, ConsumerLoop, WaitLoad, ReadFirst, Transpose,
           FinishBlock, FinishWith
  <2>2. CASE Pipelined
    BY <2>1, <2>2, PipeFacts DEF Typed
  <2>3. CASE ~Pipelined
    <3>1. At(c, "query") \/ At(c, "fetch") \/ pipe.style = "transpose"
      BY <2>3 DEF ConsumerStart, WaitQuery, FetchQuery, ConsumerLoop, WaitLoad, ReadFirst,
              Transpose, FinishBlock, FinishWith, LastRead, Pipelined
    <3>2. Chunks /\ c # Dma /\ pipe.style # "transpose"
      BY <2>3, Mover, PipeFacts DEF Chunks
    <3> QED BY <3>1, <3>2 DEF Placed, InChunks
  <2> QED BY <2>2, <2>3
<1> DEFINE d == warp[c]
<1>2. d.block \in Nat /\ d.parity \in [Stages -> {0, 1}] /\ c # Dma /\ d.next \in 1 .. 2
  BY Mover
<1>3. InPipeline(c) /\ d.block <= Blocks
  BY <1>1, <1>2, Mover DEF Placed
<1>4. ASSUME \A s \in Stages : warp[c].parity[s] = ParityOf(c, s), NEW a, NEW n,
             a \in {"query", "fetch", "loop", "wait", "read", "bar128", "multiply"},
             ~Held(c, "init"), ~At(c, "init"), ~At(c, "bar"),
             Goes(c, a, d.to, d.tile, d.block, n), d.parity = warp'[c].parity,
             pipe.style = "transpose" => (a = "multiply" <=> At(c, "multiply")),
             InPipeline(c)'
      PROVE  Moved(c)
  <2>1. Counted(c)' = Counted(c)
    BY <1>1, <1>2, <1>4, SamePipe DEF Goes, Counted
  <2>2. Parities(c)'
    BY <1>1, <1>4, <2>1, ParityKept
  <2>3. Round(c)' = Round(c) /\ TileOf(c)' = TileOf(c)
    BY <1>1, <1>3, <1>4, SamePipe DEF Goes, Round, TileOf, Held, Setup, Turned
  <2>4. pipe.style = "transpose" => Shared(c)' = Shared(c)
    BY <1>1, <1>4, SamePipe DEF Goes, Shared, BlockOf, Held, Turned
  <2> QED BY <1>1, <1>4, <2>2, <2>3, <2>4, SamePipe DEF Moved, Goes, Placed
<1>5. At(c, "start") \/ \A s \in Stages : d.parity[s] = ParityOf(c, s)
  BY <1>1 DEF Parities, ConsumerStart, WaitQuery, FetchQuery, ConsumerLoop, WaitLoad, ReadFirst,
     Transpose, FinishBlock, FinishWith, LastRead
<1>6. CASE ConsumerStart(c)
  <2> DEFINE a == IF pipe.style # "gemm" THEN "query" ELSE "loop"
  <2>1. At(c, "start") /\ d.block = 0
    BY <1>3, <1>6 DEF ConsumerStart, InPipeline
  <2>2. FreshParities(c) \in [Stages -> {0, 1}]
    BY DEF FreshParities, FirstParity
  <2>3. warp' = [warp EXCEPT ![c].at = a, ![c].parity = FreshParities(c)]
    BY <1>6 DEF ConsumerStart, Begin
  <2>4. a \in Labels
    BY DEF Labels
  <2>5. a \in {"query", "loop"} /\ (a = "query" => WithQuery)
    BY <1>1, PipeFacts DEF WithQuery, Typed, Pipelined
  <2> HIDE DEF a
  <2>6. Goes(c, a, d.to, d.tile, d.block, d.next) /\ warp'[c].parity = FreshParities(c)
    BY <1>1, <1>2, <1>3, <2>2, <2>3, <2>4, Mover DEF Goes, WarpType
  <2>7. Placed(c)'
    BY <1>1, <1>2, <2>1, <2>5, <2>6, SamePipe, Mover DEF Goes, Placed, InPipeline, Held, Turned
  <2>8. Counted(c)' = 0
    BY <1>1, <1>2, <2>1, <2>6, SamePipe DEF Goes, Counted
  <2>9. Parities(c)'
    BY <1>1, <2>6, <2>8, ParityFresh DEF Typed
  <2> QED BY <1>1, <2>1, <2>5, <2>6, <2>7, <2>9, SamePipe
          DEF Moved, Goes, Round, Shared, TileOf, BlockOf, Held, Setup, Turned
<1>7. CASE WaitQuery(c) \/ FetchQuery(c)
  <2> DEFINE a == IF At(c, "query") THEN "fetch" ELSE "loop"
  <2>1. At(c, "query") \/ At(c, "fetch")
    BY <1>7 DEF WaitQuery, FetchQuery
  <2>2. warp' = [warp EXCEPT ![c].at = a]
    BY <1>7 DEF WaitQuery, FetchQuery, Goto
  <2>3. a \in Labels
    BY DEF Labels
  <2>4. a \in {"fetch", "loop"} /\ WithQuery /\ d.block = 0
    BY <1>3, <2>1 DEF InPipeline
  <2> HIDE DEF a
  <2>5. Goes(c, a, d.to, d.tile, d.block, d.next) /\ warp'[c].parity = d.parity
    BY <1>1, <1>2, <1>3, <2>2, <2>3, Mover DEF Goes, WarpType
  <2>6. InPipeline(c)'
    BY <1>1, <1>2, <2>4, <2>5, SamePipe, Mover DEF Goes, InPipeline, Held, Turned
  <2> QED BY <1>4, <1>5, <2>1, <2>4, <2>5, <2>6 DEF Held
<1>8. CASE ConsumerLoop(c)
  <2>1. At(c, "loop") /\ d.block < Blocks
    BY <1>8 DEF ConsumerLoop
  <2>2. Goes(c, "wait", d.to, d.tile, d.block, 1) /\ warp'[c].parity = d.parity
    <3>1. warp' = [warp EXCEPT ![c].at = "wait", ![c].next = 1] /\ 1 \in DOMAIN OperandSeq
      BY <1>8, Mover DEF ConsumerLoop
    <3> QED BY <1>1, <1>2, <1>3, <3>1, Mover DEF Goes, WarpType, Labels
  <2>3. InPipeline(c)'
    BY <1>1, <1>2, <2>1, <2>2, SamePipe, Mover DEF Goes, InPipeline, Held, Turned
  <2> QED BY <1>4, <1>5, <2>1, <2>2, <2>3 DEF Held
<1>9. CASE WaitLoad(c)
  <2>1. At(c, "wait") /\ d.block < Blocks
    BY <1>2, <1>3, <1>9 DEF WaitLoad, InPipeline
  <2>2. CASE pipe.style = "gemm" /\ d.next < Len(OperandSeq)
    <3>1. warp' = [warp EXCEPT ![c].next = @ + 1]
      BY <1>9, <2>2 DEF WaitLoad
    <3>2. d.next + 1 \in DOMAIN OperandSeq
      BY <2>2, Mover
    <3>3. Goes(c, "wait", d.to, d.tile, d.block, d.next + 1) /\ warp'[c].parity = d.parity
      BY <1>1, <1>2, <1>3, <2>1, <3>1, <3>2, Mover DEF Goes, WarpType
    <3>4. InPipeline(c)'
      BY <1>1, <1>2, <2>1, <3>3, SamePipe, Mover DEF Goes, InPipeline, Held, Turned
    <3> QED BY <1>4, <1>5, <2>1, <3>3, <3>4 DEF Held
  <2>3. CASE ~(pipe.style = "gemm" /\ d.next < Len(OperandSeq))
    <3>1. Goes(c, "read", d.to, d.tile, d.block, d.next) /\ warp'[c].parity = d.parity
      <4>1. warp' = [warp EXCEPT ![c].at = "read"]
        BY <1>9, <2>3 DEF WaitLoad, Goto
      <4> QED BY <1>1, <1>2, <1>3, <4>1, Mover DEF Goes, WarpType, Labels
    <3>2. pipe.style = "gemm" => d.next = Len(OperandSeq)
      BY <2>3, Mover
    <3>3. InPipeline(c)'
      BY <1>1, <1>2, <2>1, <3>1, <3>2, SamePipe DEF Goes, InPipeline, Held, Turned
    <3> QED BY <1>4, <1>5, <2>1, <3>1, <3>3 DEF Held
  <2> QED BY <2>2, <2>3
<1>10. CASE ReadFirst(c)
  <2>1. At(c, "read") /\ d.next < Len(OperandSeq) /\ d.block < Blocks
    BY <1>3, <1>10 DEF ReadFirst, InPipeline
  <2>2. warp' = [warp EXCEPT ![c].at = "wait", ![c].next = @ + 1]
    BY <1>10 DEF ReadFirst
  <2>3. d.next + 1 \in DOMAIN OperandSeq
    BY <2>1, Mover
  <2>4. Goes(c, "wait", d.to, d.tile, d.block, d.next + 1) /\ warp'[c].parity = d.parity
    BY <1>1, <1>2, <1>3, <2>2, <2>3, Mover DEF Goes, WarpType, Labels
  <2>5. InPipeline(c)'
    BY <1>1, <1>2, <2>1, <2>4, SamePipe DEF Goes, InPipeline, Held, Turned
  <2> QED BY <1>4, <1>5, <2>1, <2>4, <2>5 DEF Held
<1>11. CASE Transpose(c)
  <2>1. At(c, "read") /\ d.next = Len(OperandSeq) /\ d.block < Blocks /\ pipe.style = "transpose"
    BY <1>3, <1>11 DEF Transpose, InPipeline
  <2>2. Goes(c, "bar128", d.to, d.tile, d.block, d.next) /\ warp'[c].parity = d.parity
    BY <1>1, <1>2, <1>3, <1>11, Mover DEF Transpose, Goto, Goes, WarpType, Labels
  <2>3. InPipeline(c)'
    BY <1>1, <1>2, <2>1, <2>2, SamePipe DEF Goes, InPipeline, Held, Turned
  <2> QED BY <1>4, <1>5, <2>1, <2>2, <2>3 DEF Held
<1>12. CASE FinishBlock(c)
  <2>1. /\ At(c, "read") \/ At(c, "multiply")
        /\ pipe.style = "transpose" => At(c, "multiply")
        /\ d.block < Blocks
    BY <1>3, <1>12 DEF FinishBlock, FinishWith, LastRead, InPipeline
  <2>2. d.block % pipe.stages \in Stages /\ Stage(c) = d.block % pipe.stages
    BY <1>2, StageOf DEF Typed, Stage
  <2>3. Flip(d.parity, Stage(c)) \in [Stages -> {0, 1}]
    BY <1>2, <2>2 DEF Flip
  <2>4. /\ Goes(c, "loop", d.to, d.tile, d.block + 1, d.next)
        /\ warp'[c].parity = Flip(d.parity, Stage(c))
    <3>1. d.block + 1 \in 0 .. Blocks
      BY <1>2, <2>1, Mover
    <3>2. warp' = [warp EXCEPT ![c].at = "loop", ![c].block = @ + 1,
                               ![c].parity = Flip(d.parity, Stage(c))]
      BY <1>12 DEF FinishBlock, FinishWith
    <3> QED BY <1>1, <1>2, <1>3, <2>3, <3>1, <3>2, Mover DEF Goes, WarpType, Labels
  <2>5. Placed(c)'
    BY <1>1, <1>2, <2>4, SamePipe DEF Goes, Placed, InPipeline, Held, Turned
  <2>6. Counted(c) = d.block /\ Counted(c)' = d.block + 1
    BY <1>1, <1>2, <2>1, <2>4, SamePipe DEF Goes, Counted
  <2>7. Parities(c)'
    BY <1>1, <1>2, <1>5, <2>1, <2>2, <2>4, <2>6, ParityTurned DEF Typed
  <2>8. Round(c)' = Round(c) /\ TileOf(c)' = TileOf(c)
    BY <1>1, <2>1, <2>4, SamePipe DEF Goes, Round, TileOf, Held, Setup, Turned
  <2>9. pipe.style = "transpose" => Shared(c)' = Shared(c)
    BY <1>1, <1>2, <2>1, <2>4, SamePipe DEF Goes, Shared, BlockOf, Held, Turned
  <2> QED BY <2>4, <2>5, <2>7, <2>8, <2>9 DEF Moved, Goes
<1> QED BY <1>6, <1>7, <1>8, <1>9, <1>10, <1>11, <1>12

LEMMA MovesChunk ==
  ASSUME Typed, NEW c \in Consumers, Placed(c), Parities(c),
         \/ SkipPrefetch(c) \/ ChunkLoop(c) \/ WaitChunk(c) \/ ReadChunk(c)
         \/ PrefetchNext(c) \/ LastChunkDone(c) \/ Normalize(c)
         \/ c = Leader /\ (PrefetchFirst \/ PrefetchSecond \/ ScoreChunk)
  PROVE  Moved(c)
<1> c \in Warps
  BY DEF Warps
<1> USE DEF At
<1> DEFINE d == warp[c]
<1>1. pipe' = pipe /\ Chunks /\ ~Pipelined
  <2>1. pipe' = pipe
    BY DEF SkipPrefetch, ChunkLoop, WaitChunk, ReadChunk, PrefetchNext, LastChunkDone, Normalize,
           PrefetchFirst, PrefetchSecond, ScoreChunk
  <2>2. CASE Chunks
    BY <2>1, <2>2, PipeFacts DEF Typed
  <2>3. CASE ~Chunks
    <3>1. At(c, "second") \/ At(c, "score") \/ At(c, "normalize")
      BY <2>3 DEF SkipPrefetch, ChunkLoop, WaitChunk, ReadChunk, PrefetchNext, LastChunkDone,
                  Normalize, PrefetchFirst, PrefetchSecond, ScoreChunk
    <3> QED BY <2>3, <3>1, Mover DEF Placed, InPipeline
  <2> QED BY <2>2, <2>3
<1>2. d.block \in Nat /\ d.parity \in [Stages -> {0, 1}] /\ c # Dma /\ pipe.style # "transpose"
      /\ d.block <= Blocks
  BY <1>1, Mover DEF Chunks
<1>3. InChunks(c) /\ \A s \in Stages : d.parity[s] = ParityOf(c, s)
  BY <1>1, <1>2 DEF Placed, Parities
\* To another place with the same block and parities.
<1>4. ASSUME NEW a, NEW l, Goes(c, a, l, d.tile, d.block, d.next), d.parity = warp'[c].parity,
             InChunks(c)', Counted(c)' = Counted(c), Round(c)' = Round(c)
      PROVE  Moved(c)
  <2>1. Parities(c)'
    BY <1>1, <1>3, <1>4, ParityKept
  <2>2. TileOf(c)' = TileOf(c)
    BY <1>2, <1>3, <1>4 DEF Goes, TileOf, Turned, Held, InChunks
  <2> QED BY <1>1, <1>2, <1>4, <2>1, <2>2, SamePipe DEF Moved, Goes, Placed
<1>5. CASE SkipPrefetch(c) \/ (c = Leader /\ (PrefetchFirst \/ PrefetchSecond))
  <2> DEFINE a == IF c = Leader /\ PrefetchFirst THEN "second" ELSE "loop"
  <2>1. At(c, "start") \/ At(c, "second")
    BY <1>5 DEF SkipPrefetch, PrefetchFirst, PrefetchSecond
  <2>2. warp' = [warp EXCEPT ![c].at = a]
    BY <1>5 DEF SkipPrefetch, PrefetchFirst, PrefetchSecond, Goto
  <2>3. a \in Labels /\ (a = "second" => c = Leader) /\ a \in {"second", "loop"} /\ d.block = 0
    BY <1>2, <1>3, <2>1 DEF Labels, InChunks
  <2> HIDE DEF a
  <2>4. Goes(c, a, d.to, d.tile, d.block, d.next) /\ warp'[c].parity = d.parity
    BY <1>1, <1>2, <2>2, <2>3, Mover DEF Goes, WarpType
  <2>5. InChunks(c)'
    BY <1>1, <1>2, <1>3, <2>1, <2>3, <2>4, SamePipe, Mover DEF Goes, InChunks, Held, Setup
  <2>6. Counted(c)' = Counted(c) /\ Round(c)' = Round(c)
    BY <1>1, <1>2, <2>1, <2>3, <2>4, SamePipe DEF Goes, Counted, Round, Held, Setup
  <2> QED BY <1>4, <2>4, <2>5, <2>6
<1>6. CASE ChunkLoop(c)
  <2>1. At(c, "loop") /\ d.block < Blocks
    BY <1>6 DEF ChunkLoop
  <2>2. Goes(c, "wait", d.to, d.tile, d.block, d.next) /\ warp'[c].parity = d.parity
    BY <1>1, <1>2, <1>6, Mover DEF ChunkLoop, Goto, Goes, WarpType, Labels
  <2>3. InChunks(c)'
    BY <1>1, <1>2, <1>3, <2>1, <2>2, SamePipe DEF Goes, InChunks, Held, Setup
  <2>4. Counted(c)' = Counted(c) /\ Round(c)' = Round(c)
    BY <1>1, <1>2, <2>1, <2>2, SamePipe DEF Goes, Counted, Round, Held, Setup
  <2> QED BY <1>4, <2>2, <2>3, <2>4
<1>7. CASE WaitChunk(c)
  <2> DEFINE a == IF c = Leader THEN "score" ELSE "bar"
  <2>1. At(c, "wait") /\ d.block < Blocks
    BY <1>3, <1>7 DEF WaitChunk, InChunks
  <2>2. d.block % pipe.stages \in Stages /\ Stage(c) = d.block % pipe.stages
    BY <1>2, StageOf DEF Typed, Stage
  <2>3. Flip(d.parity, Stage(c)) \in [Stages -> {0, 1}]
    BY <1>2, <2>2 DEF Flip
  <2>4. warp' = [warp EXCEPT ![c].parity = Flip(d.parity, Stage(c)), ![c].at = a, ![c].to = "read"]
    BY <1>7 DEF WaitChunk
  <2>5. a \in Labels /\ (IF c = Leader THEN a = "score" ELSE a = "bar")
    BY DEF Labels
  <2> HIDE DEF a
  <2>6. /\ Goes(c, a, "read", d.tile, d.block, d.next)
        /\ warp'[c].parity = Flip(d.parity, Stage(c))
    BY <1>1, <1>2, <2>3, <2>4, <2>5, Mover DEF Goes, WarpType, Labels
  <2>7. Placed(c)'
    BY <1>1, <1>2, <1>3, <2>1, <2>5, <2>6, SamePipe DEF Goes, Placed, InChunks, Held, Setup
  <2>8. Counted(c) = d.block /\ Counted(c)' = d.block + 1
    BY <1>1, <1>2, <2>1, <2>5, <2>6, SamePipe DEF Goes, Counted, Held
  <2>9. Parities(c)'
    BY <1>1, <1>2, <1>3, <2>2, <2>6, <2>8, ParityTurned DEF Typed
  <2>10. Round(c)' = Round(c) /\ TileOf(c)' = TileOf(c)
    BY <1>1, <1>2, <2>1, <2>5, <2>6, SamePipe DEF Goes, Round, TileOf, Held, Setup, Turned
  <2> QED BY <1>2, <2>6, <2>7, <2>9, <2>10 DEF Moved, Goes
<1>8. CASE c = Leader /\ ScoreChunk
  <2>1. At(c, "score") /\ d.block < Blocks
    BY <1>3, <1>8 DEF ScoreChunk, InChunks
  <2>2. Goes(c, "bar", "read", d.tile, d.block, d.next) /\ warp'[c].parity = d.parity
    BY <1>1, <1>8, GoesToSync DEF ScoreChunk, Labels
  <2>3. InChunks(c)'
    BY <1>1, <1>2, <1>3, <2>1, <2>2, SamePipe DEF Goes, InChunks, Held, Setup
  <2>4. Counted(c)' = Counted(c) /\ Round(c)' = Round(c)
    BY <1>1, <1>2, <2>1, <2>2, SamePipe DEF Goes, Counted, Round, Held, Setup
  <2> QED BY <1>4, <2>2, <2>3, <2>4
<1>9. CASE ReadChunk(c)
  <2>1. At(c, "read") /\ d.block < Blocks
    BY <1>3, <1>9 DEF ReadChunk, InChunks
  <2>2. Goes(c, "bar", "prefetch", d.tile, d.block, d.next) /\ warp'[c].parity = d.parity
    BY <1>1, <1>9, GoesToSync DEF ReadChunk, Labels
  <2>3. InChunks(c)'
    BY <1>1, <1>2, <1>3, <2>1, <2>2, SamePipe DEF Goes, InChunks, Held, Setup
  <2>4. Counted(c)' = Counted(c) /\ Round(c)' = Round(c)
    BY <1>1, <1>2, <2>1, <2>2, SamePipe DEF Goes, Counted, Round, Held, Setup
  <2> QED BY <1>4, <2>2, <2>3, <2>4
<1>10. CASE PrefetchNext(c)
  <2>1. At(c, "prefetch") /\ d.block < Blocks
    BY <1>3, <1>10 DEF PrefetchNext, InChunks
  <2>2. Goes(c, "loop", d.to, d.tile, d.block + 1, d.next) /\ warp'[c].parity = d.parity
    <3>1. d.block + 1 \in 0 .. DmaIssues /\ d.block + 1 <= Blocks
      BY <1>2, <2>1, Mover
    <3>2. warp' = [warp EXCEPT ![c].at = "loop", ![c].block = @ + 1]
      BY <1>10 DEF PrefetchNext
    <3> QED BY <1>1, <1>2, <3>1, <3>2, Mover DEF Goes, WarpType, Labels
  <2>3. Placed(c)'
    BY <1>1, <1>2, <1>3, <2>1, <2>2, SamePipe DEF Goes, Placed, InChunks, Held, Setup
  <2>4. Counted(c)' = Counted(c)
    BY <1>1, <1>2, <2>1, <2>2, SamePipe DEF Goes, Counted, Held
  <2>5. Parities(c)'
    BY <1>1, <1>3, <2>2, <2>4, ParityKept
  <2>6. Round(c)' = Round(c) /\ TileOf(c)' = TileOf(c)
    BY <1>1, <1>2, <2>1, <2>2, SamePipe DEF Goes, Round, TileOf, Held, Setup, Turned
  <2> QED BY <1>2, <2>2, <2>3, <2>5, <2>6 DEF Moved, Goes
<1>11. CASE LastChunkDone(c)
  <2>1. At(c, "loop") /\ d.block = Blocks
    BY <1>2, <1>11, Mover DEF LastChunkDone
  <2>2. Goes(c, "bar", "normalize", d.tile, d.block, d.next) /\ warp'[c].parity = d.parity
    BY <1>1, <1>11, GoesToSync DEF LastChunkDone, Labels
  <2>3. InChunks(c)'
    BY <1>1, <1>2, <1>3, <2>1, <2>2, SamePipe DEF Goes, InChunks, Held, Setup
  <2>4. Counted(c)' = Counted(c) /\ Round(c)' = Round(c)
    BY <1>1, <1>2, <2>1, <2>2, SamePipe DEF Goes, Counted, Round, Held, Setup
  <2> QED BY <1>4, <2>2, <2>3, <2>4
<1>12. CASE Normalize(c)
  <2>1. At(c, "normalize") /\ d.block = Blocks
    BY <1>3, <1>12 DEF Normalize, InChunks
  <2>2. Goes(c, "exit", d.to, d.tile, d.block, d.next) /\ warp'[c].parity = d.parity
    BY <1>1, <1>2, <1>12, Mover DEF Normalize, Goto, Goes, WarpType, Labels
  <2>3. InChunks(c)'
    BY <1>1, <1>2, <1>3, <2>1, <2>2, SamePipe DEF Goes, InChunks, Held, Setup
  <2>4. Counted(c)' = Counted(c) /\ Round(c)' = Round(c)
    BY <1>1, <1>2, <2>1, <2>2, SamePipe DEF Goes, Counted, Round, Held, Setup
  <2> QED BY <1>4, <2>2, <2>3, <2>4
<1> QED BY <1>5, <1>6, <1>7, <1>8, <1>9, <1>10, <1>11, <1>12

-----------------------------------------------------------------------------
(* What a move leaves alone.                                               *)

LEMMA LoadedKept ==
  ASSUME pipe' = pipe, Pipelined => warp'[Dma] = warp[Dma], Chunks => warp'[Leader] = warp[Leader]
  PROVE  \A o : Loaded(o)' = Loaded(o)
<1>1. Chunks \/ Pipelined
  BY DEF Chunks, Pipelined
<1>2. WithQuery => Pipelined
  BY DEF WithQuery, Pipelined
<1> QED BY <1>1, <1>2, SamePipe DEF Loaded, Setup, BlockOf, Turned, Held, At

LEMMA OthersStay ==
  ASSUME Typed, \A v \in Warps : Placed(v) /\ Parities(v), InStep, NEW w \in Warps, Moved(w)
  PROVE  /\ warp' \in [Warps -> WarpType] /\ Within'
         /\ (\A v \in Warps : Placed(v) /\ Parities(v))'
         /\ InStep'
         /\ TileOf(Leader)' = TileOf(Leader) /\ Base' = Base
         /\ \A o, m : Tag(o, m)' = Tag(o, m)
         /\ \A c \in Consumers : c # w => /\ Done(c)' = Done(c)
                                          /\ \A o : Passed(c, o)' = Passed(c, o) /\ Has(c, o)' = Has(c, o)
<1>1. ASSUME NEW v \in Warps, v # w PROVE warp'[v] = warp[v] /\ pipe' = pipe
  BY <1>1 DEF Moved
<1>2. warp' \in [Warps -> WarpType]
  BY DEF Moved, Typed, WarpType
<1>3. ASSUME NEW v \in Warps
      PROVE  /\ Placed(v)' /\ Parities(v)' /\ Round(v)' = Round(v) /\ TileOf(v)' = TileOf(v)
             /\ pipe.style = "transpose" /\ v \in Consumers => Shared(v)' = Shared(v)
  <2>1. CASE v = w
    BY <2>1 DEF Moved
  <2>2. CASE v # w
    BY <1>1, <2>2, SameWarp
  <2> QED BY <2>1, <2>2
<1>4. Syncing' = Syncing /\ Syncing \subseteq Warps /\ Consumers \subseteq Warps /\ pipe' = pipe
  BY SamePipe DEF Syncing, Warps, Moved
<1>5. InStep'
  BY <1>3, <1>4 DEF InStep
<1>6. Leader \in Warps
  BY PipesOK DEF Warps
<1>7. TileOf(Leader)' = TileOf(Leader)
  BY <1>3, <1>6
<1>8. Base' = Base
  BY <1>4, <1>7, SamePipe DEF Base
<1>9. \A o, m : Tag(o, m)' = Tag(o, m)
  BY <1>7, <1>8 DEF Tag
<1>10. \A c \in Consumers : c # w => /\ Done(c)' = Done(c)
                                     /\ \A o : Passed(c, o)' = Passed(c, o) /\ Has(c, o)' = Has(c, o)
  BY <1>1, <1>4, SameWarp
<1>11. (\A v \in Warps : Placed(v) /\ Parities(v))'
  BY <1>3
<1>12. Within'
  <2>1. Blocks' = Blocks
    BY <1>4, SamePipe
  <2>2. ASSUME NEW v \in Warps, v # Dma PROVE warp'[v].block <= Blocks
    <3>1. CASE v = w
      BY <2>2, <3>1 DEF Moved
    <3>2. CASE v # w
      BY <1>1, <2>2, <3>2 DEF Typed, Within
    <3> QED BY <3>1, <3>2
  <2> QED BY <2>1, <2>2 DEF Within
<1> QED BY <1>12, <1>2, <1>5, <1>7, <1>8, <1>9, <1>10, <1>11

LEMMA Counts ==
  ASSUME Typed, \A v \in Warps : Placed(v)
  PROVE  /\ \A o : Loaded(o) \in Nat
         /\ \A c \in Consumers : Done(c) \in Nat /\ \A o : Passed(c, o) \in Nat
         /\ \A v \in Warps : TileOf(v) \in 0 .. pipe.tiles - 1 /\ BlockOf(v) \in 0 .. DmaIssues
         /\ \A c \in Consumers : BlockOf(c) \in 0 .. Blocks
         /\ TileOf(Leader) \in Nat /\ Base \in Nat
         /\ \A o : \A m \in Nat : Tag(o, m) \in Nat
         /\ Loaded("q") <= 1
<1>1. Leader \in Warps /\ Dma \in Warps /\ Consumers \subseteq Warps /\ Leader # Dma
  BY PipesOK DEF Warps
<1>2. Blocks \in Nat /\ DmaIssues \in Nat /\ Blocks <= DmaIssues /\ pipe.tiles \in Nat /\ (Chunks <=> ~Pipelined)
  BY PipeFacts DEF Typed
<1>3. ASSUME NEW v \in Warps
      PROVE  /\ TileOf(v) \in 0 .. pipe.tiles - 1 /\ BlockOf(v) \in 0 .. DmaIssues
             /\ (v # Dma => BlockOf(v) \in 0 .. Blocks)
  <2>1. warp[v].block \in 0 .. DmaIssues /\ warp[v].tile \in 0 .. pipe.tiles - 1
        /\ (v # Dma => warp[v].block \in 0 .. Blocks)
    BY Mover
  <2>2. Turned(v) => warp[v].tile # 0
    <3>1. CASE Chunks
      <4>1. ~Turned(v)
        BY <3>1 DEF Placed, InChunks, Turned, Held, At
      <4> QED BY <4>1
    <3>2. CASE ~Chunks
      BY <3>2 DEF Placed, InPipeline
    <3> QED BY <3>1, <3>2
  <2> QED BY <1>2, <2>1, <2>2 DEF TileOf, BlockOf
<1>4. \A c \in Consumers : Done(c) \in Nat
  BY <1>1, <1>2, <1>3 DEF Done
<1>5. \A c \in Consumers : \A o : Passed(c, o) \in Nat
  BY <1>4 DEF Passed
<1>6. \A o : Loaded(o) \in Nat
  <2>1. warp[Leader].block \in 0 .. DmaIssues /\ BlockOf(Dma) \in 0 .. DmaIssues
    BY <1>1, <1>3, Mover
  <2> QED BY <1>2, <2>1 DEF Loaded
<1>7. TileOf(Leader) \in Nat
  BY <1>1, <1>2, <1>3
<1>8. Base \in Nat
  <2> DEFINE t == TileOf(Leader)
             k == Blocks
  <2>1. t \in Nat /\ k \in Nat
    BY <1>2, <1>7
  <2> HIDE DEF t, k
  <2>2. t * k \in Nat
    BY <2>1
  <2> QED BY <2>2 DEF t, k, Base
<1>9. \A o : \A m \in Nat : Tag(o, m) \in Nat
  BY <1>7, <1>8 DEF Tag
<1>10. Loaded("q") <= 1
  BY DEF Loaded
<1>11. \A c \in Consumers : BlockOf(c) \in 0 .. Blocks
  BY <1>1, <1>3, PipesOK
<1> QED BY <1>3, <1>4, <1>5, <1>6, <1>7, <1>8, <1>9, <1>10, <1>11

-----------------------------------------------------------------------------
(* The stages.                                                             *)

LEMMA OneLatest ==
  ASSUME Typed, \A v \in Warps : Placed(v), NEW o, NEW s \in Stages, NEW m \in Nat, NEW n \in Nat,
         Latest(o, s, m), Latest(o, s, n)
  PROVE  m = n
<1> DEFINE k == Loaded(o)
<1>1. k \in Nat
  BY Counts
<1>2. /\ m < k /\ k <= m + pipe.stages /\ n < k /\ k <= n + pipe.stages
      /\ m % pipe.stages = n % pipe.stages
  BY DEF Latest
<1> HIDE DEF k
<1>3. CASE pipe.stages = 1
  BY <1>1, <1>2, <1>3
<1>4. CASE pipe.stages = 2
  BY <1>1, <1>2, <1>4
<1>5. CASE pipe.stages = 3
  BY <1>1, <1>2, <1>5
<1> QED BY <1>3, <1>4, <1>5, PipeFacts DEF Typed

LEMMA OperandStages ==
  ASSUME pipe \in Pipes, NEW o \in AllOperands, NEW s, <<o, s>> \in Loads
  PROVE  /\ s \in Stages /\ o # "done"
         /\ o = "q" => s = 0
         /\ <<o, s>> \in Mbars
<1>1. "q" \notin OperandSet /\ "done" \notin OperandSet
  BY OperandFacts
<1>2. 0 \in Stages
  BY PipeFacts DEF Stages
<1> QED BY <1>1, <1>2 DEF Loads, Mbars, AllOperands

\* A copy on its way into the stage of block n, of which no warp is ahead, carries n.
LEMMA Carried ==
  ASSUME Typed, \A v \in Warps : Placed(v), NEW o, NEW n \in Nat, NEW m \in Nat,
         Latest(o, n % pipe.stages, m), n <= m, Loaded(o) <= n + pipe.stages
  PROVE  m = n /\ n < Loaded(o)
<1> DEFINE k == Loaded(o)
<1>1. k \in Nat
  BY Counts
<1>2. /\ m < k /\ k <= m + pipe.stages /\ m % pipe.stages = n % pipe.stages
      /\ n <= m /\ k <= n + pipe.stages
  BY DEF Latest
<1> SUFFICES m = n /\ n < k
  OBVIOUS
<1> HIDE DEF k
<1>3. CASE pipe.stages = 1
  BY <1>1, <1>2, <1>3
<1>4. CASE pipe.stages = 2
  BY <1>1, <1>2, <1>4
<1>5. CASE pipe.stages = 3
  BY <1>1, <1>2, <1>5
<1> QED BY <1>3, <1>4, <1>5, PipeFacts DEF Typed

\* A wait for a stage ends only when the warp's own block is in it.
LEMMA WaitEnds ==
  ASSUME Typed, \A v \in Warps : Placed(v), Window, InFlight,
         NEW c \in Consumers, NEW o \in AllOperands, NEW s, s = Passed(c, o) % pipe.stages,
         <<o, s>> \in Loads, LoadBar(o, s),
         NEW q, q = Fills(Passed(c, o), s) % 2, TryWaitParity(mbar[<<o, s>>], q)
  PROVE  There(c, o)
<1> DEFINE p == Passed(c, o)
           k == Loaded(o)
<1>1. /\ p \in Nat /\ k \in Nat /\ p <= k /\ k <= p + pipe.stages /\ s \in Stages
      /\ Fills(p, s) \in Nat /\ Fills(k, s) \in Nat /\ p % pipe.stages = s
  <2>1. p \in Nat /\ k \in Nat
    BY Counts
  <2>3. s \in Stages
    BY <2>1, StageOf DEF Typed
  <2>2. p <= k /\ k <= p + pipe.stages
    BY DEF Window
  <2> QED BY <2>1, <2>2, <2>3, FillsFacts DEF Typed
<1>2. Fills(p, s) <= Fills(k, s) /\ Fills(k, s) <= Fills(p, s) + 1
  BY <1>1, FillsOrder DEF Typed
<1>3. mbar[<<o, s>>].phase % 2 # Fills(p, s) % 2
  BY DEF TryWaitParity
<1>4. Filling(o, s) = {}
  <2> SUFFICES ASSUME NEW x \in Filling(o, s) PROVE FALSE
    OBVIOUS
  <2>1. PICK m \in Nat : Latest(o, s, m) /\ p <= m
    BY DEF InFlight, Filling
  <2>2. m = p /\ p < k
    BY <1>1, <2>1, Carried
  <2>3. Fills(k, s) = Fills(p, s) + 1
    <3>1. Fills(p + 1, s) = Fills(p, s) + 1
      BY <1>1, FillsFacts DEF Typed
    <3>2. Fills(p + 1, s) <= Fills(k, s)
      <4>1. pipe \in Pipes /\ p + 1 \in Nat /\ k \in Nat /\ p + 1 <= k /\ s \in Stages
        BY <1>1, <2>2 DEF Typed
      <4> HIDE DEF p, k
      <4> QED BY <4>1, FillsOrder
    <3> QED BY <1>1, <1>2, <3>1, <3>2
  <2>4. mbar[<<o, s>>].phase = Fills(k, s) - 1
    BY DEF LoadBar
  <2> QED BY <1>1, <1>3, <2>3, <2>4
<1>5. mbar[<<o, s>>].phase = Fills(k, s)
  BY <1>4 DEF LoadBar
<1>6. Fills(p, s) < Fills(k, s)
  BY <1>1, <1>2, <1>3, <1>5
<1>7. p < k
  BY <1>1, <1>6, FillsOrder DEF Typed
<1> QED BY <1>4, <1>7 DEF There

\* The stages stay as they are while warps move on, each to no more than it was told.
LEMMA Progress ==
  ASSUME Typed, \A v \in Warps : Placed(v), Window, InFlight, Filled, Granted,
         pipe' = pipe, flight' = flight, smem' = smem, issued' = issued,
         \A l \in Loads : mbar'[l] = mbar[l],
         Base' = Base, \A o, m : Tag(o, m)' = Tag(o, m),
         \A o \in AllOperands : Loaded(o)' = Loaded(o),
         \A c \in Consumers, o \in AllOperands :
           \/ Passed(c, o)' = Passed(c, o) /\ (Has(c, o)' => Has(c, o) \/ There(c, o))
           \/ Passed(c, o)' = Passed(c, o) + 1 /\ Has(c, o) /\ ~Has(c, o)'
  PROVE  /\ Window' /\ InFlight' /\ Filled' /\ Granted'
         /\ \A l \in Loads : LoadBar(l[1], l[2])' = LoadBar(l[1], l[2])
<1>1. \A o \in AllOperands : /\ Loaded(o) \in Nat
                             /\ \A c \in Consumers : Passed(c, o) \in Nat /\ pipe.stages \in Nat
  BY Counts, PipeFacts DEF Typed
<1>2. ASSUME NEW o \in AllOperands, NEW c \in Consumers, Has(c, o)
      PROVE  There(c, o)
  BY <1>2 DEF Granted
<1>3. \A o, s : Filling(o, s)' = Filling(o, s)
  BY DEF Filling
<1>4. \A o \in AllOperands : \A s, m : Latest(o, s, m)' = Latest(o, s, m)
  BY DEF Latest
<1>5. Window'
  <2>1. ASSUME NEW o \in AllOperands, NEW c \in Consumers
        PROVE  Passed(c, o)' <= Loaded(o) /\ Loaded(o) <= Passed(c, o)' + pipe.stages
    BY <1>1, <1>2 DEF Window, There
  <2>2. OperandSet \subseteq AllOperands
    BY DEF AllOperands
  <2> QED BY <2>1, <2>2, SamePipe DEF Window
<1>6. \A x \in flight : x.operand \in AllOperands /\ <<x.operand, x.stage>> \in Loads
  BY DEF InFlight, Typed
<1>7. InFlight'
  <2> SUFFICES ASSUME NEW x \in flight
               PROVE  \E m \in Nat : /\ Latest(x.operand, x.stage, m)'
                                     /\ x.block = Tag(x.operand, m)'
                                     /\ \A c \in Consumers : Passed(c, x.operand)' <= m
    BY <1>6, SamePipe DEF InFlight
  <2>1. PICK m \in Nat : /\ Latest(x.operand, x.stage, m) /\ x.block = Tag(x.operand, m)
                         /\ \A c \in Consumers : Passed(c, x.operand) <= m
    BY DEF InFlight
  <2>2. ASSUME NEW c \in Consumers PROVE Passed(c, x.operand)' <= m
    <3> DEFINE o == x.operand
               p == Passed(c, o)
    <3>1. p \in Nat /\ p <= m
      BY <1>1, <1>6, <2>1
    <3>2. CASE Has(c, o) /\ p = m
      <4>1. Filling(o, p % pipe.stages) = {}
        BY <1>2, <1>6, <3>2 DEF There
      <4>2. x \in Filling(o, p % pipe.stages)
        BY <2>1, <3>2 DEF Filling, Latest
      <4> QED BY <4>1, <4>2
    <3>3. CASE ~(Has(c, o) /\ p = m)
      <4>1. o \in AllOperands
        BY <1>6
      <4>2. p' = p \/ (p' = p + 1 /\ Has(c, o))
        BY <4>1
      <4> HIDE DEF p, o
      <4>3. p' = p => p' <= m
        BY <3>1
      <4>4. p' = p + 1 /\ Has(c, o) => p' <= m
        BY <3>1, <3>3
      <4>5. p' <= m
        BY <4>2, <4>3, <4>4
      <4> QED BY <4>5 DEF p, o
    <3> QED BY <3>2, <3>3
  <2> QED BY <1>4, <1>6, <2>1, <2>2
<1>8. Filled'
  <2>1. \A l \in Loads : l[1] \in AllOperands
    BY DEF Loads, AllOperands
  <2> QED BY <1>4, <2>1, SamePipe DEF Filled, Copy
<1>9. Granted'
  <2> SUFFICES ASSUME NEW c \in Consumers, NEW o \in AllOperands, Has(c, o)'
               PROVE  There(c, o)'
    BY SamePipe DEF Granted
  <2>1. Passed(c, o)' = Passed(c, o) /\ There(c, o)
    BY <1>2
  <2> QED BY <1>3, <2>1 DEF There
<1>10. \A l \in Loads : LoadBar(l[1], l[2])' = LoadBar(l[1], l[2])
  <2> SUFFICES ASSUME NEW l \in Loads PROVE LoadBar(l[1], l[2])' = LoadBar(l[1], l[2])
    OBVIOUS
  <2>1. l[1] \in AllOperands /\ l = <<l[1], l[2]>>
    BY DEF Loads, AllOperands
  <2>2. mbar'[<<l[1], l[2]>>] = mbar[<<l[1], l[2]>>]
    BY <2>1
  <2> QED BY <1>3, <2>1, <2>2, SamePipe DEF LoadBar
<1> QED BY <1>5, <1>7, <1>8, <1>9, <1>10

LEMMA PairSize ==
  ASSUME NEW a, NEW b, a # b
  PROVE  IsFiniteSet({a, b}) /\ Cardinality({a, b}) = 2
<1>1. IsFiniteSet({a}) /\ Cardinality({a}) = 1
  BY FS_Singleton
<1>2. {a, b} = {a} \cup {b}
  OBVIOUS
<1> QED BY <1>1, <1>2, FS_AddElement

\* The thread that loads is all that is pending, so the phase waits for the copies.
LEMMA Expecting ==
  ASSUME NEW f \in Nat, NEW n \in Nat, n # 0
  PROVE  ArriveExpectTx([phase |-> f, pending |-> 1, count |-> 1, tx |-> 0], n) =
           [phase |-> f, pending |-> 0, count |-> 1, tx |-> n]
<1> DEFINE b == [phase |-> f, pending |-> 1, count |-> 1, tx |-> 0]
           d == [phase |-> f, pending |-> 0, count |-> 1, tx |-> n]
           r == [b EXCEPT !.pending = @ - 1, !.tx = @ + n]
<1>1. /\ r \in [phase : Nat, pending : Nat, count : Nat, tx : Nat]
      /\ r.phase = f /\ r.pending = 0 /\ r.count = 1 /\ r.tx = n
  <2>1. b \in [phase : Nat, pending : Nat, count : Nat, tx : Nat]
    OBVIOUS
  <2>2. b.phase = f /\ b.pending = 1 /\ b.count = 1 /\ b.tx = 0
    OBVIOUS
  <2> HIDE DEF b
  <2>3. b.pending - 1 = 0 /\ b.tx + n = n
    BY <2>2
  <2>4. r \in [phase : Nat, pending : Nat, count : Nat, tx : Nat]
    <3>1. r = [b EXCEPT !.pending = 0, !.tx = n]
      BY <2>3, Zenon
    <3>2. [b EXCEPT !.pending = 0, !.tx = n] \in [phase : Nat, pending : Nat, count : Nat, tx : Nat]
      BY <2>1
    <3> HIDE DEF r
    <3> QED BY <3>1, <3>2
  <2>5. r.phase = f /\ r.count = 1
    BY <2>1, <2>2
  <2>6. r.pending = 0
    BY <2>1, <2>3
  <2>7. r.tx = n
    BY <2>1, <2>3
  <2> QED BY <2>4, <2>5, <2>6, <2>7
<1>2. r = d
  <2> HIDE DEF r
  <2> QED BY <1>1
<1>3. Settle(d) = d
  BY DEF Settle
<1>4. ArriveExpectTx(b, n) = Settle(r)
  BY DEF ArriveExpectTx
<1> HIDE DEF b, d, r
<1>5. ArriveExpectTx(b, n) = d
  BY <1>2, <1>3, <1>4
<1> QED BY <1>5 DEF b, d

\* The last copy to land ends the phase.
LEMMA Completing ==
  ASSUME NEW f \in Nat, NEW n \in Nat, n # 0
  PROVE  CompleteTx([phase |-> f, pending |-> 0, count |-> 1, tx |-> n]) =
           IF n = 1 THEN [phase |-> f + 1, pending |-> 1, count |-> 1, tx |-> 0]
           ELSE [phase |-> f, pending |-> 0, count |-> 1, tx |-> n - 1]
<1> DEFINE b == [phase |-> f, pending |-> 0, count |-> 1, tx |-> n - 1]
           d == [phase |-> f + 1, pending |-> 1, count |-> 1, tx |-> 0]
           a == [phase |-> f, pending |-> 0, count |-> 1, tx |-> n]
           r == [b EXCEPT !.phase = @ + 1, !.pending = b.count]
<1>1. [a EXCEPT !.tx = @ - 1] = b
  OBVIOUS
<1>2. CompleteTx(a) = Settle(b)
  BY <1>1 DEF CompleteTx
<1>3. n = 1 => Settle(b) = r
  BY DEF Settle
<1>5. ASSUME n = 1 PROVE  r = d
  <2>1. b \in [phase : Nat, pending : Nat, count : Nat, tx : Nat]
    BY <1>5
  <2>2. b.phase = f /\ b.pending = 0 /\ b.count = 1 /\ b.tx = 0
    BY <1>5
  <2> HIDE DEF b
  <2>3. b.phase + 1 = f + 1 /\ f + 1 \in Nat
    BY <2>2
  <2>4. r \in [phase : Nat, pending : Nat, count : Nat, tx : Nat]
    BY <2>1, <2>3
  <2>5. r.phase = f + 1 /\ r.pending = 1 /\ r.count = 1 /\ r.tx = 0
    BY <2>1, <2>2, <2>3
  <2> HIDE DEF r
  <2> QED BY <2>4, <2>5
<1>4. n # 1 => Settle(b) = b
  BY DEF Settle
<1> HIDE DEF a, b, d, r
<1>6. CompleteTx(a) = IF n = 1 THEN d ELSE b
  BY <1>2, <1>3, <1>4, <1>5
<1> QED BY <1>6 DEF a, b, d

\* The copies of one load.
Copies(o, s, n) == {Copy(o, s, p, n) : p \in Pieces}

LEMMA PieceFacts ==
  ASSUME NEW o, NEW s, NEW n
  PROVE  /\ IsFiniteSet(Pieces) /\ Cardinality(Pieces) \in {1, 2} /\ Pieces \subseteq {0, 1}
         /\ IsFiniteSet(Copies(o, s, n)) /\ Cardinality(Copies(o, s, n)) = Cardinality(Pieces)
<1>1. Copy(o, s, 0, n) # Copy(o, s, 1, n)
  BY DEF Copy
<1>2. CASE Pieces = {0, 1}
  <2>1. Copies(o, s, n) = {Copy(o, s, 0, n), Copy(o, s, 1, n)}
    BY <1>2 DEF Copies
  <2>2. /\ IsFiniteSet({Copy(o, s, 0, n), Copy(o, s, 1, n)})
        /\ Cardinality({Copy(o, s, 0, n), Copy(o, s, 1, n)}) = 2
    <3> DEFINE a == Copy(o, s, 0, n)
               b == Copy(o, s, 1, n)
    <3>1. a # b
      BY <1>1
    <3> HIDE DEF a, b
    <3>2. IsFiniteSet({a, b}) /\ Cardinality({a, b}) = 2
      BY <3>1, PairSize
    <3> QED BY <3>2, Zenon DEF a, b
  <2>3. IsFiniteSet({0, 1}) /\ Cardinality({0, 1}) = 2
    <3>1. IsFiniteSet({0}) /\ Cardinality({0}) = 1 /\ 1 \notin {0}
      BY FS_Singleton
    <3>2. IsFiniteSet({0} \cup {1}) /\ Cardinality({0} \cup {1}) = Cardinality({0}) + 1
      BY <3>1, FS_AddElement
    <3>3. {0, 1} = {0} \cup {1}
      OBVIOUS
    <3> QED BY <3>1, <3>2, <3>3
  <2> QED BY <1>2, <2>1, <2>2, <2>3
<1>3. CASE Pieces = {0}
  <2>1. Copies(o, s, n) = {Copy(o, s, 0, n)}
    BY <1>3 DEF Copies
  <2> QED BY <1>3, <2>1, FS_Singleton
<1> QED BY <1>2, <1>3 DEF Pieces

\* Numbers of one stage are a multiple of the stages apart.
LEMMA SameStage ==
  ASSUME pipe \in Pipes, NEW m \in Nat, NEW n \in Nat, m % pipe.stages = n % pipe.stages
  PROVE  /\ m < n => m + pipe.stages <= n
         /\ n < m + pipe.stages => n <= m
<1>1. CASE pipe.stages = 1
  BY <1>1
<1>2. CASE pipe.stages = 2
  BY <1>2
<1>3. CASE pipe.stages = 3
  BY <1>3
<1> QED BY <1>1, <1>2, <1>3, PipeFacts

LEMMA LoadKeeps ==
  ASSUME Typed, \A v \in Warps : Placed(v), Window, InFlight, Filled, Granted,
         NEW o \in AllOperands, NEW s, <<o, s>> \in Loads,
         NEW k \in Nat, k = Loaded(o), s = k % pipe.stages,
         LoadBar(o, s), Load(o, s, Tag(o, k)),
         pipe' = pipe, Base' = Base, \A j, m : Tag(j, m)' = Tag(j, m),
         Loaded(o)' = k + 1, \A j \in AllOperands : j # o => Loaded(j)' = Loaded(j),
         o \in OperandSet => k < DmaIssues,
         \A c \in Consumers : k < Passed(c, o) + pipe.stages,
         \A c \in Consumers, j \in AllOperands :
           Passed(c, j)' = Passed(c, j) /\ (Has(c, j)' => Has(c, j))
  PROVE  /\ Window' /\ InFlight' /\ Filled' /\ Granted' /\ LoadBar(o, s)'
         /\ \A l \in Loads : l # <<o, s>> => LoadBar(l[1], l[2])' = LoadBar(l[1], l[2])
         /\ mbar' = [mbar EXCEPT ![<<o, s>>] =
              [phase |-> Fills(k, s), pending |-> 0, count |-> 1, tx |-> Cardinality(Pieces)]]
<1> DEFINE new == Copies(o, s, Tag(o, k))
<1>1. /\ k \in Nat /\ pipe \in Pipes /\ pipe.stages \in Nat /\ s \in Stages /\ s = k % pipe.stages
      /\ \A c \in Consumers, j \in AllOperands : Passed(c, j) \in Nat /\ Loaded(j) \in Nat
  <2>1. pipe \in Pipes
    BY DEF Typed
  <2>2. s \in Stages
    BY <2>1, StageOf
  <2>3. \A c \in Consumers, j \in AllOperands : Passed(c, j) \in Nat /\ Loaded(j) \in Nat
    BY Counts
  <2> QED BY <2>1, <2>2, <2>3, PipeFacts
<1>2. \A l \in Loads : l[1] \in AllOperands /\ l[2] \in Stages /\ l = <<l[1], l[2]>>
  BY PipeFacts DEF Loads, AllOperands, Stages, Typed
<1>3. Leader \in Consumers
  BY PipesOK
<1>4. Filling(o, s) = {}
  <2> SUFFICES ASSUME NEW x \in Filling(o, s) PROVE FALSE
    OBVIOUS
  <2>1. PICK m \in Nat : Latest(o, s, m) /\ Passed(Leader, o) <= m
    BY <1>3 DEF InFlight, Filling
  <2>2. m < k /\ m % pipe.stages = k % pipe.stages
    BY <1>1, <2>1 DEF Latest
  <2>3. m + pipe.stages <= k
    BY <1>1, <2>2, SameStage
  <2>4. k < Passed(Leader, o) + pipe.stages
    BY <1>3
  <2> QED BY <1>1, <1>3, <2>1, <2>3, <2>4
<1>5. /\ flight' = flight \cup new /\ smem' = smem
      /\ issued' = [issued EXCEPT ![o] = @ + 1]
  BY DEF Load, Copy, Copies
<1>6. mbar' = [mbar EXCEPT ![<<o, s>>] =
        [phase |-> Fills(k, s), pending |-> 0, count |-> 1, tx |-> Cardinality(Pieces)]]
  <2>1. mbar[<<o, s>>] = [phase |-> Fills(k, s), pending |-> 1, count |-> 1, tx |-> 0]
    BY <1>4 DEF LoadBar
  <2>2. ArriveExpectTx(mbar[<<o, s>>], ExpectedPieces) =
          [phase |-> Fills(k, s), pending |-> 0, count |-> 1, tx |-> Cardinality(Pieces)]
    <3>1. Cardinality(Pieces) \in Nat /\ Cardinality(Pieces) # 0
      BY PieceFacts
    <3>2. Fills(k, s) \in Nat
      BY <1>1, FillsFacts
    <3> QED BY <2>1, <3>1, <3>2, Expecting DEF ExpectedPieces
  <2> QED BY <2>2 DEF Load
<1>7. Filling(o, s)' = new
  BY <1>4, <1>5 DEF Filling, Copy, Copies
<1>8. ASSUME NEW j, NEW z, <<j, z>> # <<o, s>> PROVE Filling(j, z)' = Filling(j, z)
  BY <1>5, <1>8 DEF Filling, Copy, Copies
<1>9. \A m \in Nat : Latest(o, s, m)' <=> m = k
  <2> SUFFICES ASSUME NEW m \in Nat PROVE Latest(o, s, m)' <=> m = k
    OBVIOUS
  <2>1. Latest(o, s, m)' <=> m < k + 1 /\ m % pipe.stages = s /\ k + 1 <= m + pipe.stages
    BY DEF Latest
  <2>2. 0 < pipe.stages
    BY <1>1, PipeFacts
  <2>3. m % pipe.stages = s /\ m < k => m + pipe.stages <= k
    BY <1>1, SameStage
  <2> QED BY <1>1, <2>1, <2>2, <2>3
<1>10. ASSUME NEW z \in Stages, z # s, NEW m \in Nat
       PROVE  Latest(o, z, m)' = Latest(o, z, m)
  <2>1. Latest(o, z, m)' <=> m < k + 1 /\ m % pipe.stages = z /\ k + 1 <= m + pipe.stages
    BY DEF Latest
  <2>2. Latest(o, z, m) <=> m < k /\ m % pipe.stages = z /\ k <= m + pipe.stages
    BY DEF Latest
  <2>3. m % pipe.stages = z => m # k
    BY <1>1, <1>10
  <2>4. m % pipe.stages = z => k # m + pipe.stages
    <3>1. CASE pipe.stages = 1
      BY <1>1, <1>10, <3>1
    <3>2. CASE pipe.stages = 2
      BY <1>1, <1>10, <3>2
    <3>3. CASE pipe.stages = 3
      BY <1>1, <1>10, <3>3
    <3> QED BY <1>1, <3>1, <3>2, <3>3, PipeFacts
  <2>5. Latest(o, z, m)' \in BOOLEAN /\ Latest(o, z, m) \in BOOLEAN
    BY DEF Latest
  <2> QED BY <1>1, <2>1, <2>2, <2>3, <2>4, <2>5
<1>11. ASSUME NEW j \in AllOperands, j # o, NEW z, NEW m
       PROVE  Latest(j, z, m)' = Latest(j, z, m)
  BY <1>11 DEF Latest
<1>12. Window'
  <2>1. ASSUME NEW j \in AllOperands, NEW c \in Consumers
        PROVE  Passed(c, j)' <= Loaded(j)' /\ Loaded(j)' <= Passed(c, j)' + pipe.stages
    <3>1. Passed(c, j) <= Loaded(j) /\ Loaded(j) <= Passed(c, j) + pipe.stages
      BY DEF Window
    <3>2. k < Passed(c, o) + pipe.stages
      OBVIOUS
    <3>3. CASE j = o
      BY <1>1, <3>1, <3>2, <3>3
    <3>4. CASE j # o
      BY <3>1, <3>4
    <3> QED BY <3>3, <3>4
  <2>2. ASSUME NEW j \in OperandSet PROVE Loaded(j)' <= DmaIssues /\ issued'[j] = Base + Loaded(j)'
    <3>1. Loaded(j) <= DmaIssues /\ issued[j] = Base + Loaded(j) /\ j \in AllOperands
      BY DEF Window, AllOperands
    <3>2. issued \in [AllOperands -> Nat] /\ Base \in Nat /\ DmaIssues \in Nat
      BY Counts, PipeFacts DEF Typed
    <3>3. CASE j = o
      BY <1>1, <1>5, <3>1, <3>2, <3>3
    <3>4. CASE j # o
      BY <1>5, <3>1, <3>2, <3>4
    <3> QED BY <3>3, <3>4
  <2> QED BY <2>1, <2>2, SamePipe DEF Window
<1>13. InFlight'
  <2> SUFFICES ASSUME NEW x \in flight'
               PROVE  /\ <<x.operand, x.stage>> \in Loads
                      /\ \E m \in Nat : /\ Latest(x.operand, x.stage, m)'
                                        /\ x.block = Tag(x.operand, m)
                                        /\ \A c \in Consumers : Passed(c, x.operand)' <= m
    BY SamePipe DEF InFlight
  <2>1. CASE x \in flight
    <3>1. <<x.operand, x.stage>> \in Loads /\ x.operand \in AllOperands /\ x.stage \in Stages
      BY <1>2, <2>1 DEF InFlight, Typed
    <3>2. PICK m \in Nat : /\ Latest(x.operand, x.stage, m) /\ x.block = Tag(x.operand, m)
                           /\ \A c \in Consumers : Passed(c, x.operand) <= m
      BY <2>1 DEF InFlight
    <3>3. x.operand = o => x.stage # s
      BY <1>4, <2>1 DEF Filling
    <3>4. Latest(x.operand, x.stage, m)' = Latest(x.operand, x.stage, m)
      BY <1>10, <1>11, <3>1, <3>3
    <3>5. \A c \in Consumers : Passed(c, x.operand)' <= m
      BY <3>1, <3>2
    <3> QED BY <3>1, <3>2, <3>4, <3>5
  <2>2. CASE x \in new
    <3>1. x.operand = o /\ x.stage = s /\ x.block = Tag(o, k)
      BY <2>2 DEF Copy, Copies
    <3>2. \A c \in Consumers : Passed(c, o)' <= k
      BY <1>1 DEF Window
    <3>3. Latest(o, s, k)'
      BY <1>1, <1>9
    <3> QED BY <1>1, <3>1, <3>2, <3>3
  <2> QED BY <1>5, <2>1, <2>2
<1>14. Filled'
  <2> SUFFICES ASSUME NEW l \in Loads, NEW p \in Pieces, NEW m \in Nat, Latest(l[1], l[2], m)'
               PROVE  \/ smem[<<l[1], l[2], p>>] = Tag(l[1], m)
                      \/ Copy(l[1], l[2], p, Tag(l[1], m)) \in flight'
    BY <1>5, SamePipe DEF Filled, Copy
  <2>1. CASE l = <<o, s>>
    <3>1. l[1] = o /\ l[2] = s
      BY <2>1
    <3>2. m = k
      BY <1>9, <3>1
    <3>3. Copy(o, s, p, Tag(o, k)) \in new
      BY DEF Copies
    <3> QED BY <1>5, <3>1, <3>2, <3>3
  <2>2. CASE l # <<o, s>>
    <3>1. Latest(l[1], l[2], m)' = Latest(l[1], l[2], m)
      <4>1. l[1] \in AllOperands /\ l[2] \in Stages /\ l = <<l[1], l[2]>>
        BY <1>2
      <4>2. CASE l[1] = o
        BY <1>10, <2>2, <4>1, <4>2
      <4>3. CASE l[1] # o
        BY <1>11, <4>1, <4>3
      <4> QED BY <4>2, <4>3
    <3>2. \/ smem[<<l[1], l[2], p>>] = Tag(l[1], m)
          \/ Copy(l[1], l[2], p, Tag(l[1], m)) \in flight
      BY <3>1 DEF Filled
    <3> QED BY <1>5, <3>2
  <2> QED BY <2>1, <2>2
<1>15. Granted'
  <2> SUFFICES ASSUME NEW c \in Consumers, NEW j \in AllOperands, Has(c, j)'
               PROVE  There(c, j)'
    BY SamePipe DEF Granted
  <2>1. Passed(c, j)' = Passed(c, j) /\ Passed(c, j) \in Nat
    BY <1>1
  <2>2. Passed(c, j) < Loaded(j) /\ Filling(j, Passed(c, j) % pipe.stages) = {}
    BY DEF Granted, There
  <2>3. Passed(c, j) < Loaded(j)'
    <3>1. Loaded(j) \in Nat
      BY <1>1
    <3> QED BY <2>1, <2>2, <3>1
  <2>4. <<j, Passed(c, j) % pipe.stages>> # <<o, s>>
    <3> SUFFICES ASSUME j = o, Passed(c, o) % pipe.stages = s PROVE FALSE
      OBVIOUS
    <3>1. Passed(c, o) + pipe.stages <= k
      BY <1>1, <2>1, <2>2, SameStage
    <3>2. k < Passed(c, o) + pipe.stages
      OBVIOUS
    <3> QED BY <1>1, <2>1, <3>1, <3>2
  <2>5. Filling(j, Passed(c, j) % pipe.stages)' = {}
    BY <1>8, <2>1, <2>2, <2>4
  <2> QED BY <2>1, <2>3, <2>5 DEF There
<1>16. LoadBar(o, s)'
  <2>1. Cardinality(new) = Cardinality(Pieces) /\ new # {}
    <3>1. Cardinality(new) = Cardinality(Pieces)
      BY PieceFacts
    <3>2. Pieces # {}
      BY DEF Pieces
    <3>3. new # {}
      BY <3>2 DEF Copies
    <3> QED BY <3>1, <3>3
  <2>2. Fills(k + 1, s) = Fills(k, s) + 1 /\ Fills(k, s) \in Nat
    BY <1>1, FillsFacts
  <2>3. mbar'[<<o, s>>] = [phase |-> Fills(k, s), pending |-> 0, count |-> 1,
                          tx |-> Cardinality(Pieces)]
    <3>1. <<o, s>> \in DOMAIN mbar
      BY OperandStages DEF Typed
    <3> QED BY <1>6, <3>1
  <2>4. Fills(Loaded(o), s)' = Fills(k, s) + 1
    BY <2>2, SamePipe DEF Fills
  <2> HIDE DEF new
  <2> QED BY <1>7, <2>1, <2>2, <2>3, <2>4 DEF LoadBar
<1>17. ASSUME NEW l \in Loads, l # <<o, s>>
       PROVE  LoadBar(l[1], l[2])' = LoadBar(l[1], l[2])
  <2>1. l = <<l[1], l[2]>> /\ l[1] \in AllOperands /\ l[2] \in Stages
    BY <1>2
  <2>2. mbar'[<<l[1], l[2]>>] = mbar[<<l[1], l[2]>>]
    BY <1>6, <1>17, <2>1 DEF Typed
  <2>3. Filling(l[1], l[2])' = Filling(l[1], l[2])
    BY <1>8, <1>17, <2>1
  <2>4. Fills(Loaded(l[1]), l[2])' = Fills(Loaded(l[1]), l[2])
    <3>1. CASE l[1] = o
      <4>1. Fills(k + 1, l[2]) = Fills(k, l[2])
        BY <1>1, <1>17, <2>1, <3>1, FillsFacts
      <4> QED BY <3>1, <4>1, SamePipe DEF Fills
    <3>2. CASE l[1] # o
      BY <2>1, <3>2, SamePipe DEF Fills
    <3> QED BY <3>1, <3>2
  <2> QED BY <2>2, <2>3, <2>4 DEF LoadBar
<1> QED BY <1>6, <1>12, <1>13, <1>14, <1>15, <1>16, <1>17

-----------------------------------------------------------------------------
(* A copy lands.                                                           *)

LEMMA SameWarps ==
  ASSUME pipe' = pipe, warp' = warp
  PROVE  /\ \A v \in Warps : Placed(v)' = Placed(v) /\ Parities(v)' = Parities(v)
         /\ InStep' = InStep /\ Base' = Base
         /\ \A o, m : Tag(o, m)' = Tag(o, m)
         /\ \A o : Loaded(o)' = Loaded(o)
         /\ \A c \in Consumers : /\ Done(c)' = Done(c)
                                 /\ \A o : Passed(c, o)' = Passed(c, o) /\ Has(c, o)' = Has(c, o)
<1>1. \A v \in Warps : warp'[v] = warp[v]
  OBVIOUS
<1>2. \A v \in Warps : /\ Placed(v)' = Placed(v) /\ Parities(v)' = Parities(v)
                       /\ Round(v)' = Round(v) /\ Shared(v)' = Shared(v)
                       /\ TileOf(v)' = TileOf(v) /\ Done(v)' = Done(v)
                       /\ \A o : Passed(v, o)' = Passed(v, o) /\ Has(v, o)' = Has(v, o)
  BY <1>1, SameWarp
<1>3. Syncing \subseteq Warps /\ Consumers \subseteq Warps /\ Leader \in Warps /\ Syncing' = Syncing
  BY PipesOK, SamePipe DEF Syncing, Warps
<1>4. InStep' = InStep
  BY <1>2, <1>3 DEF InStep
<1>5. TileOf(Leader)' = TileOf(Leader) /\ Base' = Base
  BY <1>2, <1>3, SamePipe DEF Base
<1>6. \A o, m : Tag(o, m)' = Tag(o, m)
  BY <1>5 DEF Tag
<1>7. \A o : Loaded(o)' = Loaded(o)
  BY LoadedKept
<1> QED BY <1>2, <1>3, <1>4, <1>5, <1>6, <1>7

LEMMA LandKeeps ==
  ASSUME Typed, \A v \in Warps : Placed(v), Window, InFlight, Filled, Granted,
         \A l \in Loads : LoadBar(l[1], l[2]), NEW x \in flight, Land(x)
  PROVE  /\ Typed' /\ Window' /\ InFlight' /\ Filled' /\ Granted'
         /\ \A l \in Loads : LoadBar(l[1], l[2])'
         /\ \A s \in Stages : mbar'[<<"done", s>>] = mbar[<<"done", s>>]
<1>1. PICK o, s : o = x.operand /\ s = x.stage
  OBVIOUS
<1>2. o \in AllOperands /\ <<o, s>> \in Loads /\ s \in Stages /\ pipe \in Pipes
  BY <1>1 DEF InFlight, Typed
<1>3. /\ pipe' = pipe /\ warp' = warp /\ issued' = issued /\ vt' = vt /\ bcast' = bcast
      /\ flight' = flight \ {x}
      /\ smem' = [smem EXCEPT ![<<o, s, x.piece>>] = x.block]
      /\ mbar' = [mbar EXCEPT ![<<o, s>>] = CompleteTx(mbar[<<o, s>>])]
  BY <1>1 DEF Land
<1>4. /\ Base' = Base /\ \A j, m : Tag(j, m)' = Tag(j, m)
      /\ \A j : Loaded(j)' = Loaded(j)
      /\ \A c \in Consumers, j \in AllOperands : Passed(c, j)' = Passed(c, j) /\ Has(c, j)' = Has(c, j)
  BY <1>3, SameWarps
<1>5. PICK m \in Nat : /\ Latest(o, s, m) /\ x.block = Tag(o, m)
                       /\ \A c \in Consumers : Passed(c, o) <= m
  BY <1>1 DEF InFlight
<1>6. PICK k \in Nat : k = Loaded(o)
  BY Counts
<1>7. PICK f \in Nat : f + 1 = Fills(k, s)
  <2>1. m + 1 <= k /\ m + 1 \in Nat /\ m % pipe.stages = s
    BY <1>5, <1>6 DEF Latest
  <2>2. Fills(m + 1, s) <= Fills(k, s) /\ Fills(m + 1, s) = Fills(m, s) + 1
        /\ Fills(m, s) \in Nat /\ Fills(k, s) \in Nat
    BY <1>2, <2>1, FillsOrder, FillsFacts
  <2>3. Fills(k, s) - 1 \in Nat /\ (Fills(k, s) - 1) + 1 = Fills(k, s)
    BY <2>2
  <2> QED BY <2>3
<1>8. x \in Filling(o, s) /\ Filling(o, s)' = Filling(o, s) \ {x}
  BY <1>1, <1>3 DEF Filling
<1>9. \A j, z : <<j, z>> # <<o, s>> => Filling(j, z)' = Filling(j, z)
  BY <1>1, <1>3 DEF Filling
<1>10. PICK n \in Nat : /\ n = Cardinality(Filling(o, s)) /\ n # 0
                        /\ Cardinality(Filling(o, s)') = n - 1
                        /\ n = 1 <=> Filling(o, s)' = {}
  <2>1. IsFiniteSet(Filling(o, s))
    BY FS_Subset DEF Typed, Filling
  <2>2. /\ Cardinality(Filling(o, s)) \in Nat /\ Cardinality(Filling(o, s)) # 0
        /\ Cardinality(Filling(o, s) \ {x}) = Cardinality(Filling(o, s)) - 1
        /\ IsFiniteSet(Filling(o, s) \ {x})
    BY <1>8, <2>1, FS_CardinalityType, FS_EmptySet, FS_RemoveElement
  <2>3. Cardinality(Filling(o, s) \ {x}) = 0 <=> Filling(o, s) \ {x} = {}
    BY <2>2, FS_EmptySet
  <2> QED BY <1>8, <2>2, <2>3
<1>11. mbar[<<o, s>>] = [phase |-> f, pending |-> 0, count |-> 1, tx |-> n]
  <2>1. LoadBar(o, s)
    BY <1>2
  <2>2. Fills(k, s) - 1 = f
    BY <1>7
  <2> QED BY <1>6, <1>8, <1>10, <2>1, <2>2 DEF LoadBar
<1>12. mbar'[<<o, s>>] = IF n = 1 THEN [phase |-> f + 1, pending |-> 1, count |-> 1, tx |-> 0]
                         ELSE [phase |-> f, pending |-> 0, count |-> 1, tx |-> n - 1]
  <2>1. <<o, s>> \in DOMAIN mbar
    BY <1>2, OperandStages DEF Typed
  <2> QED BY <1>3, <1>10, <1>11, <2>1, Completing
<1>13. LoadBar(o, s)'
  <2>1. Fills(Loaded(o), s)' = f + 1
    BY <1>3, <1>4, <1>6, <1>7, SamePipe DEF Fills
  <2>2. f + 1 - 1 = f
    OBVIOUS
  <2>3. CASE n = 1
    BY <1>10, <1>12, <2>1, <2>3 DEF LoadBar
  <2>4. CASE n # 1
    BY <1>10, <1>12, <2>1, <2>2, <2>4 DEF LoadBar
  <2> QED BY <2>3, <2>4
<1>14. ASSUME NEW l \in Loads PROVE LoadBar(l[1], l[2])'
  <2>1. l = <<l[1], l[2]>>
    BY DEF Loads
  <2>2. CASE l = <<o, s>>
    <3>1. l[1] = o /\ l[2] = s
      BY <2>2
    <3> QED BY <1>13, <3>1
  <2>3. CASE l # <<o, s>>
    <3>1. mbar'[<<l[1], l[2]>>] = mbar[<<l[1], l[2]>>]
      BY <1>3, <2>1, <2>3 DEF Typed
    <3>2. Filling(l[1], l[2])' = Filling(l[1], l[2])
      BY <1>9, <2>1, <2>3
    <3>3. Fills(Loaded(l[1]), l[2])' = Fills(Loaded(l[1]), l[2])
      BY <1>3, <1>4, SamePipe DEF Fills
    <3>4. LoadBar(l[1], l[2])
      OBVIOUS
    <3> QED BY <3>1, <3>2, <3>3, <3>4 DEF LoadBar
  <2> QED BY <2>2, <2>3
<1>15. ASSUME NEW z \in Stages PROVE mbar'[<<"done", z>>] = mbar[<<"done", z>>]
  <2>1. o # "done"
    BY <1>2, OperandStages
  <2> QED BY <1>3, <2>1
<1>16. \A j, z, i : Latest(j, z, i)' = Latest(j, z, i)
  BY <1>3, <1>4 DEF Latest
<1>17. Window'
  <2>1. OperandSet \subseteq AllOperands
    BY DEF AllOperands
  <2> QED BY <1>3, <1>4, <2>1, SamePipe DEF Window
<1>18. InFlight'
  <2> SUFFICES ASSUME NEW y \in flight
               PROVE  /\ <<y.operand, y.stage>> \in Loads
                      /\ \E i \in Nat : /\ Latest(y.operand, y.stage, i)'
                                        /\ y.block = Tag(y.operand, i)'
                                        /\ \A c \in Consumers : Passed(c, y.operand)' <= i
    BY <1>3, SamePipe DEF InFlight
  <2>1. y.operand \in AllOperands
    BY DEF Typed
  <2> QED BY <1>4, <1>16, <2>1 DEF InFlight
<1>19. Filled'
  <2> SUFFICES ASSUME NEW l \in Loads, NEW p \in Pieces, NEW i \in Nat, Latest(l[1], l[2], i)'
               PROVE  \/ smem'[<<l[1], l[2], p>>] = Tag(l[1], i)
                      \/ Copy(l[1], l[2], p, Tag(l[1], i)) \in flight'
    BY <1>3, <1>4, SamePipe DEF Filled, Copy
  <2>1. Latest(l[1], l[2], i)
    BY <1>16
  <2>2. <<l[1], l[2], p>> \in DOMAIN smem
    BY DEF Typed, Places
  <2>3. CASE l[1] = o /\ l[2] = s /\ p = x.piece
    <3>1. i = m
      BY <1>2, <1>5, <2>1, <2>3, OneLatest
    <3> QED BY <1>3, <1>5, <2>2, <2>3, <3>1
  <2>4. CASE ~(l[1] = o /\ l[2] = s /\ p = x.piece)
    <3>1. smem'[<<l[1], l[2], p>>] = smem[<<l[1], l[2], p>>]
      <4>1. <<l[1], l[2], p>> # <<o, s, x.piece>>
        BY <2>4
      <4> QED BY <1>3, <2>2, <4>1 DEF Typed
    <3>2. Copy(l[1], l[2], p, Tag(l[1], i)) # x
      BY <1>1, <2>4 DEF Copy
    <3>3. \/ smem[<<l[1], l[2], p>>] = Tag(l[1], i)
          \/ Copy(l[1], l[2], p, Tag(l[1], i)) \in flight
      BY <2>1 DEF Filled
    <3> QED BY <1>3, <3>1, <3>2, <3>3
  <2> QED BY <2>3, <2>4
<1>20. Granted'
  <2> SUFFICES ASSUME NEW c \in Consumers, NEW j \in AllOperands, Has(c, j)'
               PROVE  There(c, j)'
    BY <1>3, SamePipe DEF Granted
  <2>1. Passed(c, j)' = Passed(c, j) /\ There(c, j)
    BY <1>4 DEF Granted
  <2>2. \A z : Filling(j, z)' \subseteq Filling(j, z)
    BY <1>3 DEF Filling
  <2> QED BY <1>3, <1>4, <2>1, <2>2 DEF There
<1>21. Typed'
  <2>1. mbar' = [b \in Mbars |-> mbar'[b]]
    BY <1>3 DEF Typed
  <2>2. mbar'[<<o, s>>] \in [phase : Nat, pending : Nat, count : Nat, tx : Nat]
    <3>1. n - 1 \in Nat
      BY <1>10
    <3> QED BY <1>12, <3>1
  <2>3. \A b \in Mbars : mbar'[b] \in [phase : Nat, pending : Nat, count : Nat, tx : Nat]
    BY <1>3, <2>2 DEF Typed
  <2>4. smem' \in [Places -> Nat \cup {Nothing}]
    <3>1. x.block \in Nat
      BY DEF Typed
    <3> QED BY <1>3, <3>1 DEF Typed
  <2>5. IsFiniteSet(flight')
    BY <1>3, FS_Subset DEF Typed
  <2>6. flight' \subseteq [operand : AllOperands, stage : Stages, piece : Pieces, block : Nat]
    BY <1>3 DEF Typed
  <2>7. Within'
    BY <1>3, SamePipe DEF Typed, Within
  <2> QED BY <1>3, <2>1, <2>3, <2>4, <2>5, <2>6, <2>7, SamePipe DEF Typed
<1> QED BY <1>14, <1>15, <1>17, <1>18, <1>19, <1>20, <1>21

-----------------------------------------------------------------------------
(* The consumers' word that a stage is free.                               *)

LEMMA DoneKept ==
  ASSUME pipe' = pipe, NEW s, mbar'[<<"done", s>>] = mbar[<<"done", s>>],
         \A c \in Consumers : Fills(Done(c), s)' = Fills(Done(c), s), DoneBar(s)
  PROVE  DoneBar(s)'
<1>1. \A f : Owing(s, f)' = Owing(s, f)
  BY DEF Owing
<1> QED BY <1>1 DEF DoneBar

\* In every phase somebody has not arrived yet.
LEMMA SomeoneOwes ==
  ASSUME Typed, NEW s \in Stages, DoneBar(s)
  PROVE  /\ \E c \in Consumers : Fills(Done(c), s) = mbar[<<"done", s>>].phase
         /\ mbar[<<"done", s>>].phase \in Nat
<1>1. PICK f \in Nat : /\ f = mbar[<<"done", s>>].phase
                       /\ Cardinality(Owing(s, f)) # 0
  BY DEF DoneBar
<1>2. Owing(s, f) # {}
  BY <1>1, FS_EmptySet
<1> QED BY <1>1, <1>2 DEF Owing

\* The stage's DONE is in the phase the loading warp waits for or the one after it.
LEMMA DonePhase ==
  ASSUME Typed, \A v \in Warps : Placed(v), NEW n \in Nat, NEW s \in Stages, n % pipe.stages = s,
         DoneBar(s), \A c \in Consumers : Done(c) <= n /\ n <= Done(c) + pipe.stages
  PROVE  \/ mbar[<<"done", s>>].phase = Fills(n, s)
         \/ mbar[<<"done", s>>].phase + 1 = Fills(n, s)
<1>1. PICK f \in Nat : f = mbar[<<"done", s>>].phase
  BY SomeoneOwes
<1>2. PICK d \in Consumers : Fills(Done(d), s) = f
  BY <1>1, SomeoneOwes
<1>3. pipe \in Pipes /\ Done(d) \in Nat
  BY Counts DEF Typed
<1>4. /\ Fills(Done(d), s) \in Nat /\ Fills(n, s) \in Nat
      /\ Fills(Done(d), s) <= Fills(n, s) /\ Fills(n, s) <= Fills(Done(d), s) + 1
  BY <1>3, FillsFacts, FillsOrder
<1> QED BY <1>1, <1>2, <1>4

\* The wait of the loading warp ends when every warp is done with the stage's last block.
LEMMA DoneWaitEnds ==
  ASSUME Typed, \A v \in Warps : Placed(v), NEW n \in Nat, NEW s \in Stages, n % pipe.stages = s,
         DoneBar(s), \A c \in Consumers : Done(c) <= n /\ n <= Done(c) + pipe.stages,
         NEW q, q = (Fills(n, s) + 1) % 2, TryWaitParity(mbar[<<"done", s>>], q)
  PROVE  \A c \in Consumers : n < Done(c) + pipe.stages
<1>1. PICK f \in Nat : f = mbar[<<"done", s>>].phase
  BY SomeoneOwes
<1>2. pipe \in Pipes /\ \A c \in Consumers : Done(c) \in Nat
  BY Counts DEF Typed
<1>3. \A c \in Consumers : /\ Fills(Done(c), s) \in Nat /\ Fills(n, s) \in Nat
                           /\ Fills(Done(c), s) <= Fills(n, s)
                           /\ Fills(n, s) <= Fills(Done(c), s) => n < Done(c) + pipe.stages
  BY <1>2, FillsFacts, FillsOrder
<1>4. Fills(n, s) \in Nat
  BY <1>2, FillsFacts
<1>5. f = Fills(n, s) \/ f + 1 = Fills(n, s)
  BY <1>1, DonePhase
<1>6. f % 2 # (Fills(n, s) + 1) % 2
  BY <1>1 DEF TryWaitParity
<1>7. f = Fills(n, s)
  BY <1>4, <1>5, <1>6
<1>8. \A c \in Consumers : Fills(Done(c), s) \in {f, f + 1}
  BY <1>1 DEF DoneBar
<1> QED BY <1>3, <1>7, <1>8

\* An arrival before the last, and the last.
LEMMA Arriving ==
  ASSUME NEW b \in [phase : Nat, pending : Nat, count : Nat, tx : Nat], b.tx = 0, b.pending # 0
  PROVE  Arrive(b) = IF b.pending = 1
                     THEN [phase |-> b.phase + 1, pending |-> b.count, count |-> b.count, tx |-> 0]
                     ELSE [phase |-> b.phase, pending |-> b.pending - 1, count |-> b.count, tx |-> 0]
<1> DEFINE a == [b EXCEPT !.pending = @ - 1]
           r == [a EXCEPT !.phase = @ + 1, !.pending = a.count]
<1>1. /\ a \in [phase : Nat, pending : Nat, count : Nat, tx : Nat]
      /\ a.phase = b.phase /\ a.pending = b.pending - 1 /\ a.count = b.count /\ a.tx = 0
  OBVIOUS
<1>2. Arrive(b) = Settle(a)
  BY DEF Arrive
<1>3. b.pending = 1 => Settle(a) = r
  <2> HIDE DEF a
  <2> QED BY <1>1 DEF Settle
<1>4. b.pending # 1 => Settle(a) = a
  <2> HIDE DEF a
  <2> QED BY <1>1 DEF Settle
<1> HIDE DEF a
<1>5. r \in [phase : Nat, pending : Nat, count : Nat, tx : Nat]
  <2>1. a.phase + 1 \in Nat /\ a.count \in Nat
    BY <1>1
  <2> QED BY <1>1, <2>1
<1>6. r.phase = b.phase + 1 /\ r.count = b.count /\ r.tx = 0
  BY <1>1
<1>7. r.pending = b.count
  BY <1>1
<1> HIDE DEF r
<1>8. r = [phase |-> b.phase + 1, pending |-> b.count, count |-> b.count, tx |-> 0]
  BY <1>5, <1>6, <1>7
<1>9. a = [phase |-> b.phase, pending |-> b.pending - 1, count |-> b.count, tx |-> 0]
  BY <1>1
<1> QED BY <1>2, <1>3, <1>4, <1>8, <1>9

\* A warp that is done with a block had not arrived in the stage's phase.
LEMMA ArriveKeeps ==
  ASSUME Typed, \A v \in Warps : Placed(v), NEW c \in Consumers, NEW n \in Nat, Done(c) = n,
         NEW s \in Stages, n % pipe.stages = s, DoneBar(s),
         \A d \in Consumers : n < Done(d) + pipe.stages, pipe' = pipe,
         mbar' = [mbar EXCEPT ![<<"done", s>>] = Arrive(mbar[<<"done", s>>])],
         Done(c)' = n + 1, \A d \in Consumers : d # c => Done(d)' = Done(d)
  PROVE  /\ DoneBar(s)' /\ \A z \in Stages : z # s /\ DoneBar(z) => DoneBar(z)'
         /\ mbar'[<<"done", s>>] \in [phase : Nat, pending : Nat, count : Nat, tx : Nat]
<1> DEFINE b == mbar[<<"done", s>>]
           e == mbar'[<<"done", s>>]
<1>1. PICK f \in Nat : f = b.phase
  BY SomeoneOwes
<1>2. pipe \in Pipes /\ \A d \in Consumers : Done(d) \in Nat
  BY Counts DEF Typed
<1>3. Fills(n, s) = f /\ Fills(n + 1, s) = f + 1
  <2>1. PICK d \in Consumers : Fills(Done(d), s) = f
    BY <1>1, SomeoneOwes
  <2>2. n + 1 <= Done(d) + pipe.stages /\ n + 1 \in Nat /\ Done(d) \in Nat
    <3>1. n < Done(d) + pipe.stages
      OBVIOUS
    <3> QED BY <1>2, <3>1, PipeFacts
  <2>3. Fills(n + 1, s) <= f + 1
    BY <1>2, <2>1, <2>2, FillsOrder
  <2>4. Fills(n + 1, s) = Fills(n, s) + 1 /\ Fills(n, s) \in Nat
    BY <1>2, FillsFacts
  <2>5. Fills(n, s) \in {f, f + 1}
    BY <1>1 DEF DoneBar
  <2> QED BY <2>3, <2>4, <2>5
<1>4. \A d \in Consumers : Fills(Done(d), s)' = IF d = c THEN f + 1 ELSE Fills(Done(d), s)
  BY <1>3, SamePipe DEF Fills
<1>5. IsFiniteSet(Consumers) /\ Cardinality(Consumers) \in Nat
  BY PipesOK, FS_CardinalityType
<1>6. IsFiniteSet(Owing(s, f)) /\ c \in Owing(s, f)
  BY <1>3, <1>5, FS_Subset DEF Owing
<1>7. /\ Owing(s, f)' = Owing(s, f) \ {c}
      /\ Cardinality(Owing(s, f)') = Cardinality(Owing(s, f)) - 1
  <2>1. Owing(s, f)' = Owing(s, f) \ {c}
    BY <1>4 DEF Owing
  <2>2. Cardinality(Owing(s, f) \ {c}) = Cardinality(Owing(s, f)) - 1
    BY <1>6, FS_RemoveElement
  <2> QED BY <2>1, <2>2
<1>8. /\ b \in [phase : Nat, pending : Nat, count : Nat, tx : Nat] /\ b.phase = f /\ b.tx = 0
      /\ b.pending = Cardinality(Owing(s, f)) /\ b.pending # 0 /\ b.count = Cardinality(Consumers)
      /\ \A d \in Consumers : Fills(Done(d), s) \in {f, f + 1}
  <2>1. b \in [phase : Nat, pending : Nat, count : Nat, tx : Nat]
    <3>1. <<"done", s>> \in Mbars
      BY DEF Mbars
    <3> QED BY <3>1 DEF Typed
  <2> QED BY <1>1, <2>1 DEF DoneBar
<1>9. e = Arrive(b)
  BY DEF Typed, Mbars
<1> HIDE DEF b, e
<1>11. ASSUME b.pending = 1 PROVE DoneBar(s)'
  <2>1. e = [phase |-> f + 1, pending |-> b.count, count |-> b.count, tx |-> 0]
    BY <1>1, <1>8, <1>9, <1>11, Arriving
  <2>2. Owing(s, f)' = {}
    <3>1. Cardinality(Owing(s, f) \ {c}) = 0 /\ IsFiniteSet(Owing(s, f) \ {c})
      BY <1>6, <1>7, <1>8, <1>11, FS_RemoveElement
    <3> QED BY <1>7, <3>1, FS_EmptySet
  <2>3. \A d \in Consumers : Fills(Done(d), s)' = f + 1
    <3>1. \A d \in Consumers : Fills(Done(d), s)' # f
      BY <2>2 DEF Owing
    <3> QED BY <1>4, <1>8, <3>1
  <2>4. PICK g \in Nat : g = f + 1
    OBVIOUS
  <2>5. Owing(s, g)' = Consumers
    BY <2>3, <2>4 DEF Owing
  <2>6. Cardinality(Consumers) # 0
    BY <1>5, PipesOK, FS_EmptySet
  <2>7. /\ e.phase = g /\ e.tx = 0 /\ e.count = Cardinality(Consumers)
        /\ e.pending = Cardinality(Consumers)
    BY <1>8, <2>1, <2>4
  <2> QED BY <2>3, <2>4, <2>5, <2>6, <2>7 DEF DoneBar, e
<1>12. ASSUME b.pending # 1 PROVE DoneBar(s)'
  <2>1. e = [phase |-> f, pending |-> b.pending - 1, count |-> b.count, tx |-> 0]
    BY <1>1, <1>8, <1>9, <1>12, Arriving
  <2>2. b.pending \in Nat
    BY <1>8
  <2>3. b.pending - 1 # 0
    BY <1>12, <2>2
  <2>4. \A d \in Consumers : Fills(Done(d), s)' \in {f, f + 1}
    BY <1>4, <1>8
  <2>5. /\ e.phase = f /\ e.tx = 0 /\ e.count = Cardinality(Consumers)
        /\ e.pending = b.pending - 1
    BY <1>8, <2>1
  <2> QED BY <1>7, <1>8, <2>3, <2>4, <2>5 DEF DoneBar, e
<1>13. ASSUME NEW z \in Stages, z # s, DoneBar(z) PROVE DoneBar(z)'
  <2>1. mbar'[<<"done", z>>] = mbar[<<"done", z>>]
    BY <1>13 DEF Typed
  <2>2. \A d \in Consumers : Fills(Done(d), z)' = Fills(Done(d), z)
    <3>1. Fills(n + 1, z) = Fills(n, z)
      BY <1>2, <1>13, FillsFacts
    <3> QED BY <3>1, SamePipe DEF Fills
  <2> QED BY <1>13, <2>1, <2>2, DoneKept
<1>14. e \in [phase : Nat, pending : Nat, count : Nat, tx : Nat]
  <2>1. b.pending = 1 =>
          e = [phase |-> f + 1, pending |-> b.count, count |-> b.count, tx |-> 0]
    BY <1>1, <1>8, <1>9, Arriving
  <2>2. b.pending # 1 =>
          e = [phase |-> f, pending |-> b.pending - 1, count |-> b.count, tx |-> 0]
    BY <1>1, <1>8, <1>9, Arriving
  <2>3. b.count \in Nat /\ b.pending - 1 \in Nat
    BY <1>8
  <2> QED BY <2>1, <2>2, <2>3
<1> QED BY <1>11, <1>12, <1>13, <1>14 DEF e

-----------------------------------------------------------------------------
(* A warp moves and loads nothing.                                         *)

LEMMA SameTile ==
  ASSUME Typed, \A v \in Warps : Placed(v), InStep, Pipelined
  PROVE  \A v, w \in Warps : TileOf(v) = TileOf(w) /\ (Setup(v) <=> Setup(w))
<1> SUFFICES ASSUME NEW v \in Warps, NEW w \in Warps
             PROVE  TileOf(v) = TileOf(w) /\ (Setup(v) <=> Setup(w))
  OBVIOUS
<1>1. Syncing = Warps /\ Round(v) = Round(w)
  BY PipeFacts DEF Typed, InStep, Syncing
<1>2. TileOf(v) \in Nat /\ TileOf(w) \in Nat
  BY Counts, PipeFacts DEF Typed
<1>3. ASSUME NEW u \in Warps
      PROVE  Round(u) = IF Setup(u) THEN 2 * TileOf(u) ELSE 2 * TileOf(u) + 1
  <2>1. Setup(u) => ~Turned(u)
    BY DEF Setup, Turned, Held, At
  <2>2. warp[u].tile \in Nat
    BY Mover
  <2>3. CASE Setup(u)
    <3>1. TileOf(u) = warp[u].tile
      BY <2>1, <2>2, <2>3 DEF TileOf
    <3> QED BY <2>3, <3>1 DEF Round
  <2>4. CASE ~Setup(u)
    BY <2>4 DEF Round
  <2> QED BY <2>3, <2>4
<1>4. /\ Round(v) = IF Setup(v) THEN 2 * TileOf(v) ELSE 2 * TileOf(v) + 1
      /\ Round(w) = IF Setup(w) THEN 2 * TileOf(w) ELSE 2 * TileOf(w) + 1
  BY <1>3
<1> DEFINE a == TileOf(v)
           b == TileOf(w)
<1>5. /\ a \in Nat /\ b \in Nat
      /\ (IF Setup(v) THEN 2 * a ELSE 2 * a + 1) = IF Setup(w) THEN 2 * b ELSE 2 * b + 1
  BY <1>1, <1>2, <1>4
<1>6. a = b /\ (Setup(v) <=> Setup(w))
  <2> HIDE DEF a, b
  <2>1. CASE Setup(v)
    BY <1>5, <2>1
  <2>2. CASE ~Setup(v)
    BY <1>5, <2>2
  <2> QED BY <2>1, <2>2
<1> QED BY <1>6

\* The mbarriers are initialised once any warp is past the bar.sync for it.
LEMMA Live ==
  ASSUME IInv, NEW v \in Syncing, ~Setup(v)
  PROVE  Streaming /\ \A w \in Syncing : ~Setup(w)
<1>1. Typed /\ (\A w \in Warps : Placed(w)) /\ InStep /\ Leader \in Syncing /\ Syncing \subseteq Warps
  BY PipesOK DEF IInv, Syncing, Warps
<1>2. \A w \in Syncing : ~Setup(w)
  <2>1. CASE Pipelined
    BY <1>1, <2>1, SameTile
  <2>2. CASE Chunks
    <3> SUFFICES ASSUME NEW w \in Syncing, Setup(w) PROVE FALSE
      OBVIOUS
    <3>1. Round(v) = Round(w)
      BY <1>1 DEF InStep
    <3>2. w \in Consumers /\ w \in Warps /\ v \in Warps /\ w # Dma /\ ~Pipelined
      BY <2>2, PipesOK DEF Syncing, Warps, Chunks, Pipelined
    <3>3. warp[w].tile = 0
      BY <1>1, <2>2, <3>2 DEF Placed, InChunks
    <3>4. Round(w) = 0
      BY <3>3 DEF Round
    <3>5. warp[v].block \in Nat
      BY <1>1, <3>2, Mover
    <3> QED BY <3>1, <3>2, <3>4, <3>5 DEF Round
  <2> QED BY <1>1, <2>1, <2>2, PipeFacts DEF Typed
<1> QED BY <1>1, <1>2 DEF IInv, Setup

\* Who is not at "init" keeps what the mbarriers of a tile are.
LEMMA MoveKeeps ==
  ASSUME IInv, NEW w \in Warps, Moved(w), ~At(w, "init")', w = Leader => ~At(w, "init"),
         mbar' = mbar, flight' = flight, smem' = smem, issued' = issued,
         vt' \in [Stages \X Consumers -> Nat \cup {Nothing}],
         bcast' \in Nat \cup {Nothing, Sums},
         \A o \in AllOperands : Loaded(o)' = Loaded(o),
         w \in Consumers => \A o \in AllOperands :
           \/ Passed(w, o)' = Passed(w, o) /\ (Has(w, o)' => Has(w, o) \/ There(w, o))
           \/ Passed(w, o)' = Passed(w, o) + 1 /\ Has(w, o) /\ ~Has(w, o)',
         Pipelined /\ w \in Consumers => Done(w)' = Done(w),
         w = Dma => Ahead',
         pipe.style = "transpose" =>
           Transposed' \/ (vt' = vt /\ ~At(w, "bar128")' /\ ~At(w, "multiply")'),
         Chunks => Handed' \/ (bcast' = bcast /\ w # Leader)
  PROVE  IInv'
<1>1. /\ Typed /\ (\A v \in Warps : Placed(v) /\ Parities(v)) /\ InStep /\ Window /\ Ahead
      /\ InFlight /\ Filled /\ Granted /\ Transposed /\ Handed
      /\ (At(Leader, "init") => flight = {}) /\ (~At(Leader, "init") => Streaming)
  BY DEF IInv
<1>2. /\ pipe' = pipe /\ Leader \in Consumers /\ Leader \in Warps /\ Consumers \subseteq Warps
      /\ Dma \in Warps /\ Dma \notin Consumers /\ \A v \in Warps : v # w => warp'[v] = warp[v]
  BY PipesOK DEF Moved, Warps
<1>3. /\ warp' \in [Warps -> WarpType] /\ Within'
      /\ (\A v \in Warps : Placed(v) /\ Parities(v))'
      /\ InStep' /\ Base' = Base /\ \A o, m : Tag(o, m)' = Tag(o, m)
      /\ \A c \in Consumers : c # w => /\ Done(c)' = Done(c)
                                       /\ \A o : Passed(c, o)' = Passed(c, o) /\ Has(c, o)' = Has(c, o)
  BY <1>1, OthersStay
<1>4. Typed'
  BY <1>1, <1>2, <1>3, SamePipe DEF Typed, WarpType
<1>5. \A c \in Consumers, o \in AllOperands :
        \/ Passed(c, o)' = Passed(c, o) /\ (Has(c, o)' => Has(c, o) \/ There(c, o))
        \/ Passed(c, o)' = Passed(c, o) + 1 /\ Has(c, o) /\ ~Has(c, o)'
  BY <1>3
<1>6. /\ Window' /\ InFlight' /\ Filled' /\ Granted'
      /\ \A l \in Loads : LoadBar(l[1], l[2])' = LoadBar(l[1], l[2])
  <2>1. \A l \in Loads : mbar'[l] = mbar[l]
    OBVIOUS
  <2>2. \A v \in Warps : Placed(v)
    BY <1>1
  <2> QED BY <1>1, <1>2, <1>3, <1>5, <2>1, <2>2, Progress
<1>7. Pipelined => \A c \in Consumers : Done(c)' = Done(c)
  BY <1>3
<1>8. Streaming => Streaming'
  <2> SUFFICES ASSUME Streaming PROVE Streaming'
    OBVIOUS
  <2>1. \A l \in Loads : LoadBar(l[1], l[2])'
    BY <1>6 DEF Streaming
  <2>2. ASSUME Pipelined, NEW s \in Stages PROVE DoneBar(s)'
    <3>1. DoneBar(s)
      BY <2>2 DEF Streaming
    <3>2. \A c \in Consumers : Fills(Done(c), s)' = Fills(Done(c), s)
      BY <1>2, <1>7, <2>2, SamePipe DEF Fills
    <3>3. mbar'[<<"done", s>>] = mbar[<<"done", s>>]
      OBVIOUS
    <3> QED BY <1>2, <3>1, <3>2, <3>3, DoneKept
  <2> QED BY <1>2, <2>1, <2>2, SamePipe DEF Streaming
<1>9. At(Leader, "init")' <=> At(Leader, "init")
  <2>1. CASE w = Leader
    BY <2>1
  <2>2. CASE w # Leader
    BY <1>2, <2>2 DEF At
  <2> QED BY <2>1, <2>2
<1>10. Ahead'
  <2>1. CASE w = Dma
    BY <2>1
  <2>2. CASE w # Dma
    <3>1. w \in Consumers /\ warp'[Dma] = warp[Dma]
      BY <1>2, <2>2 DEF Warps
    <3>2. At(Dma, "load") => Pipelined
      BY <1>1, <1>2, PipeFacts DEF Typed, Placed, InChunks, At
    <3>3. At(Dma, "load")' <=> At(Dma, "load")
      BY <3>1 DEF At
    <3> QED BY <1>1, <1>2, <1>7, <3>1, <3>2, <3>3 DEF Ahead
  <2> QED BY <2>1, <2>2
<1>11. Transposed'
  <2>1. CASE pipe.style # "transpose"
    BY <1>2, <2>1 DEF Transposed
  <2>2. CASE pipe.style = "transpose" /\ vt' = vt /\ ~At(w, "bar128")' /\ ~At(w, "multiply")'
    <3> SUFFICES ASSUME NEW c \in Consumers
                 PROVE  /\ At(c, "bar128")' => vt'[<<Stage(c), c>>'] = Number(c)'
                        /\ At(c, "multiply")' => \A d \in Consumers : vt'[<<Stage(c), d>>'] = Number(c)'
      BY DEF Transposed
    <3>1. CASE c = w
      BY <2>2, <3>1
    <3>2. CASE c # w
      <4>1. warp'[c] = warp[c]
        BY <1>2, <3>2
      <4>2. /\ At(c, "bar128") => vt[<<Stage(c), c>>] = Number(c)
            /\ At(c, "multiply") => \A d \in Consumers : vt[<<Stage(c), d>>] = Number(c)
        BY <1>1, <2>2 DEF Transposed
      <4> QED BY <1>2, <2>2, <4>1, <4>2, SamePipe DEF At, Stage, Number
    <3> QED BY <3>1, <3>2
  <2> QED BY <2>1, <2>2
<1>12. Handed'
  <2>1. CASE ~Chunks
    BY <1>2, <2>1, SamePipe DEF Handed
  <2>2. CASE Chunks /\ bcast' = bcast /\ w # Leader
    <3>1. warp'[Leader] = warp[Leader]
      BY <1>2, <2>2
    <3> QED BY <1>1, <1>2, <2>2, <3>1, SamePipe DEF Handed, Held, At, Number
  <2> QED BY <2>1, <2>2
<1> QED BY <1>1, <1>3, <1>4, <1>6, <1>8, <1>9, <1>10, <1>11, <1>12 DEF IInv

-----------------------------------------------------------------------------
(* The quiet steps of a computing warp of a pipeline.                      *)

LEMMA ConsumerQuiet ==
  ASSUME IInv, NEW c \in Consumers, Pipelined, Moved(c), UNCHANGED memVars,
         ~At(c, "init"), ~At(c, "init")', ~At(c, "bar128")', ~At(c, "multiply")',
         Done(c)' = Done(c),
         \A o \in AllOperands :
           \/ Passed(c, o)' = Passed(c, o) /\ (Has(c, o)' => Has(c, o) \/ There(c, o))
           \/ Passed(c, o)' = Passed(c, o) + 1 /\ Has(c, o) /\ ~Has(c, o)'
  PROVE  IInv'
<1>1. c \in Warps /\ Dma \in Warps /\ c # Dma /\ Typed /\ ~Chunks
  BY PipesOK, PipeFacts DEF Warps, IInv, Typed
<1>2. warp'[Dma] = warp[Dma] /\ pipe' = pipe
  BY <1>1 DEF Moved
<1>3. \A o \in AllOperands : Loaded(o)' = Loaded(o)
  BY <1>1, <1>2, LoadedKept
<1>4. /\ mbar' = mbar /\ flight' = flight /\ smem' = smem /\ issued' = issued /\ vt' = vt
      /\ vt' \in [Stages \X Consumers -> Nat \cup {Nothing}]
      /\ bcast' \in Nat \cup {Nothing, Sums}
  BY <1>1 DEF memVars, Typed
<1> QED BY <1>1, <1>3, <1>4, MoveKeeps

\* Where a computing warp of a pipeline is, in the terms of the counters.
LEMMA ConsumerCounts ==
  ASSUME Typed, NEW c \in Consumers, Placed(c), Pipelined
  PROVE  /\ ~Setup(c) /\ ~Turned(c) => Done(c) = warp[c].block
         /\ \A o \in OperandSet : o # "q" /\ Passed(c, o) = Done(c)
         /\ Passed(c, "q") = IF WithQuery /\ ~Setup(c) /\ ~At(c, "start") /\ ~At(c, "query")
                                 /\ ~At(c, "fetch") THEN 1 ELSE 0
<1>1. ~Chunks /\ c # Dma
  BY PipeFacts, PipesOK DEF Typed
<1>2. ~At(c, "prefetch") /\ ~Held(c, "prefetch")
  <2>1. InPipeline(c)
    BY <1>1 DEF Placed
  <2>2. ~At(c, "prefetch")
    BY <1>1, <2>1 DEF InPipeline, At
  <2>3. ~Held(c, "prefetch")
    BY <2>1 DEF InPipeline, At, Held
  <2> QED BY <2>2, <2>3
<1>3. "q" \notin OperandSet
  <2>1. pipe \in Pipes
    BY DEF Typed
  <2> QED BY <2>1, OperandFacts
<1>4. c \in Warps /\ warp[c].block \in Nat
  BY Mover, PipeFacts DEF Warps, Typed
<1> QED BY <1>2, <1>3, <1>4 DEF Done, Passed, BlockOf

LEMMA KeepsConsumerStart ==
  ASSUME IInv, NEW c \in Consumers, ConsumerStart(c)
  PROVE  IInv'
<1>1. c \in Warps /\ Typed /\ Placed(c) /\ Parities(c) /\ Pipelined /\ At(c, "start")
  BY DEF Warps, IInv, ConsumerStart
<1>2. Moved(c) /\ UNCHANGED memVars /\ pipe' = pipe
  BY <1>1, MovesConsumer DEF ConsumerStart
<1>3. /\ warp'[c].at = IF pipe.style # "gemm" THEN "query" ELSE "loop"
      /\ warp'[c].block = warp[c].block
  BY <1>1, Mover DEF ConsumerStart, Begin
<1>4. ~Setup(c) /\ ~Turned(c) /\ ~Setup(c)' /\ ~Turned(c)'
  BY <1>1, <1>3 DEF Setup, Turned, Held, At
<1>5. Done(c)' = Done(c)
  BY <1>1, <1>2, <1>3, <1>4, SamePipe DEF Done, BlockOf, At, Held
<1>6. \A o : Passed(c, o)' = Passed(c, o)
  BY <1>1, <1>2, <1>3, <1>4, <1>5, SamePipe DEF Passed, At, WithQuery
<1>7. \A o : ~Has(c, o)'
  BY <1>3 DEF Has, At, Held
<1> QED BY <1>1, <1>2, <1>3, <1>5, <1>6, <1>7, ConsumerQuiet DEF At

LEMMA KeepsWaitQuery ==
  ASSUME IInv, NEW c \in Consumers, WaitQuery(c)
  PROVE  IInv'
<1>1. /\ c \in Warps /\ Typed /\ Placed(c) /\ Parities(c) /\ At(c, "query") /\ c # Dma
      /\ c \in Syncing
  BY PipesOK DEF Warps, IInv, WaitQuery, Syncing
<1>2. Pipelined /\ ~Chunks /\ WithQuery /\ warp[c].block = 0
  BY <1>1, PipeFacts DEF Typed, Placed, InChunks, InPipeline, At
<1>3. Moved(c) /\ UNCHANGED memVars /\ pipe' = pipe
  BY <1>1, MovesConsumer DEF WaitQuery
<1>4. warp'[c].at = "fetch" /\ warp'[c].block = warp[c].block
  BY <1>1, Mover DEF WaitQuery, Goto
<1>5. ~Setup(c) /\ ~Turned(c) /\ ~Setup(c)' /\ ~Turned(c)'
  BY <1>1, <1>4 DEF Setup, Turned, Held, At
<1>6. Done(c)' = Done(c)
  BY <1>1, <1>3, <1>4, <1>5, SamePipe DEF Done, BlockOf, At, Held
<1>7. \A o : Passed(c, o)' = Passed(c, o)
  BY <1>1, <1>3, <1>4, <1>5, <1>6, SamePipe DEF Passed, At
<1>8. There(c, "q")
  <2>1. Streaming
    BY <1>1, <1>5, Live
  <2>2. <<"q", 0>> \in Loads /\ "q" \in AllOperands
    BY DEF Loads, AllOperands
  <2>3. LoadBar("q", 0)
    BY <2>1, <2>2 DEF Streaming
  <2>4. Passed(c, "q") = 0
    BY <1>1 DEF Passed
  <2>5. 0 % pipe.stages = 0 /\ 0 \in Stages /\ Fills(0, 0) = 0
    <3>1. CASE pipe.stages = 1
      BY <3>1 DEF Stages, Fills
    <3>2. CASE pipe.stages = 2
      BY <3>2 DEF Stages, Fills
    <3>3. CASE pipe.stages = 3
      BY <3>3 DEF Stages, Fills
    <3> QED BY <1>1, <3>1, <3>2, <3>3, PipeFacts DEF Typed
  <2>6. TryWaitParity(mbar[<<"q", 0>>], 0)
    BY DEF WaitQuery
  <2>7. 0 = Fills(Passed(c, "q"), 0) % 2 /\ 0 = Passed(c, "q") % pipe.stages
    BY <2>4, <2>5
  <2>8. (\A v \in Warps : Placed(v)) /\ Window /\ InFlight
    BY DEF IInv
  <2> QED BY <1>1, <2>2, <2>3, <2>6, <2>7, <2>8, WaitEnds
<1>9. \A o \in AllOperands : Has(c, o)' => o = "q"
  BY <1>4 DEF Has, At, Held
<1> QED BY <1>1, <1>2, <1>3, <1>4, <1>6, <1>7, <1>8, <1>9, ConsumerQuiet DEF At

LEMMA KeepsFetchQuery ==
  ASSUME IInv, NEW c \in Consumers, FetchQuery(c)
  PROVE  IInv'
<1>1. c \in Warps /\ Typed /\ Placed(c) /\ Parities(c) /\ At(c, "fetch") /\ c # Dma
  BY PipesOK DEF Warps, IInv, FetchQuery
<1>2. Pipelined /\ ~Chunks /\ WithQuery
  BY <1>1, PipeFacts DEF Typed, Placed, InChunks, InPipeline, At
<1>3. Moved(c) /\ UNCHANGED memVars /\ pipe' = pipe
  BY <1>1, MovesConsumer DEF FetchQuery
<1>4. warp'[c].at = "loop" /\ warp'[c].block = warp[c].block
  BY <1>1, Mover DEF FetchQuery, Goto
<1>5. ~Setup(c) /\ ~Turned(c) /\ ~Setup(c)' /\ ~Turned(c)'
  BY <1>1, <1>4 DEF Setup, Turned, Held, At
<1>6. Done(c)' = Done(c)
  BY <1>1, <1>3, <1>4, <1>5, SamePipe DEF Done, BlockOf, At, Held
<1>7. \A o : o # "q" => Passed(c, o)' = Passed(c, o)
  BY <1>6 DEF Passed
<1>8. Passed(c, "q") = 0 /\ Passed(c, "q")' = 1 /\ Has(c, "q")
  <2>1. Passed(c, "q") = 0 /\ Has(c, "q")
    BY <1>1 DEF Passed, Has
  <2>2. Passed(c, "q")' = 1
    BY <1>2, <1>3, <1>4, <1>5, SamePipe DEF Passed, At
  <2> QED BY <2>1, <2>2
<1>9. \A o : ~Has(c, o)'
  BY <1>4 DEF Has, At, Held
<1>10. \A o \in AllOperands :
           \/ Passed(c, o)' = Passed(c, o) /\ (Has(c, o)' => Has(c, o) \/ There(c, o))
           \/ Passed(c, o)' = Passed(c, o) + 1 /\ Has(c, o) /\ ~Has(c, o)'
  BY <1>7, <1>8, <1>9
<1> QED BY <1>1, <1>2, <1>3, <1>4, <1>6, <1>10, ConsumerQuiet DEF At

LEMMA KeepsConsumerLoop ==
  ASSUME IInv, NEW c \in Consumers, ConsumerLoop(c)
  PROVE  IInv'
<1>1. /\ c \in Warps /\ Typed /\ Placed(c) /\ Parities(c) /\ At(c, "loop") /\ Pipelined /\ ~Chunks
      /\ Len(OperandSeq) \in {1, 2} /\ DOMAIN OperandSeq = 1 .. Len(OperandSeq)
  <2>1. c \in Warps /\ Typed /\ Placed(c) /\ Parities(c) /\ At(c, "loop") /\ Pipelined
    BY DEF Warps, IInv, ConsumerLoop
  <2> QED BY <2>1, Mover, PipeFacts
<1>2. Moved(c) /\ UNCHANGED memVars /\ pipe' = pipe
  BY <1>1, MovesConsumer DEF ConsumerLoop
<1>3. warp'[c].at = "wait" /\ warp'[c].block = warp[c].block /\ warp'[c].next = 1
  BY <1>1, Mover DEF ConsumerLoop
<1>4. ~Setup(c) /\ ~Turned(c) /\ ~Setup(c)' /\ ~Turned(c)'
  BY <1>1, <1>3 DEF Setup, Turned, Held, At
<1>5. Done(c)' = Done(c)
  BY <1>1, <1>2, <1>3, <1>4, SamePipe DEF Done, BlockOf, At, Held
<1>6. \A o : Passed(c, o)' = Passed(c, o)
  BY <1>1, <1>2, <1>3, <1>4, <1>5, SamePipe DEF Passed, At
<1>7. \A o : ~Has(c, o)'
  BY <1>1, <1>2, <1>3, SamePipe DEF Has, At, Held
<1> QED BY <1>1, <1>2, <1>3, <1>5, <1>6, <1>7, ConsumerQuiet DEF At

LEMMA KeepsWaitLoad ==
  ASSUME IInv, NEW c \in Consumers, WaitLoad(c)
  PROVE  IInv'
<1>1. /\ c \in Warps /\ Typed /\ Placed(c) /\ Parities(c) /\ At(c, "wait") /\ Pipelined /\ ~Chunks
      /\ Len(OperandSeq) \in {1, 2} /\ DOMAIN OperandSeq = 1 .. Len(OperandSeq) /\ c # Dma
      /\ warp[c].next \in DOMAIN OperandSeq /\ warp[c].block \in Nat /\ c \in Syncing
  <2>1. /\ c \in Warps /\ Typed /\ Placed(c) /\ Parities(c) /\ At(c, "wait") /\ Pipelined
        /\ c # Dma /\ c \in Syncing
    BY PipesOK DEF Warps, IInv, WaitLoad, Syncing
  <2> QED BY <2>1, Mover, PipeFacts
<1>2. Moved(c) /\ UNCHANGED memVars /\ pipe' = pipe
  BY <1>1, MovesConsumer DEF WaitLoad
<1> DEFINE n == warp[c].next
<1>3. /\ warp'[c].block = warp[c].block
      /\ \/ warp'[c].at = "wait" /\ warp'[c].next = n + 1
         \/ warp'[c].at = "read" /\ warp'[c].next = n
  <2>1. warp \in [Warps -> WarpType] /\ warp[c] \in WarpType
    BY <1>1, Mover
  <2>2. CASE pipe.style = "gemm" /\ warp[c].next < Len(OperandSeq)
    <3>1. warp' = [warp EXCEPT ![c].next = @ + 1]
      BY <2>2 DEF WaitLoad
    <3> QED BY <1>1, <2>1, <3>1 DEF WarpType, At
  <2>3. CASE ~(pipe.style = "gemm" /\ warp[c].next < Len(OperandSeq))
    <3>1. warp' = [warp EXCEPT ![c].at = "read"]
      BY <2>3 DEF WaitLoad, Goto
    <3> QED BY <1>1, <2>1, <3>1 DEF WarpType
  <2> QED BY <2>2, <2>3
<1>4. ~Setup(c) /\ ~Turned(c) /\ ~Setup(c)' /\ ~Turned(c)'
  BY <1>1, <1>3 DEF Setup, Turned, Held, At
<1>5. Done(c)' = Done(c)
  BY <1>1, <1>2, <1>3, <1>4, SamePipe DEF Done, BlockOf, At, Held
<1>6. \A o : Passed(c, o)' = Passed(c, o)
  BY <1>1, <1>2, <1>3, <1>4, <1>5, SamePipe DEF Passed, At
<1>7. There(c, Operand(c))
  <2> DEFINE o == Operand(c)
             s == Stage(c)
  <2>1. Streaming /\ (\A v \in Warps : Placed(v)) /\ Window /\ InFlight
    BY <1>1, <1>4, Live DEF IInv
  <2>2. s \in Stages
    BY <1>1, StageOf DEF Typed, Stage
  <2>3. o \in OperandSet
    BY <1>1 DEF OperandSet, Operand
  <2>4. <<o, s>> \in Loads /\ o \in AllOperands
    BY <2>2, <2>3 DEF Loads, AllOperands
  <2>5. LoadBar(o, s)
    <3>1. LoadBar(<<o, s>>[1], <<o, s>>[2])
      BY <2>1, <2>4 DEF Streaming
    <3> QED BY <3>1
  <2>6. Passed(c, o) = warp[c].block
    BY <1>1, <1>4, <2>3, ConsumerCounts
  <2>7. warp[c].parity[s] = Fills(warp[c].block, s) % 2
    <3>1. warp[c].parity[s] = ParityOf(c, s)
      BY <1>1, <2>2 DEF Parities, At
    <3>2. Counted(c) = warp[c].block
      BY <1>1 DEF Counted, At, Held
    <3> QED BY <3>1, <3>2 DEF ParityOf
  <2>8. TryWaitParity(mbar[<<o, s>>], warp[c].parity[s])
    BY DEF WaitLoad
  <2>9. s = Passed(c, o) % pipe.stages /\ warp[c].parity[s] = Fills(Passed(c, o), s) % 2
    BY <2>6, <2>7 DEF Stage
  <2> HIDE DEF o, s
  <2>10. There(c, o)
    BY <1>1, <2>1, <2>4, <2>5, <2>8, <2>9, WaitEnds
  <2> QED BY <2>10 DEF o
<1>8. ASSUME NEW o, Has(c, o)' PROVE Has(c, o) \/ There(c, o)
  <2>1. PICK i \in DOMAIN OperandSeq : OperandSeq[i] = o /\ i <= n
    <3>1. ~At(c, "fetch")' /\ ~At(c, "bar128")' /\ ~At(c, "multiply")'
      BY <1>3 DEF At
    <3>2. \E i \in DOMAIN OperandSeq :
            /\ OperandSeq[i] = o
            /\ \/ At(c, "wait")' /\ i < warp'[c].next
               \/ At(c, "read")' /\ i <= warp'[c].next
      BY <1>1, <1>2, <1>8, <3>1, SamePipe DEF Has
    <3> QED BY <1>1, <1>3, <3>2 DEF At
  <2>2. CASE i = n
    BY <1>7, <2>1, <2>2 DEF Operand
  <2>3. CASE i < n
    BY <1>1, <2>1, <2>3 DEF Has
  <2> QED BY <1>1, <2>1, <2>2, <2>3
<1>9. ~At(c, "init") /\ ~At(c, "init")' /\ ~At(c, "bar128")' /\ ~At(c, "multiply")'
  BY <1>1, <1>3 DEF At
<1>10. \A o \in AllOperands : Passed(c, o)' = Passed(c, o) /\ (Has(c, o)' => Has(c, o) \/ There(c, o))
  BY <1>6, <1>8
<1> QED BY <1>1, <1>2, <1>5, <1>9, <1>10, ConsumerQuiet

LEMMA KeepsReadFirst ==
  ASSUME IInv, NEW c \in Consumers, ReadFirst(c)
  PROVE  IInv'
<1>1. /\ c \in Warps /\ Typed /\ Placed(c) /\ Parities(c) /\ At(c, "read") /\ Pipelined /\ ~Chunks
      /\ Len(OperandSeq) \in {1, 2} /\ DOMAIN OperandSeq = 1 .. Len(OperandSeq)
      /\ warp[c].next \in DOMAIN OperandSeq
  <2>1. c \in Warps /\ Typed /\ Placed(c) /\ Parities(c) /\ At(c, "read") /\ Pipelined
    BY DEF Warps, IInv, ReadFirst
  <2> QED BY <2>1, Mover, PipeFacts
<1>2. Moved(c) /\ UNCHANGED memVars /\ pipe' = pipe
  BY <1>1, MovesConsumer DEF ReadFirst
<1>3. /\ warp'[c].block = warp[c].block /\ warp'[c].at = "wait" /\ warp'[c].next = warp[c].next + 1
  BY <1>1, Mover DEF ReadFirst
<1>4. ~Setup(c) /\ ~Turned(c) /\ ~Setup(c)' /\ ~Turned(c)'
  BY <1>1, <1>3 DEF Setup, Turned, Held, At
<1>5. Done(c)' = Done(c)
  BY <1>1, <1>2, <1>3, <1>4, SamePipe DEF Done, BlockOf, At, Held
<1>6. \A o : Passed(c, o)' = Passed(c, o)
  BY <1>1, <1>2, <1>3, <1>4, <1>5, SamePipe DEF Passed, At
<1>7. ASSUME NEW o, Has(c, o)' PROVE Has(c, o)
  <2>1. ~At(c, "fetch")' /\ ~At(c, "bar128")' /\ ~At(c, "multiply")' /\ ~At(c, "read")'
    BY <1>3 DEF At
  <2>2. PICK i \in DOMAIN OperandSeq : OperandSeq[i] = o /\ i < warp'[c].next
    BY <1>1, <1>2, <1>7, <2>1, SamePipe DEF Has
  <2>3. i <= warp[c].next
    BY <1>1, <1>3, <2>2
  <2> QED BY <1>1, <2>2, <2>3 DEF Has
<1>8. ~At(c, "init") /\ ~At(c, "init")' /\ ~At(c, "bar128")' /\ ~At(c, "multiply")'
  BY <1>1, <1>3 DEF At
<1> QED BY <1>1, <1>2, <1>5, <1>6, <1>7, <1>8, ConsumerQuiet

LEMMA TileDoneWarp ==
  ASSUME Typed, NEW w \in Warps, TileDone(w)
  PROVE  \/ /\ warp'[w].at = "bar" /\ warp'[w].to = "init" /\ warp'[w].block = 0
            /\ Blocks = DmaIssues
         \/ warp'[w].at = "exit" /\ warp'[w].block = warp[w].block
<1>1. warp \in [Warps -> WarpType] /\ warp[w] \in WarpType
  BY Mover
<1>2. CASE warp[w].tile + 1 < pipe.tiles
  <2>1. warp' = [warp EXCEPT ![w].at = "bar", ![w].to = "init", ![w].tile = @ + 1, ![w].block = 0]
    BY <1>2 DEF TileDone, TileDoneTo
  <2>2. Blocks = DmaIssues
    <3>1. warp[w].tile \in Nat /\ pipe.tiles \in Nat
      BY Mover
    <3> QED BY <1>2, <3>1, PipeFacts DEF Typed
  <2> QED BY <1>1, <2>1, <2>2 DEF WarpType
<1>3. CASE ~(warp[w].tile + 1 < pipe.tiles)
  <2>1. warp' = [warp EXCEPT ![w].at = "exit"]
    BY <1>3 DEF TileDone, TileDoneTo, Goto
  <2> QED BY <1>1, <2>1 DEF WarpType
<1> QED BY <1>2, <1>3

LEMMA KeepsTileDoneConsumer ==
  ASSUME IInv, NEW c \in Consumers, TileDone(c)
  PROVE  IInv'
<1>1. /\ c \in Warps /\ Typed /\ Placed(c) /\ Parities(c) /\ At(c, "loop") /\ Pipelined
      /\ c # Dma /\ warp[c].block = Blocks /\ UNCHANGED <<pipe, memVars>>
  <2>1. /\ c \in Warps /\ Typed /\ Placed(c) /\ Parities(c) /\ At(c, "loop") /\ Pipelined
        /\ c # Dma /\ UNCHANGED <<pipe, memVars>>
    BY PipesOK DEF Warps, IInv, TileDone, TileDoneTo
  <2>2. warp[c].block \in 0 .. Blocks /\ Blocks \in Nat
    BY <2>1, Mover
  <2>3. warp[c].block >= Blocks
    BY <2>1 DEF TileDone, TileDoneTo
  <2> QED BY <2>1, <2>2, <2>3
<1>2. Moved(c)
  BY <1>1, MovesTileDone
<1>3. \/ warp'[c].at = "bar" /\ warp'[c].to = "init" /\ warp'[c].block = 0
      \/ warp'[c].at = "exit" /\ warp'[c].block = Blocks
  BY <1>1, TileDoneWarp
<1>4. BlockOf(c) = Blocks /\ BlockOf(c)' = Blocks /\ ~Setup(c) /\ ~Setup(c)'
  BY <1>1, <1>3, SamePipe DEF BlockOf, Setup, Turned, Held, At
<1>5. Done(c)' = Done(c)
  BY <1>1, <1>3, <1>4 DEF Done, At, Held
<1>6. \A o : Passed(c, o)' = Passed(c, o)
  BY <1>1, <1>3, <1>4, <1>5, SamePipe DEF Passed, At
<1>7. \A o : ~Has(c, o)'
  BY <1>3 DEF Has, At, Held
<1> QED BY <1>1, <1>2, <1>3, <1>5, <1>6, <1>7, ConsumerQuiet DEF At

LEMMA KeepsTranspose ==
  ASSUME IInv, NEW c \in Consumers, Transpose(c)
  PROVE  IInv'
<1>1. /\ c \in Warps /\ Typed /\ (\A v \in Warps : Placed(v)) /\ Parities(c) /\ At(c, "read")
      /\ pipe.style = "transpose" /\ Pipelined /\ ~Chunks /\ c # Dma /\ Dma \in Warps
      /\ pipe \in Pipes /\ Consumers \subseteq Warps
  BY PipesOK DEF Warps, IInv, Transpose, Pipelined, Chunks, Typed
<1>2. Moved(c)
  BY <1>1, MovesConsumer
<1>3. /\ mbar' = mbar /\ flight' = flight /\ smem' = smem /\ issued' = issued /\ bcast' = bcast
      /\ pipe' = pipe /\ vt' = [vt EXCEPT ![<<Stage(c), c>>] = Number(c)]
      /\ \A v \in Warps : v # c => warp'[v] = warp[v]
  BY <1>2 DEF Transpose, Moved
<1>4. /\ warp'[c].at = "bar128" /\ warp'[c].block = warp[c].block /\ warp'[c].tile = warp[c].tile
      /\ warp[c].next = Len(OperandSeq) /\ warp'[c].next = warp[c].next
      /\ warp[c].block \in Nat /\ warp[c].tile \in Nat
  BY <1>1, Mover DEF Transpose, Goto
<1>5. ~Setup(c) /\ ~Turned(c) /\ ~Setup(c)' /\ ~Turned(c)'
  BY <1>1, <1>4 DEF Setup, Turned, Held, At
<1>6. Done(c)' = Done(c)
  BY <1>1, <1>3, <1>4, <1>5, SamePipe DEF Done, BlockOf, At, Held
<1>7. \A o : Passed(c, o)' = Passed(c, o)
  BY <1>1, <1>3, <1>4, <1>5, <1>6, SamePipe DEF Passed, At
<1>8. OperandSeq = <<"k", "v">> /\ DOMAIN OperandSeq = 1 .. 2 /\ Len(OperandSeq) = 2
  BY <1>1, OperandFacts DEF WithQuery
<1>9. \A o : Has(c, o)' => Has(c, o)
  <2> SUFFICES ASSUME NEW o, Has(c, o)' PROVE Has(c, o)
    OBVIOUS
  <2>1. PICK i \in DOMAIN OperandSeq : OperandSeq[i] = o
    BY <1>3, <1>4, SamePipe DEF Has, At
  <2> QED BY <1>1, <1>4, <1>8, <2>1 DEF Has
<1>10. Stage(c) \in Stages /\ Number(c) \in Nat
  <2>1. Blocks \in Nat
    BY <1>1, PipeFacts
  <2> QED BY <1>1, <1>4, <2>1, StageOf DEF Stage, Number
<1>11. \A o \in AllOperands : Loaded(o)' = Loaded(o)
  BY <1>1, <1>3, LoadedKept
<1>12. Transposed'
  <2> SUFFICES ASSUME NEW d \in Consumers
               PROVE  /\ At(d, "bar128")' => vt'[<<Stage(d), d>>'] = Number(d)'
                      /\ At(d, "multiply")' => \A e \in Consumers : vt'[<<Stage(d), e>>'] = Number(d)'
    BY DEF Transposed
  <2>1. vt \in [Stages \X Consumers -> Nat \cup {Nothing}]
    BY <1>1 DEF Typed
  <2>2. CASE d = c
    <3>1. Stage(d)' = Stage(c) /\ Number(d)' = Number(c) /\ ~At(d, "multiply")'
      BY <1>3, <1>4, <2>2, SamePipe DEF Stage, Number, At
    <3>2. vt'[<<Stage(c), c>>] = Number(c)
      BY <1>3, <1>10, <2>1
    <3> QED BY <2>2, <3>1, <3>2
  <2>3. CASE d # c
    <3>1. /\ Stage(d)' = Stage(d) /\ Number(d)' = Number(d) /\ d \in Warps
          /\ (At(d, "bar128")' <=> At(d, "bar128")) /\ (At(d, "multiply")' <=> At(d, "multiply"))
      BY <1>1, <1>3, <2>3, SamePipe DEF Stage, Number, At
    <3>2. Transposed
      BY DEF IInv
    <3>3. ASSUME At(d, "bar128")
          PROVE  vt'[<<Stage(d), d>>] = Number(d)
      <4>1. vt[<<Stage(d), d>>] = Number(d)
        BY <1>1, <3>2, <3>3 DEF Transposed
      <4>2. Stage(d) \in Stages
        BY <1>1, <3>1, Mover, StageOf DEF Stage
      <4> QED BY <1>3, <2>1, <2>3, <4>1, <4>2
    <3>4. ASSUME At(d, "multiply"), NEW e \in Consumers
          PROVE  vt'[<<Stage(d), e>>] = Number(d)
      <4>1. vt[<<Stage(d), e>>] = Number(d)
        BY <1>1, <3>2, <3>4 DEF Transposed
      <4>2. warp[c].block = warp[d].block + 1 /\ warp[d].block \in Nat
        <5>1. Shared(c) = Shared(d)
          BY <1>1 DEF IInv, InStep
        <5>2. ~Turned(d) /\ ~At(c, "multiply") /\ ~Turned(c)
          BY <1>1, <1>5, <3>4 DEF Turned, Held, At
        <5>3. warp[d].block \in Nat
          BY <1>1, <3>1, Mover
        <5> QED BY <1>4, <3>4, <5>1, <5>2, <5>3 DEF Shared, BlockOf
      <4>3. warp[d].block + 1 < warp[d].block + pipe.stages
        <5>1. Has(c, "v") /\ "v" \in AllOperands /\ "v" # "q" /\ "v" \in OperandSet
          BY <1>1, <1>4, <1>8 DEF Has, AllOperands, OperandSet
        <5>2. Passed(c, "v") < Loaded("v")
          BY <5>1 DEF IInv, Granted, There
        <5>3. Loaded("v") <= Passed(d, "v") + pipe.stages
          BY <5>1 DEF IInv, Window
        <5>4. Passed(c, "v") = warp[c].block
          BY <1>1, <1>5, <5>1, ConsumerCounts
        <5>5. Passed(d, "v") = warp[d].block
          <6>1. ~Setup(d) /\ ~Turned(d)
            BY <3>4 DEF Setup, Turned, Held, At
          <6> QED BY <1>1, <3>1, <5>1, <6>1, ConsumerCounts
        <5>6. Loaded("v") \in Nat /\ pipe.stages \in Nat
          BY <1>1, Counts, PipeFacts
        <5> QED BY <4>2, <5>2, <5>3, <5>4, <5>5, <5>6
      <4>4. Stage(c) # Stage(d)
        <5> DEFINE b == warp[d].block
        <5>1. b \in Nat /\ warp[c].block = b + 1
          BY <4>2
        <5> HIDE DEF b
        <5>2. CASE pipe.stages = 1
          BY <4>2, <4>3, <5>2
        <5>3. CASE pipe.stages = 2
          <6>1. (b + 1) % 2 # b % 2
            BY <5>1
          <6> QED BY <5>1, <5>3, <6>1 DEF Stage, b
        <5>4. CASE pipe.stages = 3
          <6>1. (b + 1) % 3 # b % 3
            BY <5>1
          <6> QED BY <5>1, <5>4, <6>1 DEF Stage, b
        <5> QED BY <1>1, <5>2, <5>3, <5>4, PipeFacts
      <4>5. Stage(d) \in Stages
        BY <1>1, <4>2, StageOf DEF Stage
      <4> QED BY <1>3, <2>1, <4>1, <4>4, <4>5
    <3> QED BY <3>1, <3>3, <3>4
  <2> QED BY <2>2, <2>3
<1>13. vt' \in [Stages \X Consumers -> Nat \cup {Nothing}]
  BY <1>1, <1>3, <1>10 DEF Typed
<1>14. c # Leader \/ ~At(c, "init")
  BY <1>1 DEF At
<1>15. /\ ~At(c, "init")' /\ (c = Leader => ~At(c, "init"))
       /\ bcast' \in Nat \cup {Nothing, Sums}
  BY <1>1, <1>3, <1>4 DEF At, Typed
<1> QED BY <1>1, <1>2, <1>3, <1>6, <1>7, <1>9, <1>11, <1>12, <1>13, <1>15, MoveKeeps

-----------------------------------------------------------------------------
(* The quiet steps of the loading warp.                                    *)

LEMMA DmaQuiet ==
  ASSUME IInv, Pipelined, Moved(Dma), UNCHANGED memVars, ~At(Dma, "init")',
         \A o \in AllOperands : Loaded(o)' = Loaded(o), Ahead'
  PROVE  IInv'
<1>1. /\ Dma \in Warps /\ Dma \notin Consumers /\ Dma # Leader /\ ~Chunks /\ Typed
      /\ pipe.stages \in Nat
  BY PipesOK, PipeFacts DEF Warps, IInv, Typed
<1>2. /\ mbar' = mbar /\ flight' = flight /\ smem' = smem /\ issued' = issued /\ vt' = vt
      /\ vt' \in [Stages \X Consumers -> Nat \cup {Nothing}]
      /\ bcast' \in Nat \cup {Nothing, Sums}
  BY <1>1 DEF memVars, Typed
<1>3. pipe.style = "transpose" => ~At(Dma, "bar128")' /\ ~At(Dma, "multiply")'
  <2>1. Placed(Dma)' /\ pipe' = pipe
    BY DEF Moved
  <2>2. InPipeline(Dma)'
    BY <1>1, <2>1, SamePipe DEF Placed
  <2> QED BY <2>2 DEF InPipeline, At
<1> QED BY <1>1, <1>2, <1>3, MoveKeeps

LEMMA KeepsTileDoneDma ==
  ASSUME IInv, TileDone(Dma)
  PROVE  IInv'
<1>1. /\ Dma \in Warps /\ Typed /\ Placed(Dma) /\ Parities(Dma) /\ At(Dma, "loop") /\ Pipelined
      /\ warp[Dma].block = DmaIssues /\ UNCHANGED <<pipe, memVars>>
  <2>1. /\ Dma \in Warps /\ Typed /\ Placed(Dma) /\ Parities(Dma) /\ At(Dma, "loop") /\ Pipelined
        /\ UNCHANGED <<pipe, memVars>> /\ pipe \in Pipes
    BY DEF Warps, IInv, TileDone, TileDoneTo, Typed
  <2>2. warp[Dma].block \in 0 .. DmaIssues /\ DmaIssues \in Nat
    BY <2>1, Mover, PipeFacts
  <2>3. warp[Dma].block >= DmaIssues
    BY <2>1 DEF TileDone, TileDoneTo
  <2> QED BY <2>1, <2>2, <2>3
<1>2. Moved(Dma)
  BY <1>1, MovesTileDone
<1>3. \/ /\ warp'[Dma].at = "bar" /\ warp'[Dma].to = "init" /\ warp'[Dma].block = 0
         /\ Blocks = DmaIssues
      \/ warp'[Dma].at = "exit" /\ warp'[Dma].block = DmaIssues
  BY <1>1, TileDoneWarp
<1>4. BlockOf(Dma) = DmaIssues /\ BlockOf(Dma)' = DmaIssues /\ ~Setup(Dma) /\ ~Setup(Dma)'
  BY <1>1, <1>3, SamePipe DEF BlockOf, Setup, Turned, Held, At
<1>5. ~At(Dma, "load") /\ ~At(Dma, "load")' /\ ~At(Dma, "start") /\ ~At(Dma, "start")' /\ ~At(Dma, "init")'
  BY <1>1, <1>3 DEF At
<1>6. \A o \in AllOperands : Loaded(o)' = Loaded(o)
  BY <1>1, <1>4, <1>5, SamePipe DEF Loaded
<1>7. Ahead'
  BY <1>5 DEF Ahead
<1> QED BY <1>1, <1>2, <1>5, <1>6, <1>7, DmaQuiet

LEMMA KeepsDmaStartGemm ==
  ASSUME IInv, DmaStart, pipe.style = "gemm"
  PROVE  IInv'
<1>1. /\ Dma \in Warps /\ Typed /\ Placed(Dma) /\ Parities(Dma) /\ At(Dma, "start") /\ Pipelined
      /\ UNCHANGED <<pipe, memVars>> /\ ~WithQuery
  BY DEF Warps, IInv, DmaStart, WithQuery
<1>2. Moved(Dma)
  BY <1>1, MovesDma
<1>3. warp'[Dma].at = "loop" /\ warp'[Dma].block = warp[Dma].block
  BY <1>1, Mover DEF DmaStart, Begin
<1>4. /\ ~Turned(Dma) /\ ~Turned(Dma)'
      /\ ~At(Dma, "load") /\ ~At(Dma, "load")' /\ ~At(Dma, "init")'
  BY <1>1, <1>3 DEF Turned, Held, At
<1>5. BlockOf(Dma)' = BlockOf(Dma)
  BY <1>3, <1>4 DEF BlockOf
<1>6. \A o \in AllOperands : Loaded(o)' = Loaded(o)
  BY <1>1, <1>4, <1>5, SamePipe DEF Loaded
<1>7. Ahead'
  BY <1>4 DEF Ahead
<1> QED BY <1>1, <1>2, <1>4, <1>6, <1>7, DmaQuiet

LEMMA KeepsDmaLoop ==
  ASSUME IInv, DmaLoop
  PROVE  IInv'
<1>1. /\ Dma \in Warps /\ Typed /\ (\A v \in Warps : Placed(v)) /\ Parities(Dma) /\ At(Dma, "loop")
      /\ UNCHANGED <<pipe, memVars>> /\ pipe \in Pipes /\ Consumers \subseteq Warps
  BY DEF Warps, IInv, DmaLoop, Typed
<1>2. Pipelined /\ pipe.stages \in Nat
  BY <1>1, PipeFacts DEF Placed, InChunks, At
<1>3. Moved(Dma)
  BY <1>1, MovesDma
<1>4. /\ warp'[Dma].at = IF warp[Dma].block < pipe.stages THEN "load" ELSE "wait"
      /\ warp'[Dma].block = warp[Dma].block /\ warp'[Dma].next = 1 /\ warp[Dma].block \in Nat
  <2>1. warp \in [Warps -> WarpType] /\ warp[Dma].block \in Nat
    BY <1>1, Mover
  <2> QED BY <1>1, <2>1 DEF DmaLoop, WarpType
<1>5. /\ ~Setup(Dma) /\ ~Setup(Dma)' /\ ~Turned(Dma) /\ ~Turned(Dma)' /\ ~At(Dma, "load")
      /\ ~At(Dma, "start") /\ ~At(Dma, "start")' /\ ~At(Dma, "init")'
  BY <1>1, <1>4 DEF Setup, Turned, Held, At
<1>6. BlockOf(Dma)' = BlockOf(Dma)
  BY <1>4, <1>5 DEF BlockOf
<1>7. \A o \in AllOperands : Loaded(o)' = Loaded(o)
  <2>1. 1 .. warp'[Dma].next - 1 = {}
    BY <1>4
  <2> QED BY <1>1, <1>2, <1>5, <1>6, <2>1, SamePipe DEF Loaded
<1>8. Ahead'
  <2> SUFFICES ASSUME At(Dma, "load")', NEW c \in Consumers
               PROVE  warp'[Dma].block < (Done(c) + pipe.stages)'
    BY DEF Ahead
  <2>1. warp[Dma].block < pipe.stages
    BY <1>4 DEF At
  <2>2. Done(c)' = Done(c) /\ Done(c) \in Nat
    <3>1. c # Dma
      BY PipesOK
    <3> QED BY <1>1, <1>3, <3>1, Counts, SameWarp DEF Moved
  <2> QED BY <1>1, <1>2, <1>4, <2>1, <2>2
<1> QED BY <1>1, <1>2, <1>3, <1>5, <1>7, <1>8, DmaQuiet

\* The loading warp waits with nothing under its hand, and nobody is past it.
LEMMA DmaWaiting ==
  ASSUME IInv, At(Dma, "wait"), NEW n, n = warp[Dma].block
  PROVE  /\ n \in Nat /\ Stage(Dma) \in Stages /\ n % pipe.stages = Stage(Dma)
         /\ pipe.stages <= n /\ pipe.stages \in Nat /\ Pipelined /\ ~Chunks
         /\ warp[Dma].next = 1 /\ DoneBar(Stage(Dma))
         /\ \A d \in Consumers : Done(d) <= n /\ n <= Done(d) + pipe.stages
<1>1. /\ Dma \in Warps /\ Typed /\ (\A v \in Warps : Placed(v)) /\ pipe \in Pipes
      /\ Consumers \subseteq Warps /\ Dma \notin Consumers
  BY PipesOK DEF Warps, IInv, Typed
<1>2. Pipelined /\ ~Chunks /\ pipe.stages \in Nat /\ warp[Dma].next = 1 /\ pipe.stages <= n
  <2>1. Pipelined /\ ~Chunks /\ pipe.stages \in Nat
    BY <1>1, PipeFacts DEF Placed, InChunks, At
  <2>2. InPipeline(Dma)
    BY <1>1, <2>1 DEF Placed
  <2> QED BY <1>1, <2>1, <2>2 DEF InPipeline
<1>3. n \in Nat
  BY <1>1, Mover
<1>4. Stage(Dma) \in Stages /\ n % pipe.stages = Stage(Dma)
  BY <1>1, <1>3, StageOf DEF Stage
<1>5. ~Setup(Dma) /\ ~Turned(Dma) /\ ~At(Dma, "load")
  BY DEF Setup, Turned, Held, At
<1>6. DoneBar(Stage(Dma))
  <2>1. Dma \in Syncing
    BY <1>1, <1>2 DEF Syncing
  <2>2. Streaming
    BY <1>5, <2>1, Live
  <2> QED BY <1>2, <1>4, <2>2 DEF Streaming
<1>7. ASSUME NEW d \in Consumers PROVE Done(d) <= n /\ n <= Done(d) + pipe.stages
  <2>1. PICK o : o \in OperandSet
    BY <1>1, OperandFacts
  <2>2. Passed(d, o) = Done(d) /\ o # "q"
    BY <1>1, <1>2, <2>1, ConsumerCounts
  <2>3. Loaded(o) = n
    <3>1. BlockOf(Dma) + 0 = n
      BY <1>3, <1>5 DEF BlockOf
    <3> QED BY <1>2, <1>5, <2>2, <3>1 DEF Loaded
  <2>4. Passed(d, o) <= Loaded(o) /\ Loaded(o) <= Passed(d, o) + pipe.stages
    BY <2>1 DEF IInv, Window, AllOperands
  <2> QED BY <2>2, <2>3, <2>4
<1> QED BY <1>2, <1>3, <1>4, <1>6, <1>7

LEMMA KeepsDmaWaitDone ==
  ASSUME IInv, DmaWaitDone
  PROVE  IInv'
<1>1. /\ Dma \in Warps /\ Typed /\ (\A v \in Warps : Placed(v)) /\ Parities(Dma) /\ At(Dma, "wait")
      /\ UNCHANGED <<pipe, memVars>> /\ pipe \in Pipes /\ Consumers \subseteq Warps
      /\ Dma \notin Consumers
  BY PipesOK DEF Warps, IInv, DmaWaitDone, Typed
<1>2. Pipelined /\ ~Chunks /\ pipe.stages \in Nat /\ warp[Dma].next = 1 /\ pipe.stages <= warp[Dma].block
  BY <1>1, DmaWaiting
<1>3. Moved(Dma)
  BY <1>1, MovesDma
<1>4. /\ warp'[Dma].at = "load"
      /\ warp'[Dma].block = warp[Dma].block /\ warp'[Dma].next = 1 /\ warp[Dma].block \in Nat
  <2>1. warp \in [Warps -> WarpType] /\ warp[Dma].block \in Nat
    BY <1>1, Mover
  <2> QED BY <1>1, <1>2, <2>1 DEF DmaWaitDone, WarpType
<1>5. /\ ~Setup(Dma) /\ ~Setup(Dma)' /\ ~Turned(Dma) /\ ~Turned(Dma)' /\ ~At(Dma, "load")
      /\ ~At(Dma, "start") /\ ~At(Dma, "start")' /\ ~At(Dma, "init")'
  BY <1>1, <1>4 DEF Setup, Turned, Held, At
<1>6. BlockOf(Dma)' = BlockOf(Dma) /\ BlockOf(Dma) = warp[Dma].block
  BY <1>4, <1>5 DEF BlockOf
<1>7. \A o \in AllOperands : Loaded(o)' = Loaded(o)
  <2>1. 1 .. warp'[Dma].next - 1 = {}
    BY <1>4
  <2> QED BY <1>1, <1>2, <1>5, <1>6, <2>1, SamePipe DEF Loaded
<1>8. Ahead'
  <2> SUFFICES ASSUME NEW c \in Consumers
               PROVE  warp'[Dma].block < (Done(c) + pipe.stages)'
    BY DEF Ahead
  <2> DEFINE n == warp[Dma].block
             s == Stage(Dma)
  <2>1. n \in Nat /\ s \in Stages /\ n % pipe.stages = s
    BY <1>1, <1>4, StageOf DEF Stage
  <2>3. DoneBar(s)
    BY <1>1, DmaWaiting
  <2>4. \A d \in Consumers : Done(d) <= n /\ n <= Done(d) + pipe.stages
    BY <1>1, DmaWaiting
  <2>5. warp[Dma].parity[s] = (Fills(n, s) + 1) % 2
    <3>1. Counted(Dma) = n
      <4>1. n + 0 = n
        BY <2>1
      <4> QED BY <1>2, <1>5, <4>1 DEF Counted
    <3>2. warp[Dma].parity[s] = ParityOf(Dma, s)
      BY <1>1, <1>2, <2>1 DEF Parities, At
    <3>3. Fills(n, s) # 0
      <4>1. Fills(n, s) <= Fills(0, s) => n < 0 + pipe.stages
        BY <1>1, <2>1, FillsOrder
      <4>2. Fills(0, s) = 0 /\ Fills(n, s) \in Nat
        BY <1>1, <2>1, FillsFacts
      <4> QED BY <1>2, <2>1, <4>1, <4>2
    <3> QED BY <1>1, <3>1, <3>2, <3>3 DEF ParityOf
  <2>6. TryWaitParity(mbar[<<"done", s>>], warp[Dma].parity[s])
    BY DEF DmaWaitDone
  <2> HIDE DEF n, s
  <2>7. n < Done(c) + pipe.stages
    BY <1>1, <2>1, <2>3, <2>4, <2>5, <2>6, DoneWaitEnds
  <2>8. Done(c)' = Done(c)
    <3>1. c # Dma
      BY PipesOK
    <3> QED BY <1>1, <1>3, <3>1, SameWarp DEF Moved
  <2> QED BY <1>1, <1>4, <2>7, <2>8 DEF n
<1> QED BY <1>1, <1>2, <1>3, <1>5, <1>7, <1>8, DmaQuiet

-----------------------------------------------------------------------------
(* The quiet steps of a warp of the chunk loop.                            *)

\* What a chunk kernel's warp has read and holds.
LEMMA ChunkCounts ==
  ASSUME Typed, NEW c \in Consumers, Placed(c), Chunks
  PROVE  /\ c \in Warps /\ c # Dma /\ c \in Syncing /\ ~Pipelined /\ ~WithQuery
         /\ pipe.stages = 2 /\ pipe \in Pipes
         /\ ~Turned(c) /\ warp[c].tile = 0 /\ warp[c].block \in Nat /\ Number(c) = warp[c].block
         /\ BlockOf(c) = warp[c].block
         /\ \A o : o # "q" => Passed(c, o) = Done(c)
         /\ Passed(c, "q") = 0
         /\ OperandSeq = <<"kv">> /\ OperandSet = {"kv"} /\ Operand(c) = "kv"
         /\ AllOperands = {"kv", "q"}
<1>1. /\ c \in Warps /\ c # Dma /\ c \in Syncing /\ ~Pipelined /\ ~WithQuery
      /\ pipe.stages = 2 /\ pipe \in Pipes
  BY PipeFacts, PipesOK DEF Typed, Warps, Syncing, Chunks, WithQuery
<1>2. InChunks(c)
  BY DEF Placed
<1>3. ~Turned(c) /\ warp[c].tile = 0
  BY <1>1, <1>2 DEF InChunks, Turned, Held, At
<1>4. /\ warp[c].block \in Nat /\ Blocks \in Nat
      /\ warp[c].next \in DOMAIN OperandSeq
  BY <1>1, Mover
<1>5. Number(c) = warp[c].block /\ BlockOf(c) = warp[c].block
  <2>1. 0 * Blocks = 0
    BY <1>4
  <2> QED BY <1>3, <1>4, <2>1 DEF Number, BlockOf
<1>6. (\A o : o # "q" => Passed(c, o) = Done(c)) /\ Passed(c, "q") = 0
  BY <1>1 DEF Passed
<1>7. OperandSeq = <<"kv">> /\ OperandSet = {"kv"} /\ Operand(c) = "kv" /\ AllOperands = {"kv", "q"}
  <2>1. OperandSeq = <<"kv">> /\ OperandSet = {"kv"}
    BY <1>1, OperandFacts
  <2>2. warp[c].next = 1
    BY <1>4, <2>1
  <2> QED BY <2>1, <2>2 DEF Operand, AllOperands
<1> QED BY <1>1, <1>3, <1>4, <1>5, <1>6, <1>7

\* The warp has its block's operand in hand.
Holding(c) == At(c, "score") \/ Held(c, "read") \/ At(c, "read")

LEMMA ChunkHas ==
  ASSUME Typed, NEW c \in Consumers, Placed(c), Chunks, NEW o
  PROVE  Has(c, o) <=> o = "kv" /\ Holding(c)
<1>1. /\ OperandSeq = <<"kv">> /\ ~Pipelined
      /\ ~At(c, "fetch") /\ ~At(c, "bar128") /\ ~At(c, "multiply")
  <2>1. InChunks(c) /\ c # Dma
    BY ChunkCounts DEF Placed
  <2> QED BY <2>1, ChunkCounts DEF InChunks, At
<1>2. DOMAIN OperandSeq = {1} /\ OperandSeq[1] = "kv"
  BY <1>1
<1> QED BY <1>1, <1>2 DEF Has, Holding

LEMMA ChunkQuiet ==
  ASSUME IInv, NEW c \in Consumers, Chunks, Moved(c),
         mbar' = mbar, flight' = flight, smem' = smem, vt' = vt, issued' = issued,
         bcast' \in Nat \cup {Nothing, Sums}, ~At(c, "init")', ~At(c, "init"),
         c = Leader => Handed' /\ Loaded("kv")' = Loaded("kv"),
         c # Leader => bcast' = bcast,
         \/ Done(c)' = Done(c) /\ (Holding(c)' => Holding(c) \/ There(c, "kv"))
         \/ Done(c)' = Done(c) + 1 /\ Holding(c) /\ ~Holding(c)'
  PROVE  IInv'
<1>1. /\ Typed /\ Placed(c) /\ Leader \in Consumers /\ Leader \in Warps /\ pipe' = pipe
      /\ Placed(c)' /\ warp' = [v \in Warps |-> warp'[v]]
      /\ \A v \in Warps : v # c => warp'[v] = warp[v]
  BY PipesOK DEF IInv, Moved, Warps
<1>2. /\ c \in Warps /\ c # Dma /\ ~Pipelined /\ ~WithQuery /\ AllOperands = {"kv", "q"}
      /\ \A o : o # "q" => Passed(c, o) = Done(c)
      /\ \A o : Has(c, o) <=> o = "kv" /\ Holding(c)
  BY <1>1, ChunkCounts, ChunkHas
<1>3. \A o : /\ o # "q" => Passed(c, o)' = Done(c)'
             /\ Passed(c, "q")' = 0 /\ Passed(c, "q") = 0
  BY <1>1, <1>2, SamePipe DEF Passed
<1>4. \A o : Has(c, o)' <=> o = "kv" /\ Holding(c)'
  <2>1. InChunks(c)'
    BY <1>1, SamePipe DEF Placed
  <2>2. ~At(c, "fetch")' /\ ~At(c, "bar128")' /\ ~At(c, "multiply")'
    BY <1>2, <2>1 DEF InChunks, At
  <2>3. OperandSeq' = <<"kv">> /\ Pipelined' = FALSE /\ Chunks'
    BY <1>1, <1>2, ChunkCounts, SamePipe
  <2>4. DOMAIN OperandSeq' = {1} /\ OperandSeq'[1] = "kv"
    BY <2>3
  <2> QED BY <2>2, <2>3, <2>4 DEF Has, Holding
<1>5. \A o \in AllOperands : Loaded(o)' = Loaded(o)
  <2>1. Loaded("q")' = 0 /\ Loaded("q") = 0
    BY <1>1, <1>2, SamePipe DEF Loaded
  <2>2. Loaded("kv")' = Loaded("kv")
    <3>1. CASE c = Leader
      BY <3>1
    <3>2. CASE c # Leader
      BY <1>1, <1>2, <3>2, LoadedKept
    <3> QED BY <3>1, <3>2
  <2> QED BY <1>2, <2>1, <2>2
<1>6. \A o \in AllOperands :
        \/ Passed(c, o)' = Passed(c, o) /\ (Has(c, o)' => Has(c, o) \/ There(c, o))
        \/ Passed(c, o)' = Passed(c, o) + 1 /\ Has(c, o) /\ ~Has(c, o)'
  <2>1. Passed(c, "q")' = Passed(c, "q") /\ ~Has(c, "q")'
    BY <1>3, <1>4
  <2>2. \/ Passed(c, "kv")' = Passed(c, "kv") /\ (Has(c, "kv")' => Has(c, "kv") \/ There(c, "kv"))
        \/ Passed(c, "kv")' = Passed(c, "kv") + 1 /\ Has(c, "kv") /\ ~Has(c, "kv")'
    BY <1>2, <1>3, <1>4
  <2> QED BY <1>2, <2>1, <2>2
<1>7. pipe.style # "transpose"
  BY DEF Chunks
<1>8. vt' \in [Stages \X Consumers -> Nat \cup {Nothing}]
  BY <1>1 DEF Typed
<1> QED BY <1>1, <1>2, <1>5, <1>6, <1>7, <1>8, MoveKeeps

LEMMA KeepsSkipPrefetch ==
  ASSUME IInv, NEW c \in Consumers, SkipPrefetch(c)
  PROVE  IInv'
<1>1. c \in Warps /\ Typed /\ Placed(c) /\ Parities(c) /\ At(c, "start") /\ Chunks /\ c # Leader
  BY DEF Warps, IInv, SkipPrefetch
<1>2. Moved(c) /\ UNCHANGED <<pipe, memVars>>
  BY <1>1, MovesChunk DEF SkipPrefetch
<1>3. warp'[c].at = "loop" /\ warp'[c].block = warp[c].block
  BY <1>1, Mover DEF SkipPrefetch, Goto
<1>4. Done(c)' = Done(c) /\ ~Holding(c)' /\ ~At(c, "init") /\ ~At(c, "init")'
  BY <1>1, <1>3 DEF Done, BlockOf, Turned, Held, At, Holding
<1>5. bcast \in Nat \cup {Nothing, Sums}
  BY <1>1 DEF Typed
<1> QED BY <1>1, <1>2, <1>4, <1>5, ChunkQuiet DEF memVars

LEMMA KeepsChunkLoop ==
  ASSUME IInv, NEW c \in Consumers, ChunkLoop(c)
  PROVE  IInv'
<1>1. c \in Warps /\ Typed /\ Placed(c) /\ Parities(c) /\ At(c, "loop") /\ Chunks
  BY DEF Warps, IInv, ChunkLoop
<1>2. Moved(c) /\ UNCHANGED <<pipe, memVars>>
  BY <1>1, MovesChunk DEF ChunkLoop
<1>3. warp'[c].at = "wait" /\ warp'[c].block = warp[c].block
  BY <1>1, Mover DEF ChunkLoop, Goto
<1>4. Done(c)' = Done(c) /\ ~Holding(c)' /\ ~At(c, "init") /\ ~At(c, "init")'
  BY <1>1, <1>3 DEF Done, BlockOf, Turned, Held, At, Holding
<1>5. bcast \in Nat \cup {Nothing, Sums}
  BY <1>1 DEF Typed
<1>6. c = Leader => Handed' /\ Loaded("kv")' = Loaded("kv")
  BY <1>1, <1>2, <1>3, ChunkCounts, SamePipe DEF Handed, Loaded, Setup, Held, At
<1> QED BY <1>1, <1>2, <1>4, <1>5, <1>6, ChunkQuiet DEF memVars

LEMMA KeepsWaitChunk ==
  ASSUME IInv, NEW c \in Consumers, WaitChunk(c)
  PROVE  IInv'
<1>1. /\ c \in Warps /\ Typed /\ (\A v \in Warps : Placed(v)) /\ Parities(c) /\ At(c, "wait") /\ Chunks
      /\ c # Dma /\ Window /\ InFlight /\ Placed(c)
  BY PipesOK DEF Warps, IInv, WaitChunk
<1>2. Moved(c) /\ UNCHANGED <<pipe, memVars>>
  BY <1>1, MovesChunk DEF WaitChunk
<1>3. /\ warp'[c].at = IF c = Leader THEN "score" ELSE "bar"
      /\ warp'[c].to = "read" /\ warp'[c].block = warp[c].block
  <2>1. warp \in [Warps -> WarpType]
    BY <1>1, Mover
  <2> QED BY <1>1, <2>1 DEF WaitChunk, WarpType
<1>4. Done(c)' = Done(c) /\ ~At(c, "init") /\ ~At(c, "init")'
  BY <1>1, <1>3 DEF Done, BlockOf, Turned, Held, At, Holding
<1>5. bcast \in Nat \cup {Nothing, Sums}
  BY <1>1 DEF Typed
<1>6. c = Leader => Handed' /\ Loaded("kv")' = Loaded("kv")
  BY <1>1, <1>2, <1>3, ChunkCounts, SamePipe DEF Handed, Loaded, Setup, Held, At
<1>7. There(c, "kv")
  <2> DEFINE s == Stage(c)
  <2>1. Streaming
    <3>1. ~Setup(c)
      BY <1>1 DEF Setup, Held, At
    <3> QED BY <1>1, <3>1, ChunkCounts, Live
  <2>2. s \in Stages
    BY <1>1, ChunkCounts, StageOf DEF Stage
  <2>3. <<"kv", s>> \in Loads /\ "kv" \in AllOperands
    BY <1>1, <2>2, ChunkCounts DEF Loads
  <2>4. LoadBar("kv", s)
    <3>1. LoadBar(<<"kv", s>>[1], <<"kv", s>>[2])
      BY <2>1, <2>3 DEF Streaming
    <3> QED BY <3>1
  <2>5. Passed(c, "kv") = warp[c].block
    <3>1. Done(c) = warp[c].block
      BY <1>1, ChunkCounts DEF Done, Held, At
    <3> QED BY <1>1, <3>1, ChunkCounts
  <2>6. warp[c].parity[s] = Fills(warp[c].block, s) % 2
    <3>1. warp[c].parity[s] = ParityOf(c, s)
      BY <1>1, <2>2 DEF Parities
    <3>2. Counted(c) = warp[c].block
      BY <1>1, ChunkCounts DEF Counted, At, Held
    <3> QED BY <3>1, <3>2 DEF ParityOf
  <2>7. TryWaitParity(mbar[<<"kv", s>>], warp[c].parity[s])
    BY DEF WaitChunk
  <2>8. s = Passed(c, "kv") % pipe.stages /\ warp[c].parity[s] = Fills(Passed(c, "kv"), s) % 2
    BY <2>5, <2>6 DEF Stage
  <2> HIDE DEF s
  <2> QED BY <1>1, <2>3, <2>4, <2>7, <2>8, WaitEnds
<1> QED BY <1>1, <1>2, <1>4, <1>5, <1>6, <1>7, ChunkQuiet DEF memVars

LEMMA KeepsScoreChunk ==
  ASSUME IInv, ScoreChunk
  PROVE  IInv'
<1>1. /\ Leader \in Consumers /\ Leader \in Warps /\ Typed /\ Placed(Leader) /\ Parities(Leader)
      /\ At(Leader, "score")
  BY PipesOK DEF Warps, IInv, ScoreChunk
<1>2. Chunks
  BY <1>1, PipesOK DEF Placed, InPipeline, At
<1>3. Moved(Leader)
  BY <1>1, MovesChunk
<1>4. warp'[Leader].at = "bar" /\ warp'[Leader].to = "read" /\ warp'[Leader].block = warp[Leader].block
      /\ warp'[Leader].tile = warp[Leader].tile
  BY <1>1, Mover DEF ScoreChunk, SyncThen
<1>5. Done(Leader)' = Done(Leader) /\ ~At(Leader, "init") /\ ~At(Leader, "init")' /\ Holding(Leader)
  BY <1>1, <1>4 DEF Done, BlockOf, Turned, Held, At, Holding
<1>6. bcast' = Number(Leader) /\ Number(Leader) \in Nat
  BY <1>1, <1>2, ChunkCounts DEF ScoreChunk
<1>7. pipe' = pipe
  BY DEF ScoreChunk
<1>8. Handed' /\ Loaded("kv")' = Loaded("kv")
  BY <1>1, <1>2, <1>4, <1>6, <1>7, ChunkCounts, SamePipe
     DEF Handed, Loaded, Setup, Held, At, Number
<1> QED BY <1>1, <1>2, <1>3, <1>5, <1>6, <1>8, ChunkQuiet DEF ScoreChunk

LEMMA KeepsReadChunk ==
  ASSUME IInv, NEW c \in Consumers, ReadChunk(c)
  PROVE  IInv'
<1>1. c \in Warps /\ Typed /\ Placed(c) /\ Parities(c) /\ At(c, "read") /\ Chunks
  BY DEF Warps, IInv, ReadChunk
<1>2. Moved(c) /\ UNCHANGED <<pipe, memVars>>
  BY <1>1, MovesChunk DEF ReadChunk
<1>3. /\ warp'[c].at = "bar" /\ warp'[c].to = "prefetch" /\ warp'[c].block = warp[c].block
      /\ warp'[c].tile = warp[c].tile
  BY <1>1, Mover DEF ReadChunk, SyncThen
<1>4. /\ Done(c)' = Done(c) + 1 /\ ~Holding(c)' /\ Holding(c)
      /\ ~At(c, "init") /\ ~At(c, "init")'
  <2>1. warp[c].block \in Nat
    BY <1>1, ChunkCounts
  <2> QED BY <1>1, <1>3, <2>1 DEF Done, BlockOf, Turned, Held, At, Holding
<1>5. bcast \in Nat \cup {Nothing, Sums}
  BY <1>1 DEF Typed
<1>6. c = Leader => Handed' /\ Loaded("kv")' = Loaded("kv")
  <2>1. Handed
    BY DEF IInv
  <2> QED BY <1>1, <1>2, <1>3, <2>1, ChunkCounts, SamePipe
          DEF Handed, Loaded, Setup, Held, At, Number, memVars
<1> QED BY <1>1, <1>2, <1>4, <1>5, <1>6, ChunkQuiet DEF memVars

LEMMA KeepsLastChunkDone ==
  ASSUME IInv, NEW c \in Consumers, LastChunkDone(c)
  PROVE  IInv'
<1>1. c \in Warps /\ Typed /\ Placed(c) /\ Parities(c) /\ At(c, "loop") /\ Chunks
  BY DEF Warps, IInv, LastChunkDone
<1>2. Moved(c) /\ pipe' = pipe
  BY <1>1, MovesChunk DEF LastChunkDone
<1>3. /\ warp'[c].at = "bar" /\ warp'[c].to = "normalize" /\ warp'[c].block = warp[c].block
      /\ warp'[c].tile = warp[c].tile
  BY <1>1, Mover DEF LastChunkDone, SyncThen
<1>4. Done(c)' = Done(c) /\ ~Holding(c)' /\ ~At(c, "init") /\ ~At(c, "init")'
  BY <1>1, <1>3 DEF Done, BlockOf, Turned, Held, At, Holding
<1>5. bcast' \in Nat \cup {Nothing, Sums} /\ (c # Leader => bcast' = bcast)
  BY <1>1 DEF Typed, LastChunkDone
<1>6. c = Leader => Handed' /\ Loaded("kv")' = Loaded("kv")
  BY <1>1, <1>2, <1>3, ChunkCounts, SamePipe
     DEF Handed, Loaded, Setup, Held, At, Number, LastChunkDone
<1> QED BY <1>1, <1>2, <1>4, <1>5, <1>6, ChunkQuiet DEF LastChunkDone

LEMMA KeepsNormalize ==
  ASSUME IInv, NEW c \in Consumers, Normalize(c)
  PROVE  IInv'
<1>1. /\ c \in Warps /\ Typed /\ Placed(c) /\ Parities(c) /\ At(c, "normalize") /\ c # Dma
  BY PipesOK DEF Warps, IInv, Normalize
<1>2. Chunks
  BY <1>1 DEF Placed, InPipeline, At
<1>3. Moved(c) /\ UNCHANGED <<pipe, memVars>>
  BY <1>1, MovesChunk DEF Normalize
<1>4. /\ warp'[c].at = "exit" /\ warp'[c].block = warp[c].block
  BY <1>1, Mover DEF Normalize, Goto
<1>5. Done(c)' = Done(c) /\ ~Holding(c)' /\ ~At(c, "init") /\ ~At(c, "init")'
  BY <1>1, <1>4 DEF Done, BlockOf, Turned, Held, At, Holding
<1>6. bcast \in Nat \cup {Nothing, Sums}
  BY <1>1 DEF Typed
<1>7. c = Leader => Handed' /\ Loaded("kv")' = Loaded("kv")
  <2>1. Handed
    BY DEF IInv
  <2> QED BY <1>1, <1>2, <1>3, <1>4, <2>1, ChunkCounts, SamePipe
          DEF Handed, Loaded, Setup, Held, At, Number, memVars
<1> QED BY <1>1, <1>2, <1>3, <1>5, <1>6, <1>7, ChunkQuiet DEF memVars

-----------------------------------------------------------------------------
(* A warp moves and loads.                                                 *)

LEMMA LoadStep ==
  ASSUME IInv, NEW w \in Warps, Moved(w), ~At(w, "init")', ~Setup(w), w \in Syncing,
         NEW o \in AllOperands, NEW s, <<o, s>> \in Loads,
         NEW k \in Nat, k = Loaded(o), s = k % pipe.stages, Load(o, s, Tag(o, k)),
         Loaded(o)' = k + 1, \A j \in AllOperands : j # o => Loaded(j)' = Loaded(j),
         o \in OperandSet => k < DmaIssues,
         \A c \in Consumers : k < Passed(c, o) + pipe.stages,
         w \in Consumers => \A j \in AllOperands :
           Passed(w, j)' = Passed(w, j) /\ (Has(w, j)' => Has(w, j)),
         Pipelined => w = Dma, Ahead', Chunks => Handed'
  PROVE  IInv'
<1>1. /\ Typed /\ (\A v \in Warps : Placed(v) /\ Parities(v)) /\ (\A v \in Warps : Placed(v))
      /\ InStep /\ Window /\ InFlight /\ Filled /\ Granted /\ Transposed /\ pipe \in Pipes
  BY DEF IInv, Typed
<1>2. /\ pipe' = pipe /\ Leader \in Consumers /\ Leader \in Warps /\ Consumers \subseteq Warps
      /\ Dma \in Warps /\ Dma \notin Consumers /\ \A v \in Warps : v # w => warp'[v] = warp[v]
  BY PipesOK DEF Moved, Warps
<1>3. Streaming /\ \A v \in Syncing : ~Setup(v)
  BY Live
<1>4. /\ warp' \in [Warps -> WarpType] /\ Within'
      /\ (\A v \in Warps : Placed(v) /\ Parities(v))'
      /\ InStep' /\ Base' = Base /\ \A j, m : Tag(j, m)' = Tag(j, m)
      /\ \A c \in Consumers : c # w => /\ Done(c)' = Done(c)
                                       /\ \A j : Passed(c, j)' = Passed(c, j) /\ Has(c, j)' = Has(c, j)
  BY <1>1, OthersStay
<1>5. \A c \in Consumers, j \in AllOperands :
        Passed(c, j)' = Passed(c, j) /\ (Has(c, j)' => Has(c, j))
  BY <1>4
<1>6. LoadBar(o, s)
  <2>1. LoadBar(<<o, s>>[1], <<o, s>>[2])
    BY <1>3 DEF Streaming
  <2> QED BY <2>1
<1>7. /\ Window' /\ InFlight' /\ Filled' /\ Granted' /\ LoadBar(o, s)'
      /\ \A l \in Loads : l # <<o, s>> => LoadBar(l[1], l[2])' = LoadBar(l[1], l[2])
      /\ mbar' = [mbar EXCEPT ![<<o, s>>] =
           [phase |-> Fills(k, s), pending |-> 0, count |-> 1, tx |-> Cardinality(Pieces)]]
  BY <1>1, <1>2, <1>4, <1>5, <1>6, LoadKeeps
<1>8. s \in Stages /\ o # "done" /\ <<o, s>> \in Mbars /\ Fills(k, s) \in Nat
  BY <1>1, OperandStages, FillsFacts
<1>9. /\ flight' = flight \cup Copies(o, s, Tag(o, k)) /\ smem' = smem
      /\ issued' = [issued EXCEPT ![o] = @ + 1] /\ vt' = vt /\ bcast' = bcast
  BY DEF Load, Copy, Copies
<1>10. IsFiniteSet(flight') /\ Cardinality(Pieces) \in Nat
  <2>1. IsFiniteSet(Copies(o, s, Tag(o, k))) /\ Cardinality(Pieces) \in {1, 2}
    BY PieceFacts
  <2>2. IsFiniteSet(flight)
    BY <1>1 DEF Typed
  <2>3. IsFiniteSet(flight \cup Copies(o, s, Tag(o, k)))
    BY <2>1, <2>2, FS_Union
  <2> QED BY <1>9, <2>1, <2>3
<1>11. Typed'
  <2>1. /\ mbar' = [b \in Mbars |-> mbar'[b]]
        /\ \A b \in Mbars : mbar'[b] \in [phase : Nat, pending : Nat, count : Nat, tx : Nat]
    <3> DEFINE r == [phase |-> Fills(k, s), pending |-> 0, count |-> 1, tx |-> Cardinality(Pieces)]
    <3>1. r \in [phase : Nat, pending : Nat, count : Nat, tx : Nat]
      BY <1>8, <1>10
    <3>2. mbar' = [mbar EXCEPT ![<<o, s>>] = r]
      BY <1>7
    <3> HIDE DEF r
    <3>3. mbar = [b \in Mbars |-> mbar[b]]
      BY <1>1 DEF Typed
    <3>4. \A b \in Mbars : mbar[b] \in [phase : Nat, pending : Nat, count : Nat, tx : Nat]
      BY <1>1 DEF Typed
    <3>5. \A b \in Mbars : mbar'[b] = IF b = <<o, s>> THEN r ELSE mbar[b]
      BY <3>2, <3>3
    <3>6. mbar' = [b \in Mbars |-> mbar'[b]]
      BY <3>2, <3>3
    <3> QED BY <3>1, <3>4, <3>5, <3>6
  <2>2. Tag(o, k) \in Nat
    BY <1>1, Counts
  <2>3. flight' \subseteq [operand : AllOperands, stage : Stages, piece : Pieces, block : Nat]
    <3>1. Copies(o, s, Tag(o, k)) \subseteq [operand : AllOperands, stage : Stages, piece : Pieces, block : Nat]
      BY <1>8, <2>2 DEF Copies, Copy
    <3>2. flight \subseteq [operand : AllOperands, stage : Stages, piece : Pieces, block : Nat]
      BY <1>1 DEF Typed
    <3> QED BY <1>9, <3>1, <3>2
  <2>4. issued' \in [AllOperands -> Nat]
    <3>1. issued \in [AllOperands -> Nat]
      BY <1>1 DEF Typed
    <3> QED BY <1>9, <3>1
  <2>5. /\ smem' \in [Places -> Nat \cup {Nothing}]
        /\ vt' \in [Stages \X Consumers -> Nat \cup {Nothing}]
        /\ bcast' \in Nat \cup {Nothing, Sums}
    BY <1>1, <1>9 DEF Typed
  <2> QED BY <1>1, <1>2, <1>4, <1>10, <2>1, <2>3, <2>4, <2>5, SamePipe DEF Typed, WarpType
<1>12. Streaming'
  <2>1. \A l \in Loads : LoadBar(l[1], l[2])'
    <3> SUFFICES ASSUME NEW l \in Loads PROVE LoadBar(l[1], l[2])'
      OBVIOUS
    <3>1. CASE l = <<o, s>>
      BY <1>7, <3>1
    <3>2. CASE l # <<o, s>>
      BY <1>3, <1>7, <3>2 DEF Streaming
    <3> QED BY <3>1, <3>2
  <2>2. ASSUME Pipelined, NEW z \in Stages PROVE DoneBar(z)'
    <3>1. DoneBar(z)
      BY <1>3, <2>2 DEF Streaming
    <3>2. \A c \in Consumers : Fills(Done(c), z)' = Fills(Done(c), z)
      <4>1. \A c \in Consumers : Done(c)' = Done(c)
        BY <1>2, <1>4, <2>2
      <4> QED BY <1>2, <4>1, SamePipe DEF Fills
    <3>3. mbar'[<<"done", z>>] = mbar[<<"done", z>>]
      <4>1. mbar = [b \in Mbars |-> mbar[b]] /\ <<"done", z>> \in Mbars
        BY <1>1 DEF Typed, Mbars
      <4>2. <<"done", z>> # <<o, s>>
        BY <1>8
      <4> HIDE DEF Mbars
      <4> QED BY <1>7, <4>1, <4>2
    <3> QED BY <1>2, <3>1, <3>2, <3>3, DoneKept
  <2> QED BY <1>2, <2>1, <2>2, SamePipe DEF Streaming
<1>13. ~At(Leader, "init")'
  <2>1. CASE w = Leader
    BY <2>1
  <2>2. CASE w # Leader
    <3>1. warp'[Leader] = warp[Leader] /\ Leader \in Syncing
      BY <1>2, <2>2 DEF Syncing
    <3>2. ~Setup(Leader)
      BY <1>3, <3>1
    <3> QED BY <3>1, <3>2 DEF Setup, At
  <2> QED BY <2>1, <2>2
<1>14. Transposed'
  <2>1. CASE pipe.style # "transpose"
    BY <1>2, <2>1 DEF Transposed
  <2>2. CASE pipe.style = "transpose"
    <3>1. w = Dma
      BY <2>2 DEF Pipelined
    <3> SUFFICES ASSUME NEW c \in Consumers
                 PROVE  /\ At(c, "bar128")' => vt'[<<Stage(c), c>>'] = Number(c)'
                        /\ At(c, "multiply")' => \A d \in Consumers : vt'[<<Stage(c), d>>'] = Number(c)'
      BY DEF Transposed
    <3>2. warp'[c] = warp[c]
      BY <1>2, <3>1
    <3>3. /\ At(c, "bar128") => vt[<<Stage(c), c>>] = Number(c)
          /\ At(c, "multiply") => \A d \in Consumers : vt[<<Stage(c), d>>] = Number(c)
      BY <1>1, <2>2 DEF Transposed
    <3> QED BY <1>2, <1>9, <3>2, <3>3, SamePipe DEF At, Stage, Number
  <2> QED BY <2>1, <2>2
<1>15. Handed'
  <2>1. CASE Chunks
    BY <2>1
  <2>2. CASE ~Chunks
    BY <1>2, <2>2, SamePipe DEF Handed
  <2> QED BY <2>1, <2>2
<1> QED BY <1>4, <1>7, <1>11, <1>12, <1>13, <1>14, <1>15 DEF IInv

LEMMA KeepsDmaStartQuery ==
  ASSUME IInv, DmaStart, pipe.style # "gemm"
  PROVE  IInv'
<1>1. /\ Dma \in Warps /\ Typed /\ (\A v \in Warps : Placed(v)) /\ Placed(Dma) /\ Parities(Dma)
      /\ At(Dma, "start") /\ Pipelined /\ pipe' = pipe /\ pipe \in Pipes /\ InStep
      /\ Dma \notin Consumers /\ Leader \in Warps
  BY PipesOK DEF Warps, IInv, DmaStart, Typed
<1>2. Moved(Dma)
  BY <1>1, MovesDma
<1>3. /\ warp'[Dma].at = "loop" /\ warp'[Dma].block = warp[Dma].block
      /\ warp[Dma].tile \in Nat
  BY <1>1, Mover, PipeFacts DEF DmaStart, Begin
<1>4. /\ ~Turned(Dma) /\ ~Turned(Dma)' /\ ~Setup(Dma) /\ ~Setup(Dma)' /\ ~At(Dma, "start")'
      /\ ~At(Dma, "load") /\ ~At(Dma, "load")' /\ ~At(Dma, "init")'
  BY <1>1, <1>3 DEF Setup, Turned, Held, At
<1>5. BlockOf(Dma)' = BlockOf(Dma)
  BY <1>3, <1>4 DEF BlockOf
<1>6. \A o \in AllOperands : o # "q" => Loaded(o)' = Loaded(o)
  BY <1>1, <1>4, <1>5, SamePipe DEF Loaded
<1>7. Loaded("q") = 0 /\ Loaded("q")' = 0 + 1
  <2>1. WithQuery
    BY <1>1, OperandFacts, PipeFacts
  <2> QED BY <1>1, <1>4, <2>1, SamePipe DEF Loaded
<1>8. 0 % pipe.stages = 0
  <2>1. CASE pipe.stages = 1
    BY <2>1
  <2>2. CASE pipe.stages = 2
    BY <2>2
  <2>3. CASE pipe.stages = 3
    BY <2>3
  <2> QED BY <1>1, <2>1, <2>2, <2>3, PipeFacts
<1>9. Load("q", 0, Tag("q", 0))
  <2>1. TileOf(Leader) = TileOf(Dma)
    BY <1>1, SameTile
  <2>2. TileOf(Dma) = warp[Dma].tile
    BY <1>3, <1>4 DEF TileOf
  <2> QED BY <2>1, <2>2 DEF DmaStart, Tag
<1>10. "q" \in AllOperands /\ "q" \notin OperandSet /\ <<"q", 0>> \in Loads /\ ~Chunks /\ Dma \in Syncing
  <2>1. ~Chunks
    BY <1>1, PipeFacts
  <2>2. "q" \notin OperandSet
    BY <1>1, OperandFacts
  <2> QED BY <1>1, <2>1, <2>2 DEF AllOperands, Loads, Syncing
<1>11. \A c \in Consumers : 0 < Passed(c, "q") + pipe.stages
  BY <1>1, Counts, PipeFacts
<1>12. Ahead'
  BY <1>4 DEF Ahead
<1> QED BY <1>1, <1>2, <1>4, <1>6, <1>7, <1>8, <1>9, <1>10, <1>11, <1>12, LoadStep

LEMMA KeepsDmaLoad ==
  ASSUME IInv, DmaLoad
  PROVE  IInv'
<1>1. /\ Dma \in Warps /\ Typed /\ (\A v \in Warps : Placed(v)) /\ Placed(Dma) /\ Parities(Dma)
      /\ At(Dma, "load") /\ pipe' = pipe /\ pipe \in Pipes /\ InStep
      /\ Dma \notin Consumers /\ Leader \in Warps /\ Ahead
  BY PipesOK DEF Warps, IInv, DmaLoad, Typed
<1>2. Pipelined /\ ~Chunks /\ Dma \in Syncing /\ warp[Dma].block < DmaIssues
  <2>1. Pipelined /\ ~Chunks
    BY <1>1, PipeFacts DEF Placed, InChunks, At
  <2>2. InPipeline(Dma)
    BY <1>1, <2>1 DEF Placed
  <2> QED BY <1>1, <2>1, <2>2 DEF Syncing, InPipeline
<1>3. Moved(Dma)
  BY <1>1, MovesDma
<1>0. PICK b, n, o : b = warp[Dma].block /\ n = warp[Dma].next /\ o = Operand(Dma)
  OBVIOUS
<1>4. /\ b \in Nat /\ n \in DOMAIN OperandSeq /\ DOMAIN OperandSeq = 1 .. Len(OperandSeq)
      /\ Len(OperandSeq) \in {1, 2} /\ Blocks \in Nat /\ warp[Dma].tile \in Nat
  BY <1>0, <1>1, Mover, PipeFacts
<1>5. \/ /\ n < Len(OperandSeq) /\ warp'[Dma].at = "load"
         /\ warp'[Dma].block = b /\ warp'[Dma].next = n + 1
      \/ /\ n = Len(OperandSeq) /\ warp'[Dma].at = "loop" /\ warp'[Dma].block = b + 1
  <2>1. warp \in [Warps -> WarpType]
    BY <1>0, <1>1, Mover
  <2>2. CASE n < Len(OperandSeq)
    <3>1. warp' = [warp EXCEPT ![Dma].next = @ + 1]
      BY <1>0, <2>2 DEF DmaLoad
    <3> QED BY <1>0, <1>1, <2>1, <2>2, <3>1 DEF WarpType, At
  <2>3. CASE ~(n < Len(OperandSeq))
    <3>1. warp' = [warp EXCEPT ![Dma].at = "loop", ![Dma].block = @ + 1]
      BY <1>0, <2>3 DEF DmaLoad
    <3>2. n = Len(OperandSeq)
      BY <1>0, <1>4, <2>3
    <3> QED BY <1>0, <1>1, <2>1, <3>1, <3>2 DEF WarpType
  <2> QED BY <2>2, <2>3
<1>6. /\ ~Turned(Dma) /\ ~Turned(Dma)' /\ ~Setup(Dma) /\ ~Setup(Dma)'
      /\ ~At(Dma, "start") /\ ~At(Dma, "start")' /\ ~At(Dma, "init")'
  BY <1>0, <1>1, <1>5 DEF Setup, Turned, Held, At
<1>7. BlockOf(Dma) = b /\ BlockOf(Dma)' = warp'[Dma].block
  BY <1>0, <1>6 DEF BlockOf
<1>8. Loaded("q")' = Loaded("q")
  BY <1>0, <1>1, <1>6, SamePipe DEF Loaded
<1>9. o \in OperandSet /\ o # "q"
  BY <1>0, <1>1, <1>4, OperandFacts DEF OperandSet, Operand
<1>10. \A i, j \in DOMAIN OperandSeq : OperandSeq[i] = OperandSeq[j] => i = j
  BY <1>0, <1>1, OperandFacts
<1>11. Loaded(o) = b
  <2>1. ~\E i \in 1 .. n - 1 : OperandSeq[i] = o
    BY <1>0, <1>4, <1>10 DEF Operand
  <2> QED BY <1>0, <1>2, <1>4, <1>7, <1>9, <2>1 DEF Loaded
<1>12. Loaded(o)' = b + 1
  <2>1. CASE At(Dma, "load")'
    <3>1. warp'[Dma].block = b /\ warp'[Dma].next = n + 1
      BY <1>0, <1>5, <2>1 DEF At
    <3>2. n \in 1 .. warp'[Dma].next - 1 /\ OperandSeq'[n] = o
      BY <1>0, <1>1, <1>4, <3>1, SamePipe DEF Operand
    <3> QED BY <1>0, <1>1, <1>2, <1>7, <1>9, <2>1, <3>1, <3>2, SamePipe DEF Loaded
  <2>2. CASE ~At(Dma, "load")'
    <3>1. warp'[Dma].block = b + 1
      BY <1>0, <1>5, <2>2 DEF At
    <3>2. (b + 1) + 0 = b + 1
      BY <1>0, <1>4
    <3> QED BY <1>0, <1>1, <1>2, <1>7, <1>9, <2>2, <3>1, <3>2, SamePipe DEF Loaded
  <2> QED BY <2>1, <2>2
<1>13. ASSUME NEW j \in AllOperands, j # o PROVE Loaded(j)' = Loaded(j)
  <2>1. CASE j = "q"
    BY <1>0, <1>8, <2>1
  <2>2. CASE j # "q"
    <3>1. PICK i \in DOMAIN OperandSeq : OperandSeq[i] = j
      BY <1>0, <2>2 DEF AllOperands, OperandSet
    <3>2. i # n
      BY <1>0, <1>13, <3>1 DEF Operand
    <3>3. CASE At(Dma, "load")'
      <4>1. warp'[Dma].block = b /\ warp'[Dma].next = n + 1
        BY <1>0, <1>5, <3>3 DEF At
      <4>2. (\E h \in 1 .. n - 1 : OperandSeq[h] = j)
              <=> (\E h \in 1 .. warp'[Dma].next - 1 : OperandSeq'[h] = j)
        <5>1. OperandSeq' = OperandSeq /\ warp'[Dma].next - 1 = n
          BY <1>0, <1>1, <1>4, <1>10, <4>1, SamePipe
        <5>2. OperandSeq[n] # j
          BY <1>0, <1>13 DEF Operand
        <5>3. \A h \in 1 .. n : h = n \/ h \in 1 .. n - 1
          BY <1>0, <1>4
        <5>4. \A h \in 1 .. n - 1 : h \in 1 .. n
          BY <1>0, <1>4
        <5> QED BY <5>1, <5>2, <5>3, <5>4
      <4> QED BY <1>0, <1>1, <1>2, <1>7, <2>2, <3>3, <4>1, <4>2, SamePipe DEF Loaded
    <3>4. CASE ~At(Dma, "load")'
      <4>1. warp'[Dma].block = b + 1 /\ n = Len(OperandSeq)
        BY <1>0, <1>5, <3>4 DEF At
      <4>2. i \in 1 .. n - 1
        BY <1>0, <1>4, <3>1, <3>2, <4>1
      <4>3. Loaded(j) = b + 1
        BY <1>0, <1>1, <1>2, <1>7, <2>2, <3>1, <4>2 DEF Loaded
      <4>4. Loaded(j)' = (b + 1) + 0
        BY <1>0, <1>1, <1>2, <1>7, <2>2, <3>4, <4>1, SamePipe DEF Loaded
      <4> QED BY <1>0, <1>4, <4>3, <4>4
    <3> QED BY <3>3, <3>4
  <2> QED BY <2>1, <2>2
<1>14. Load(o, b % pipe.stages, Tag(o, b))
  <2>1. TileOf(Leader) = TileOf(Dma)
    BY <1>0, <1>1, <1>2, SameTile
  <2>2. TileOf(Dma) = warp[Dma].tile
    BY <1>0, <1>4, <1>6 DEF TileOf
  <2>3. Tag(o, b) = Number(Dma)
    BY <1>0, <1>9, <2>1, <2>2 DEF Tag, Base, Number
  <2> QED BY <1>0, <2>3 DEF DmaLoad, Stage
<1>15. o \in AllOperands /\ <<o, b % pipe.stages>> \in Loads
  BY <1>0, <1>1, <1>4, <1>9, StageOf DEF AllOperands, Loads
<1>16. \A c \in Consumers : Passed(c, o) = Done(c) /\ b < Passed(c, o) + pipe.stages
  BY <1>0, <1>1, <1>9 DEF Passed, Ahead
<1>17. Ahead'
  <2> SUFFICES ASSUME At(Dma, "load")', NEW c \in Consumers
               PROVE  warp'[Dma].block < (Done(c) + pipe.stages)'
    BY DEF Ahead
  <2>1. warp'[Dma].block = b
    BY <1>0, <1>5 DEF At
  <2>2. Done(c)' = Done(c)
    <3>1. c # Dma /\ c \in Warps
      BY PipesOK DEF Warps
    <3> QED BY <1>0, <1>1, <1>3, <3>1, SameWarp DEF Moved
  <2> QED BY <1>0, <1>1, <1>16, <2>1, <2>2
<1>18. PICK s : s = b % pipe.stages
  OBVIOUS
<1>19. b \in Nat /\ b < DmaIssues /\ s = b % pipe.stages /\ <<o, s>> \in Loads /\ b = Loaded(o)
  BY <1>0, <1>2, <1>4, <1>11, <1>15, <1>18
<1>20. Load(o, s, Tag(o, b))
  BY <1>14, <1>18
<1> QED BY <1>19, <1>20, <1>1, <1>2, <1>3, <1>4, <1>6, <1>9, <1>11, <1>12, <1>13, <1>14, <1>15, <1>16, <1>17, <1>18,
           LoadStep

-----------------------------------------------------------------------------
(* Thread 0 of a chunk kernel prefetches.                                  *)

\* The chunks issued for the leading warp's place.
LEMMA ChunkLoaded ==
  ASSUME Typed, Placed(Leader), Chunks
  PROVE  /\ Loaded("q") = 0
         /\ Loaded("kv") = IF Setup(Leader) \/ At(Leader, "start") THEN 0
                           ELSE IF At(Leader, "second") THEN 1
                           ELSE IF Blocks < warp[Leader].block + 2 THEN DmaIssues
                           ELSE warp[Leader].block + 2
BY PipesOK, ChunkCounts DEF Loaded

LEMMA ChunkLoad ==
  ASSUME IInv, Chunks, Moved(Leader), ~At(Leader, "init")', ~Setup(Leader),
         NEW k \in Nat, k = Loaded("kv"), Load("kv", k % 2, k), k < DmaIssues,
         Loaded("kv")' = k + 1, Done(Leader)' = Done(Leader), ~Holding(Leader)', Handed',
         \A c \in Consumers : k < Done(c) + 2
  PROVE  IInv'
<1>1. /\ Typed /\ (\A v \in Warps : Placed(v)) /\ Placed(Leader) /\ Placed(Leader)'
      /\ Leader \in Consumers /\ Leader \in Warps /\ pipe' = pipe /\ Consumers \subseteq Warps
      /\ Dma \in Warps /\ Placed(Dma) /\ warp'[Dma] = warp[Dma] /\ Leader # Dma
  BY PipesOK DEF IInv, Moved, Warps
<1>2. /\ Leader \in Syncing /\ ~Pipelined /\ ~WithQuery /\ AllOperands = {"kv", "q"}
      /\ OperandSet = {"kv"} /\ pipe.stages = 2 /\ pipe \in Pipes
      /\ \A c \in Consumers : Passed(c, "kv") = Done(c)
  <2>1. ASSUME NEW c \in Consumers PROVE Passed(c, "kv") = Done(c)
    BY <1>1, <2>1, ChunkCounts
  <2> QED BY <1>1, <2>1, ChunkCounts
<1>3. TileOf(Leader) = 0 /\ Base = 0
  <2>1. TileOf(Leader) = 0
    BY <1>1, ChunkCounts DEF TileOf
  <2>2. Blocks \in Nat
    BY <1>2, PipeFacts
  <2>3. 0 * Blocks = 0
    BY <2>2
  <2> QED BY <2>1, <2>3 DEF Base
<1>4. Tag("kv", k) = k
  <2>1. 0 + k = k
    OBVIOUS
  <2> QED BY <1>3, <2>1 DEF Tag
<1>5. \A j : /\ j # "q" => Passed(Leader, j)' = Passed(Leader, j)
             /\ Passed(Leader, "q")' = 0 /\ Passed(Leader, "q") = 0
  BY <1>1, <1>2, SamePipe DEF Passed
<1>6. \A j : ~Has(Leader, j)'
  <2>1. InChunks(Leader)'
    BY <1>1, SamePipe DEF Placed
  <2>2. ~At(Leader, "fetch")' /\ ~At(Leader, "bar128")' /\ ~At(Leader, "multiply")'
    BY <1>1, <2>1 DEF InChunks, At
  <2>3. Pipelined' = FALSE
    BY <1>1, <1>2, SamePipe
  <2> QED BY <2>2, <2>3 DEF Has, Holding
<1>7. Loaded("q")' = Loaded("q")
  BY <1>1, <1>2, SamePipe DEF Loaded
<1>8. Ahead'
  <2>1. InChunks(Dma)
    BY <1>1 DEF Placed
  <2>2. ~At(Dma, "load")'
    BY <1>1, <2>1 DEF InChunks, At
  <2> QED BY <2>2 DEF Ahead
<1>9. PICK s : s = k % 2
  OBVIOUS
<1>10. s \in Stages /\ <<"kv", s>> \in Loads /\ s = k % pipe.stages /\ "kv" \in AllOperands
  <2>1. s \in Stages
    BY <1>2, <1>9, StageOf
  <2> QED BY <1>2, <1>9, <2>1 DEF Loads
<1>11. Load("kv", s, Tag("kv", k))
  BY <1>4, <1>9
<1>12. \A j \in AllOperands : Passed(Leader, j)' = Passed(Leader, j) /\ (Has(Leader, j)' => Has(Leader, j))
  BY <1>2, <1>5, <1>6
<1>13. \A j \in AllOperands : j # "kv" => Loaded(j)' = Loaded(j)
  BY <1>2, <1>7
<1>14. \A c \in Consumers : k < Passed(c, "kv") + pipe.stages
  BY <1>2
<1> QED BY <1>1, <1>2, <1>8, <1>10, <1>11, <1>12, <1>13, <1>14, LoadStep

LEMMA KeepsPrefetchFirst ==
  ASSUME IInv, PrefetchFirst
  PROVE  IInv'
<1>1. /\ Leader \in Consumers /\ Leader \in Warps /\ Typed /\ Placed(Leader) /\ Parities(Leader)
      /\ At(Leader, "start") /\ Chunks /\ pipe' = pipe /\ pipe \in Pipes
      /\ (\A v \in Warps : Placed(v)) /\ Consumers \subseteq Warps
  BY PipesOK DEF Warps, IInv, PrefetchFirst, Typed
<1>2. Moved(Leader)
  BY <1>1, MovesChunk
<1>3. warp'[Leader].at = "second" /\ warp'[Leader].block = warp[Leader].block
  BY <1>1, Mover DEF PrefetchFirst, Goto
<1>4. /\ Done(Leader)' = Done(Leader) /\ ~Holding(Leader)' /\ ~At(Leader, "init")'
      /\ ~Setup(Leader) /\ ~Setup(Leader)' /\ ~At(Leader, "start")' /\ At(Leader, "second")'
  BY <1>1, <1>3 DEF Done, BlockOf, Turned, Held, At, Holding, Setup
<1>5. Loaded("kv") = 0
  BY <1>1, ChunkLoaded
<1>6. Loaded("kv")' = 0 + 1
  BY <1>1, <1>4, ChunkCounts, SamePipe DEF Loaded
<1>7. Handed'
  BY <1>3 DEF Handed, Held, At
<1>8. Load("kv", 0 % 2, 0)
  BY DEF PrefetchFirst
<1>9. 0 < DmaIssues /\ \A c \in Consumers : 0 < Done(c) + 2
  BY <1>1, Counts, PipeFacts
<1> QED BY <1>1, <1>2, <1>4, <1>5, <1>6, <1>7, <1>8, <1>9, ChunkLoad

LEMMA KeepsPrefetchSecond ==
  ASSUME IInv, PrefetchSecond
  PROVE  IInv'
<1>1. /\ Leader \in Consumers /\ Leader \in Warps /\ Typed /\ Placed(Leader) /\ Parities(Leader)
      /\ At(Leader, "second") /\ pipe' = pipe /\ pipe \in Pipes
      /\ (\A v \in Warps : Placed(v)) /\ Consumers \subseteq Warps /\ Leader # Dma
  BY PipesOK DEF Warps, IInv, PrefetchSecond, Typed
<1>2. Chunks
  BY <1>1 DEF Placed, InPipeline, At
<1>3. Moved(Leader)
  BY <1>1, <1>2, MovesChunk
<1>4. warp'[Leader].at = "loop" /\ warp'[Leader].block = warp[Leader].block
  BY <1>1, Mover DEF PrefetchSecond, Goto
<1>5. /\ Done(Leader)' = Done(Leader) /\ ~Holding(Leader)' /\ ~At(Leader, "init")'
      /\ ~Setup(Leader) /\ ~Setup(Leader)' /\ ~At(Leader, "start")' /\ ~At(Leader, "second")'
      /\ ~At(Leader, "init")
  BY <1>1, <1>4 DEF Done, BlockOf, Turned, Held, At, Holding, Setup
<1>6. /\ Loaded("kv") = 1 /\ warp[Leader].block = 0 /\ Blocks \in Nat
      /\ DmaIssues = IF Blocks = 0 THEN 1 ELSE Blocks
  <2>1. ~Setup(Leader) /\ ~At(Leader, "start")
    BY <1>1 DEF Setup, Held, At
  <2>2. InChunks(Leader)
    BY <1>1, <1>2 DEF Placed
  <2> QED BY <1>1, <1>2, <2>1, <2>2, ChunkLoaded, PipeFacts DEF InChunks
<1>7. Loaded("kv")' = IF Blocks < 2 THEN 1 ELSE 2
  <2>1. 0 + 2 = 2
    OBVIOUS
  <2> QED BY <1>1, <1>2, <1>4, <1>5, <1>6, <2>1, ChunkCounts, SamePipe DEF Loaded
<1>8. Handed'
  BY <1>4 DEF Handed, Held, At
<1>9. CASE Blocks > 1
  <2>1. Load("kv", 1 % 2, 1)
    BY <1>9 DEF PrefetchSecond
  <2>2. 1 < DmaIssues /\ Loaded("kv")' = 1 + 1 /\ \A c \in Consumers : 1 < Done(c) + 2
    BY <1>1, <1>6, <1>7, <1>9, Counts
  <2> QED BY <1>2, <1>3, <1>5, <1>6, <1>8, <2>1, <2>2, ChunkLoad
<1>10. CASE ~(Blocks > 1)
  <2>1. UNCHANGED memVars
    BY <1>10 DEF PrefetchSecond
  <2>2. Loaded("kv")' = Loaded("kv")
    BY <1>6, <1>7, <1>10
  <2>3. bcast \in Nat \cup {Nothing, Sums}
    BY <1>1 DEF Typed
  <2> QED BY <1>1, <1>2, <1>3, <1>5, <1>8, <2>1, <2>2, <2>3, ChunkQuiet DEF memVars
<1> QED BY <1>9, <1>10

LEMMA KeepsPrefetchNext ==
  ASSUME IInv, NEW c \in Consumers, PrefetchNext(c)
  PROVE  IInv'
<1>1. /\ c \in Warps /\ Typed /\ Placed(c) /\ Parities(c) /\ At(c, "prefetch") /\ Chunks
      /\ pipe' = pipe /\ pipe \in Pipes /\ (\A v \in Warps : Placed(v)) /\ Consumers \subseteq Warps
      /\ Leader \in Consumers
  BY PipesOK DEF Warps, IInv, PrefetchNext, Typed
<1>2. Moved(c)
  BY <1>1, MovesChunk
<1>3. /\ warp'[c].at = "loop" /\ warp'[c].block = warp[c].block + 1 /\ warp[c].block \in Nat
      /\ warp[c].block < Blocks /\ Blocks \in Nat /\ DmaIssues = Blocks
  <2>1. warp[c].block < Blocks
    BY <1>1, ChunkCounts DEF Placed, InChunks
  <2>2. warp[c].block \in Nat /\ Blocks \in Nat
    BY <1>1, Mover
  <2>3. DmaIssues = Blocks
    BY <1>1, <2>1, <2>2, PipeFacts
  <2> QED BY <1>1, <2>1, <2>2, <2>3, Mover, ChunkCounts DEF PrefetchNext
<1>4. /\ ~Holding(c)' /\ ~At(c, "init")' /\ ~At(c, "init")
      /\ ~Setup(c) /\ ~Setup(c)' /\ ~At(c, "start") /\ ~At(c, "start")'
      /\ ~At(c, "second") /\ ~At(c, "second")' /\ ~Turned(c) /\ ~Turned(c)'
      /\ ~At(c, "prefetch")' /\ ~Held(c, "prefetch")'
  BY <1>1, <1>3 DEF Turned, Held, At, Holding, Setup
<1>5. Done(c) = warp[c].block + 1 /\ Done(c)' = warp[c].block + 1
  <2>1. warp[c].block + 1 + 0 = warp[c].block + 1
    BY <1>3
  <2> QED BY <1>1, <1>3, <1>4, <2>1 DEF Done, BlockOf
<1>6. ASSUME c = Leader PROVE Handed'
  BY <1>3, <1>6 DEF Handed, Held, At
<1>7. CASE c = Leader /\ warp[c].block + 2 < Blocks
  <2>1. PICK b \in Nat : b = warp[c].block
    BY <1>3
  <2>2. PICK k \in Nat : k = b + 2
    BY <2>1
  <2>3. k = Loaded("kv")
    BY <1>1, <1>3, <1>4, <1>7, <2>1, <2>2, ChunkLoaded
  <2>4. Loaded("kv")' = k + 1
    <3>1. ~(Blocks < (b + 1) + 2) /\ (b + 1) + 2 = k + 1
      BY <1>3, <1>7, <2>1, <2>2
    <3>2. warp'[Leader].block = b + 1 /\ ~Setup(Leader)' /\ ~At(Leader, "start")'
          /\ ~At(Leader, "second")'
      BY <1>3, <1>4, <1>7, <2>1
    <3> QED BY <1>1, <1>3, <3>1, <3>2, ChunkCounts, SamePipe DEF Loaded
  <2>5. Load("kv", k % 2, k)
    <3>1. Stage(c) = k % 2
      <4>1. b % 2 = (b + 2) % 2
        OBVIOUS
      <4> QED BY <1>1, <2>1, <2>2, <4>1, ChunkCounts DEF Stage
    <3>2. Number(c) + 2 = k
      BY <1>1, <2>1, <2>2, ChunkCounts
    <3> QED BY <1>7, <3>1, <3>2 DEF PrefetchNext
  <2>6. ASSUME NEW d \in Consumers PROVE k < Done(d) + 2
    <3>1. Round(d) = Round(c)
      BY <1>1, ChunkCounts DEF IInv, InStep, Syncing
    <3>2. Round(c) = 2 * b + 3
      BY <1>1, <1>4, <2>1, ChunkCounts DEF Round, At, Held
    <3>3. d \in Warps /\ warp[d].block \in Nat /\ warp[d].tile = 0 /\ ~Pipelined /\ ~Turned(d)
      BY <1>1, ChunkCounts
    <3>4. ~Setup(d)
      BY <3>1, <3>2, <3>3 DEF Round
    <3>5. CASE At(d, "prefetch")
      <4>1. Round(d) = 2 * warp[d].block + 3
        BY <3>3, <3>4, <3>5 DEF Round, At, Held
      <4>2. Done(d) = warp[d].block + 1
        BY <3>3, <3>5 DEF Done, BlockOf
      <4>3. warp[d].block = b
        BY <3>1, <3>2, <3>3, <4>1
      <4> QED BY <2>2, <4>2, <4>3
    <3>6. CASE ~At(d, "prefetch")
      <4>1. Round(d) = 2 * warp[d].block + 2 \/ Round(d) = 2 * warp[d].block + 1
        BY <3>3, <3>4, <3>6 DEF Round
      <4>2. warp[d].block = b + 1
        BY <3>1, <3>2, <3>3, <4>1
      <4>3. Done(d) \in Nat /\ Done(d) >= warp[d].block
        BY <1>1, <3>3 DEF Done, BlockOf
      <4> QED BY <2>2, <4>2, <4>3
    <3> QED BY <3>5, <3>6
  <2>7. k < DmaIssues
    BY <1>3, <1>7, <2>1, <2>2
  <2> QED BY <1>1, <1>2, <1>4, <1>5, <1>6, <1>7, <2>3, <2>4, <2>5, <2>6, <2>7, ChunkLoad
<1>8. CASE ~(c = Leader /\ warp[c].block + 2 < Blocks)
  <2>1. UNCHANGED memVars
    BY <1>8 DEF PrefetchNext
  <2>2. ASSUME c = Leader PROVE Loaded("kv")' = Loaded("kv")
    <3>1. Loaded("kv") = IF Blocks < warp[c].block + 2 THEN Blocks ELSE warp[c].block + 2
      BY <1>1, <1>3, <1>4, <2>2, ChunkLoaded
    <3>2. Loaded("kv") = Blocks
      BY <1>3, <1>8, <2>2, <3>1
    <3>3. Blocks < warp[c].block + 1 + 2
      BY <1>3, <1>8, <2>2
    <3>4. Loaded("kv")' = Blocks
      BY <1>1, <1>3, <1>4, <2>2, <3>3, ChunkCounts, SamePipe DEF Loaded
    <3> QED BY <3>2, <3>4
  <2>3. bcast \in Nat \cup {Nothing, Sums}
    BY <1>1 DEF Typed
  <2> QED BY <1>1, <1>2, <1>4, <1>5, <1>6, <2>1, <2>2, <2>3, ChunkQuiet DEF memVars
<1> QED BY <1>7, <1>8

-----------------------------------------------------------------------------
(* A computing warp is done with a block.                                  *)

LEMMA KeepsFinishBlock ==
  ASSUME IInv, NEW c \in Consumers, FinishBlock(c)
  PROVE  IInv'
<1>1. /\ c \in Warps /\ Typed /\ (\A v \in Warps : Placed(v)) /\ Placed(c) /\ Parities(c)
      /\ pipe' = pipe /\ pipe \in Pipes /\ InStep /\ Leader \in Warps /\ c # Dma /\ Dma \in Warps
      /\ Leader \in Consumers /\ Consumers \subseteq Warps /\ LastRead(c)
      /\ Window /\ Ahead /\ InFlight /\ Filled /\ Granted
  BY PipesOK DEF Warps, IInv, FinishBlock, FinishWith, Typed
<1>2. /\ Pipelined /\ ~Chunks
      /\ \/ At(c, "multiply")
         \/ At(c, "read") /\ warp[c].next = Len(OperandSeq)
  BY <1>1, PipeFacts DEF LastRead, Pipelined
<1>3. Moved(c) /\ \A v \in Warps : v # c => warp'[v] = warp[v]
  <2>1. Moved(c)
    BY <1>1, MovesConsumer
  <2> QED BY <2>1 DEF Moved
<1>4. PICK n \in Nat : n = warp[c].block
  BY <1>1, Mover
<1>5. warp'[c].at = "loop" /\ warp'[c].block = n + 1
  BY <1>1, <1>4, Mover DEF FinishBlock, FinishWith
<1>6. /\ ~Setup(c) /\ ~Setup(c)' /\ ~Turned(c) /\ ~Turned(c)' /\ ~At(c, "prefetch")
      /\ ~At(c, "prefetch")' /\ ~Held(c, "prefetch") /\ ~Held(c, "prefetch")'
      /\ ~At(c, "start") /\ ~At(c, "start")' /\ ~At(c, "query") /\ ~At(c, "query")'
      /\ ~At(c, "fetch") /\ ~At(c, "fetch")' /\ ~At(c, "init") /\ ~At(c, "init")'
  BY <1>2, <1>5 DEF Setup, Turned, Held, At
<1>7. Done(c) = n /\ Done(c)' = n + 1
  BY <1>4, <1>5, <1>6 DEF Done, BlockOf
<1>8. \A o : o # "q" => Passed(c, o) = n /\ Passed(c, o)' = n + 1
  BY <1>7 DEF Passed
<1>9. Passed(c, "q")' = Passed(c, "q")
  BY <1>1, <1>6, SamePipe DEF Passed
<1>10. \A o \in OperandSet : Has(c, o) /\ o # "q"
  <2> SUFFICES ASSUME NEW o \in OperandSet PROVE Has(c, o) /\ o # "q"
    OBVIOUS
  <2>1. PICK i \in DOMAIN OperandSeq : OperandSeq[i] = o
    BY DEF OperandSet
  <2>2. i <= Len(OperandSeq)
    BY <1>1, Mover
  <2>3. o # "q"
    BY <1>1, OperandFacts
  <2> QED BY <1>2, <2>1, <2>2, <2>3 DEF Has
<1>11. \A o : ~Has(c, o)'
  BY <1>5 DEF Has, At, Held
<1>12. /\ warp' \in [Warps -> WarpType] /\ Within'
       /\ (\A v \in Warps : Placed(v) /\ Parities(v))'
       /\ InStep' /\ Base' = Base /\ \A j, m : Tag(j, m)' = Tag(j, m)
       /\ \A d \in Consumers : d # c => /\ Done(d)' = Done(d)
                                        /\ \A j : Passed(d, j)' = Passed(d, j) /\ Has(d, j)' = Has(d, j)
  <2>1. \A v \in Warps : Placed(v) /\ Parities(v)
    BY DEF IInv
  <2> QED BY <1>1, <1>3, <2>1, OthersStay
<1>13. \A d \in Consumers, o \in AllOperands :
         \/ Passed(d, o)' = Passed(d, o) /\ (Has(d, o)' => Has(d, o) \/ There(d, o))
         \/ Passed(d, o)' = Passed(d, o) + 1 /\ Has(d, o) /\ ~Has(d, o)'
  <2> SUFFICES ASSUME NEW d \in Consumers, NEW o \in AllOperands
               PROVE  \/ Passed(d, o)' = Passed(d, o) /\ (Has(d, o)' => Has(d, o))
                      \/ Passed(d, o)' = Passed(d, o) + 1 /\ Has(d, o) /\ ~Has(d, o)'
    OBVIOUS
  <2>1. CASE d # c
    BY <1>12, <2>1
  <2>2. CASE d = c /\ o = "q"
    BY <1>9, <1>11, <2>2
  <2>3. CASE d = c /\ o # "q"
    BY <1>8, <1>10, <1>11, <2>3 DEF AllOperands
  <2> QED BY <2>1, <2>2, <2>3
<1>14. \A o \in AllOperands : Loaded(o)' = Loaded(o)
  <2>1. warp'[Dma] = warp[Dma]
    BY <1>1, <1>3
  <2> QED BY <1>1, <1>2, <2>1, LoadedKept
<1>15. PICK s : s = Stage(c)
  OBVIOUS
<1>16. s \in Stages /\ n % pipe.stages = s
  BY <1>1, <1>4, <1>15, StageOf DEF Stage
<1>17. /\ mbar' = [mbar EXCEPT ![<<"done", s>>] = Arrive(mbar[<<"done", s>>])]
       /\ flight' = flight /\ smem' = smem /\ vt' = vt /\ bcast' = bcast /\ issued' = issued
  BY <1>15 DEF FinishBlock, FinishWith
<1>18. \A l \in Loads : mbar'[l] = mbar[l]
  <2>1. mbar = [b \in Mbars |-> mbar[b]] /\ Loads \subseteq Mbars
    BY <1>1 DEF Typed, Mbars
  <2>2. <<"done", s>> \notin Loads
    <3>1. "done" \notin OperandSet
      BY <1>1, OperandFacts
    <3> QED BY <3>1 DEF Loads
  <2> HIDE DEF Mbars
  <2> QED BY <1>17, <2>1, <2>2
<1>19. /\ Window' /\ InFlight' /\ Filled' /\ Granted'
       /\ \A l \in Loads : LoadBar(l[1], l[2])' = LoadBar(l[1], l[2])
  BY <1>1, <1>12, <1>13, <1>14, <1>17, <1>18, Progress
<1>20. Streaming
  <2>1. c \in Syncing
    BY <1>1 DEF Syncing
  <2> QED BY <1>6, <2>1, Live
<1>21. \A d \in Consumers : n < Done(d) + pipe.stages
  <2> SUFFICES ASSUME NEW d \in Consumers PROVE n < Done(d) + pipe.stages
    OBVIOUS
  <2>1. PICK o : o \in OperandSet
    BY <1>1, OperandFacts
  <2>2. o \in AllOperands /\ o # "q"
    BY <1>10, <2>1 DEF AllOperands
  <2>3. Passed(c, o) < Loaded(o)
    BY <1>1, <1>10, <2>1, <2>2 DEF Granted, There
  <2>4. Loaded(o) <= Passed(d, o) + pipe.stages
    BY <1>1, <2>2 DEF Window
  <2>5. Passed(d, o) = Done(d) /\ Passed(c, o) = n
    BY <1>8, <2>2 DEF Passed
  <2>6. Loaded(o) \in Nat /\ Done(d) \in Nat /\ pipe.stages \in Nat
    BY <1>1, Counts, PipeFacts
  <2> QED BY <2>3, <2>4, <2>5, <2>6
<1>22. /\ DoneBar(s)' /\ \A z \in Stages : z # s /\ DoneBar(z) => DoneBar(z)'
       /\ mbar'[<<"done", s>>] \in [phase : Nat, pending : Nat, count : Nat, tx : Nat]
  <2>1. DoneBar(s)
    BY <1>2, <1>16, <1>20 DEF Streaming
  <2> QED BY <1>1, <1>7, <1>12, <1>16, <1>17, <1>21, <2>1, ArriveKeeps
<1>23. Streaming'
  <2>1. \A l \in Loads : LoadBar(l[1], l[2])'
    BY <1>19, <1>20 DEF Streaming
  <2>2. \A z \in Stages : DoneBar(z)'
    BY <1>2, <1>20, <1>22 DEF Streaming
  <2> QED BY <1>1, <2>1, <2>2, SamePipe DEF Streaming
<1>24. Typed'
  <2>1. /\ mbar' = [b \in Mbars |-> mbar'[b]]
        /\ \A b \in Mbars : mbar'[b] \in [phase : Nat, pending : Nat, count : Nat, tx : Nat]
    <3>1. mbar = [b \in Mbars |-> mbar[b]]
      BY <1>1 DEF Typed
    <3>2. \A b \in Mbars : mbar[b] \in [phase : Nat, pending : Nat, count : Nat, tx : Nat]
      BY <1>1 DEF Typed
    <3> DEFINE r == Arrive(mbar[<<"done", s>>])
    <3>3. mbar' = [mbar EXCEPT ![<<"done", s>>] = r]
      BY <1>17
    <3> HIDE DEF r
    <3>4. mbar' = [b \in Mbars |-> mbar'[b]]
      BY <3>1, <3>3
    <3>5. \A b \in Mbars : b # <<"done", s>> => mbar'[b] = mbar[b]
      BY <3>1, <3>3
    <3>6. \A b \in Mbars : mbar'[b] \in [phase : Nat, pending : Nat, count : Nat, tx : Nat]
      BY <1>22, <3>2, <3>5
    <3> QED BY <3>4, <3>6
  <2> QED BY <1>1, <1>12, <1>17, <2>1, SamePipe DEF Typed, WarpType
<1>25. Ahead'
  <2> SUFFICES ASSUME At(Dma, "load")', NEW d \in Consumers
               PROVE  warp'[Dma].block < (Done(d) + pipe.stages)'
    BY DEF Ahead
  <2>1. warp'[Dma] = warp[Dma]
    BY <1>1, <1>3
  <2>2. warp[Dma].block < Done(d) + pipe.stages
    BY <1>1, <2>1 DEF Ahead, At
  <2>3. Done(d)' \in {Done(d), Done(d) + 1} /\ Done(d) \in Nat
    BY <1>1, <1>7, <1>12, Counts
  <2>4. warp[Dma].block \in Nat /\ pipe.stages \in Nat
    BY <1>1, Mover, PipeFacts
  <2> QED BY <1>1, <2>1, <2>2, <2>3, <2>4
<1>26. Transposed'
  <2>1. CASE pipe.style # "transpose"
    BY <1>1, <2>1 DEF Transposed
  <2>2. CASE pipe.style = "transpose"
    <3> SUFFICES ASSUME NEW d \in Consumers
                 PROVE  /\ At(d, "bar128")' => vt'[<<Stage(d), d>>'] = Number(d)'
                        /\ At(d, "multiply")' => \A e \in Consumers : vt'[<<Stage(d), e>>'] = Number(d)'
      BY DEF Transposed
    <3>1. CASE d = c
      BY <1>5, <3>1 DEF At
    <3>2. CASE d # c
      <4>1. warp'[d] = warp[d]
        BY <1>1, <1>3, <3>2
      <4>2. /\ At(d, "bar128") => vt[<<Stage(d), d>>] = Number(d)
            /\ At(d, "multiply") => \A e \in Consumers : vt[<<Stage(d), e>>] = Number(d)
        BY <2>2 DEF IInv, Transposed
      <4> QED BY <1>1, <1>17, <4>1, <4>2, SamePipe DEF At, Stage, Number
    <3> QED BY <3>1, <3>2
  <2> QED BY <2>1, <2>2
<1>27. Handed'
  BY <1>1, <1>2, SamePipe DEF Handed
<1>28. ~At(Leader, "init")'
  <2>1. ~At(Leader, "init")
    <3>1. c \in Syncing /\ Leader \in Syncing
      BY <1>1 DEF Syncing
    <3>2. ~Setup(Leader)
      BY <1>6, <3>1, Live
    <3> QED BY <3>2 DEF Setup
  <2>2. CASE c = Leader
    BY <1>6, <2>2
  <2>3. CASE c # Leader
    BY <1>1, <1>3, <2>1, <2>3 DEF At
  <2> QED BY <2>2, <2>3
<1> QED BY <1>12, <1>19, <1>23, <1>24, <1>25, <1>26, <1>27, <1>28 DEF IInv

-----------------------------------------------------------------------------
(* The mbarriers are set up.                                               *)

\* Before the bar.sync that makes the mbarriers visible nothing is read or loaded.
LEMMA SetupCounts ==
  ASSUME IInv, At(Leader, "init")
  PROVE  /\ \A w \in Syncing : Setup(w) /\ warp[w].block = 0
         /\ \A o : Loaded(o) = 0
         /\ \A c \in Consumers : /\ Done(c) = 0
                                 /\ \A o : Passed(c, o) = 0 /\ ~Has(c, o)
<1>1. /\ Typed /\ (\A w \in Warps : Placed(w)) /\ InStep /\ Leader \in Syncing /\ Syncing \subseteq Warps
      /\ Leader \in Consumers /\ Leader \in Warps /\ Leader # Dma /\ Consumers \subseteq Warps
      /\ Consumers \subseteq Syncing /\ Dma \in Warps
  BY PipesOK DEF IInv, Syncing, Warps
<1>2. ASSUME NEW w \in Syncing PROVE Setup(w)
  <2>1. Setup(Leader)
    BY DEF Setup
  <2>2. CASE ~Setup(w)
    <3>1. \A v \in Syncing : ~Setup(v)
      BY <2>2, Live
    <3> QED BY <1>1, <2>1, <3>1
  <2> QED BY <2>2
<1>3. ASSUME NEW w \in Syncing PROVE warp[w].block = 0
  <2>1. Setup(w) /\ w \in Warps
    BY <1>1, <1>2
  <2>2. CASE Chunks
    <3>1. w \in Consumers /\ w # Dma
      BY <2>2, PipesOK DEF Syncing
    <3> QED BY <1>1, <2>1, <2>2, <3>1 DEF Placed, InChunks
  <2>3. CASE ~Chunks
    <3>1. InPipeline(w)
      BY <1>1, <2>1, <2>3 DEF Placed
    <3> QED BY <2>1, <3>1 DEF InPipeline, Setup, Held
  <2> QED BY <2>2, <2>3
<1>4. \A w \in Syncing : /\ At(w, "init") \/ Held(w, "start")
                         /\ ~Turned(w) /\ BlockOf(w) = 0
  <2> SUFFICES ASSUME NEW w \in Syncing
               PROVE  (At(w, "init") \/ Held(w, "start")) /\ ~Turned(w) /\ BlockOf(w) = 0
    OBVIOUS
  <2>1. At(w, "init") \/ Held(w, "start")
    BY <1>2 DEF Setup
  <2>2. ~Turned(w)
    BY <2>1 DEF Turned, Held, At
  <2> QED BY <1>3, <2>1, <2>2 DEF BlockOf
<1>5. \A o : Loaded(o) = 0
  <2>1. CASE Pipelined
    <3>1. Dma \in Syncing
      BY <1>1, <2>1, PipeFacts DEF Typed, Syncing
    <3>2. Setup(Dma) /\ ~At(Dma, "load") /\ BlockOf(Dma) = 0
      BY <1>2, <1>4, <3>1 DEF At, Held
    <3> QED BY <2>1, <3>2 DEF Loaded
  <2>2. CASE ~Pipelined
    BY <1>1, <1>2, <2>2 DEF Loaded, WithQuery, Pipelined
  <2> QED BY <2>1, <2>2
<1>6. ASSUME NEW c \in Consumers
      PROVE  Done(c) = 0 /\ \A o : Passed(c, o) = 0 /\ ~Has(c, o)
  <2>1. /\ Setup(c) /\ BlockOf(c) = 0
        /\ At(c, "init") \/ Held(c, "start")
    BY <1>1, <1>2, <1>4
  <2>2. Done(c) = 0
    BY <2>1 DEF Done, Held, At
  <2>3. \A o : Passed(c, o) = 0
    BY <2>1, <2>2 DEF Passed
  <2>4. \A o : ~Has(c, o)
    BY <2>1 DEF Has, At, Held
  <2> QED BY <2>2, <2>3, <2>4
<1> QED BY <1>2, <1>3, <1>5, <1>6

LEMMA KeepsInitMbars ==
  ASSUME IInv, InitMbars
  PROVE  IInv'
<1>1. /\ Typed /\ (\A v \in Warps : Placed(v)) /\ Placed(Leader) /\ Parities(Leader)
      /\ pipe' = pipe /\ pipe \in Pipes /\ InStep /\ Leader \in Warps /\ Leader # Dma /\ Dma \in Warps
      /\ Leader \in Consumers /\ Consumers \subseteq Warps /\ At(Leader, "init")
      /\ Window /\ Ahead /\ Filled /\ Transposed /\ Handed /\ flight = {}
      /\ flight' = {} /\ smem' = smem /\ vt' = vt /\ bcast' = bcast /\ issued' = issued
  BY PipesOK DEF Warps, IInv, InitMbars, Typed
<1>2. Moved(Leader)
  BY <1>1, MovesSkipInit DEF InitMbars
<1>3. warp'[Leader].at = "bar" /\ warp'[Leader].to = "start" /\ warp'[Leader].block = warp[Leader].block
  BY <1>1, Mover DEF InitMbars, SyncThen
<1>4. /\ warp' \in [Warps -> WarpType] /\ Within'
      /\ (\A v \in Warps : Placed(v) /\ Parities(v))'
      /\ InStep' /\ Base' = Base /\ \A j, m : Tag(j, m)' = Tag(j, m)
      /\ \A d \in Consumers : d # Leader =>
           Done(d)' = Done(d) /\ \A j : Passed(d, j)' = Passed(d, j) /\ Has(d, j)' = Has(d, j)
  <2>1. \A v \in Warps : Placed(v) /\ Parities(v)
    BY DEF IInv
  <2> QED BY <1>1, <1>2, <2>1, OthersStay
<1>5. /\ \A o : Loaded(o) = 0
      /\ \A c \in Consumers : Done(c) = 0 /\ \A o : Passed(c, o) = 0 /\ ~Has(c, o)
      /\ warp[Leader].block = 0
  <2>1. Leader \in Syncing
    BY <1>1 DEF Syncing
  <2> QED BY <1>1, <2>1, SetupCounts
<1>6. \A o : Loaded(o)' = 0
  <2>1. CASE Pipelined
    <3>1. warp'[Dma] = warp[Dma] /\ ~Chunks
      BY <1>1, <1>2, <2>1, PipeFacts DEF Moved
    <3> QED BY <1>1, <1>5, <2>1, <3>1, LoadedKept
  <2>2. CASE ~Pipelined
    <3>1. Setup(Leader)' /\ ~Pipelined' /\ ~WithQuery'
      BY <1>1, <1>3, <2>2, SamePipe DEF Setup, Held, At, WithQuery, Pipelined
    <3> QED BY <3>1 DEF Loaded
  <2> QED BY <2>1, <2>2
<1>7. \A c \in Consumers : Done(c)' = 0 /\ \A o : Passed(c, o)' = 0 /\ ~Has(c, o)'
  <2> SUFFICES ASSUME NEW c \in Consumers
               PROVE  Done(c)' = 0 /\ \A o : Passed(c, o)' = 0 /\ ~Has(c, o)'
    OBVIOUS
  <2>1. CASE c # Leader
    BY <1>4, <1>5, <2>1
  <2>2. CASE c = Leader
    <3>1. Setup(Leader)' /\ ~Turned(Leader)' /\ ~At(Leader, "prefetch")' /\ ~Held(Leader, "prefetch")'
      BY <1>3 DEF Setup, Turned, Held, At
    <3>2. BlockOf(Leader)' = 0
      BY <1>3, <1>5, <3>1 DEF BlockOf
    <3>3. Done(Leader)' = 0
      BY <3>1, <3>2 DEF Done
    <3>4. \A o : Passed(Leader, o)' = 0
      BY <3>1, <3>3 DEF Passed
    <3>5. \A o : ~Has(Leader, o)'
      BY <1>3 DEF Has, At, Held
    <3> QED BY <2>2, <3>3, <3>4, <3>5
  <2> QED BY <2>1, <2>2
<1>8. IsFiniteSet(Consumers) /\ Cardinality(Consumers) \in Nat /\ Cardinality(Consumers) # 0
  BY <1>1, PipesOK, FS_CardinalityType, FS_EmptySet
<1>9. mbar' = [b \in Mbars |-> MbarInit(IF b[1] = "done" THEN DoneCount ELSE 1)]
  BY DEF InitMbars
<1>10. Typed'
  <2>1. \A b \in Mbars : mbar'[b] \in [phase : Nat, pending : Nat, count : Nat, tx : Nat]
    BY <1>8, <1>9 DEF MbarInit, DoneCount
  <2>2. mbar' = [b \in Mbars |-> mbar'[b]]
    BY <1>9
  <2>3. IsFiniteSet(flight')
    BY <1>1, FS_EmptySet
  <2> QED BY <1>1, <1>4, <2>1, <2>2, <2>3, SamePipe DEF Typed, WarpType
<1>11. Streaming'
  <2>1. ASSUME NEW o \in AllOperands, NEW s, <<o, s>> \in Loads PROVE LoadBar(o, s)'
    <3>1. <<o, s>> \in Mbars /\ o # "done" /\ s \in Stages
      BY <1>1, <2>1, OperandStages
    <3>2. mbar'[<<o, s>>] = [phase |-> 0, pending |-> 1, count |-> 1, tx |-> 0]
      BY <1>9, <3>1 DEF MbarInit
    <3>3. Filling(o, s)' = {}
      BY <1>1 DEF Filling
    <3>4. Fills(Loaded(o), s)' = 0
      <4>1. Fills(0, s) = 0
        BY <1>1, <3>1, FillsFacts
      <4> QED BY <1>1, <1>6, <4>1, SamePipe DEF Fills
    <3> QED BY <3>2, <3>3, <3>4 DEF LoadBar
  <2>2. ASSUME NEW s \in Stages PROVE DoneBar(s)'
    <3>1. <<"done", s>> \in Mbars
      BY DEF Mbars
    <3>2. mbar'[<<"done", s>>] = [phase |-> 0, pending |-> DoneCount, count |-> DoneCount, tx |-> 0]
      BY <1>9, <3>1 DEF MbarInit
    <3>3. \A c \in Consumers : Fills(Done(c), s)' = 0
      <4>1. Fills(0, s) = 0
        BY <1>1, FillsFacts
      <4> QED BY <1>1, <1>7, <4>1, SamePipe DEF Fills
    <3>4. Owing(s, 0)' = Consumers
      BY <3>3 DEF Owing
    <3> QED BY <1>8, <3>2, <3>3, <3>4 DEF DoneBar, DoneCount
  <2>3. ASSUME NEW l \in Loads PROVE LoadBar(l[1], l[2])'
    <3>1. l[1] \in AllOperands /\ <<l[1], l[2]>> \in Loads
      BY DEF Loads, AllOperands
    <3> QED BY <2>1, <3>1
  <2> QED BY <1>1, <2>2, <2>3, SamePipe DEF Streaming
<1>12. Window' /\ InFlight' /\ Granted'
  <2>1. Window'
    <3>1. pipe.stages \in Nat /\ \A o \in OperandSet : 0 <= DmaIssues /\ issued[o] = Base + Loaded(o)
      BY <1>1, PipeFacts DEF Window
    <3> QED BY <1>1, <1>4, <1>5, <1>6, <1>7, <3>1, SamePipe DEF Window
  <2> QED BY <1>1, <1>7, <2>1 DEF InFlight, Granted
<1>13. Filled'
  <2>1. ~\E o, s : \E m \in Nat : Latest(o, s, m)'
    BY <1>6 DEF Latest
  <2> QED BY <2>1 DEF Filled
<1>14. Ahead' /\ Transposed' /\ Handed'
  <2>1. Ahead'
    <3>1. warp'[Dma] = warp[Dma]
      BY <1>1, <1>2 DEF Moved
    <3> QED BY <1>1, <1>5, <1>7, <3>1 DEF Ahead, At
  <2>2. Transposed'
    <3>1. CASE pipe.style = "transpose"
      <4> SUFFICES ASSUME NEW c \in Consumers PROVE ~At(c, "bar128")' /\ ~At(c, "multiply")'
        BY DEF Transposed
      <4>1. CASE c = Leader
        BY <1>3, <4>1 DEF At
      <4>2. CASE c # Leader
        <5>1. c \in Syncing /\ warp'[c] = warp[c]
          BY <1>1, <1>2, <4>2 DEF Syncing, Moved
        <5>2. Setup(c)
          BY <1>1, <5>1, SetupCounts
        <5> QED BY <5>1, <5>2 DEF Setup, Held, At
      <4> QED BY <4>1, <4>2
    <3>2. CASE pipe.style # "transpose"
      BY <1>1, <3>2 DEF Transposed
    <3> QED BY <3>1, <3>2
  <2>3. Handed'
    BY <1>3 DEF Handed, Held, At
  <2> QED BY <2>1, <2>2, <2>3
<1> QED BY <1>1, <1>4, <1>10, <1>11, <1>12, <1>13, <1>14 DEF IInv

LEMMA KeepsSkipInit ==
  ASSUME IInv, NEW w \in Warps, SkipInit(w)
  PROVE  IInv'
<1>1. /\ Typed /\ Placed(w) /\ Parities(w) /\ At(w, "init") /\ w # Leader
      /\ pipe' = pipe /\ UNCHANGED memVars
  BY DEF IInv, SkipInit
<1>2. Moved(w)
  BY <1>1, MovesSkipInit DEF SkipInit
<1>3. warp'[w].at = "bar" /\ warp'[w].to = "start" /\ warp'[w].block = warp[w].block
  BY <1>1, Mover DEF SkipInit, SyncThen
<1>4. /\ Setup(w) /\ Setup(w)' /\ ~Turned(w) /\ ~Turned(w)' /\ BlockOf(w)' = BlockOf(w)
      /\ ~At(w, "load") /\ ~At(w, "load")'
  BY <1>1, <1>3 DEF Setup, Turned, Held, At, BlockOf
<1>5. Done(w)' = Done(w)
  BY <1>1, <1>3, <1>4 DEF Done, Held, At
<1>6. \A o \in AllOperands : Passed(w, o)' = Passed(w, o) /\ ~Has(w, o)'
  <2>1. \A o : Passed(w, o)' = Passed(w, o)
    BY <1>1, <1>4, <1>5, SamePipe DEF Passed
  <2>2. \A o : ~Has(w, o)'
    BY <1>3 DEF Has, At, Held
  <2> QED BY <2>1, <2>2
<1>7. \A o \in AllOperands : Loaded(o)' = Loaded(o)
  <2>1. warp'[Leader] = warp[Leader]
    BY <1>1, <1>2, PipesOK DEF Moved, Warps
  <2>2. CASE w # Dma
    <3>1. warp'[Dma] = warp[Dma]
      BY <1>2, <2>2 DEF Moved, Warps
    <3> QED BY <1>1, <2>1, <3>1, LoadedKept
  <2>3. CASE w = Dma
    <3>1. Pipelined
      BY <1>1, <2>3, PipeFacts DEF Typed, Placed, InChunks, At
    <3> QED BY <1>1, <1>4, <2>3, <3>1, SamePipe DEF Loaded
  <2> QED BY <2>2, <2>3
<1>8. w = Dma => Ahead'
  BY <1>4 DEF Ahead
<1>9. /\ mbar' = mbar /\ flight' = flight /\ smem' = smem /\ issued' = issued /\ vt' = vt
      /\ bcast' = bcast /\ vt' \in [Stages \X Consumers -> Nat \cup {Nothing}]
      /\ bcast' \in Nat \cup {Nothing, Sums}
  BY <1>1 DEF memVars, Typed
<1>10. ~At(w, "bar128")' /\ ~At(w, "multiply")' /\ ~At(w, "init")'
  BY <1>3 DEF At
<1> QED BY <1>1, <1>2, <1>5, <1>6, <1>7, <1>8, <1>9, <1>10, MoveKeeps

-----------------------------------------------------------------------------
(* The warps meet.                                                         *)

\* Everybody who goes through a bar.sync was at the same one.
LEMMA SameSync ==
  ASSUME IInv, \A w \in Syncing : At(w, "bar")
  PROVE  /\ \A w \in Syncing : warp[w].to = warp[Leader].to /\ warp[w].block = warp[Leader].block
         /\ warp[Leader].to \in IF Chunks THEN {"start", "read", "prefetch", "normalize"}
                                ELSE {"start", "init"}
<1>1. /\ Typed /\ (\A w \in Warps : Placed(w)) /\ InStep /\ Leader \in Syncing /\ Syncing \subseteq Warps
      /\ Leader \in Consumers /\ Leader # Dma /\ Consumers \subseteq Warps
  BY PipesOK DEF IInv, Syncing, Warps
<1>2. CASE ~Chunks
  <2>1. \A w \in Syncing : warp[w].to \in {"start", "init"} /\ warp[w].block = 0
    <3> SUFFICES ASSUME NEW w \in Syncing PROVE warp[w].to \in {"start", "init"} /\ warp[w].block = 0
      OBVIOUS
    <3>1. InPipeline(w) /\ At(w, "bar")
      BY <1>1, <1>2 DEF Placed
    <3> QED BY <3>1 DEF InPipeline
  <2>2. \A w \in Syncing : Setup(w) <=> Setup(Leader)
    BY <1>1, <1>2, SameTile, PipeFacts DEF Typed
  <2>3. \A w \in Syncing : Setup(w) <=> warp[w].to = "start"
    BY DEF Setup, Held, At
  <2>4. \A w \in Syncing : warp[w].to = warp[Leader].to
    BY <1>1, <2>1, <2>2, <2>3
  <2> QED BY <1>1, <1>2, <2>1, <2>4
<1>3. CASE Chunks
  <2>1. ASSUME NEW w \in Syncing
        PROVE  /\ warp[w].to \in {"start", "read", "prefetch", "normalize"}
               /\ warp[w].to = "start" => warp[w].block = 0
               /\ warp[w].to = "read" \/ warp[w].to = "prefetch" => warp[w].block < Blocks
               /\ warp[w].to = "normalize" => warp[w].block = Blocks
               /\ warp[w].block \in Nat /\ Blocks \in Nat
               /\ Round(w) = IF warp[w].to = "start" THEN 0
                             ELSE IF warp[w].to = "prefetch" THEN 2 * warp[w].block + 2
                             ELSE 2 * warp[w].block + 1
    <3>1. w \in Consumers /\ w # Dma /\ At(w, "bar") /\ Placed(w)
      BY <1>1, <1>3, PipesOK DEF Syncing
    <3>2. InChunks(w)
      BY <1>3, <3>1 DEF Placed
    <3>3. warp[w].block \in Nat /\ Blocks \in Nat /\ ~Pipelined /\ warp[w].tile = 0
      BY <1>1, <1>3, <3>1, ChunkCounts, Mover
    <3>4. /\ warp[w].to \in {"start", "read", "prefetch", "normalize"}
          /\ warp[w].to = "start" => warp[w].block = 0
          /\ warp[w].to = "read" \/ warp[w].to = "prefetch" => warp[w].block < Blocks
          /\ warp[w].to = "normalize" => warp[w].block = Blocks
      BY <3>1, <3>2 DEF InChunks, Setup, Held
    <3>5. Round(w) = IF warp[w].to = "start" THEN 0
                     ELSE IF warp[w].to = "prefetch" THEN 2 * warp[w].block + 2
                     ELSE 2 * warp[w].block + 1
      <4>1. Setup(w) <=> warp[w].to = "start"
        BY <3>1 DEF Setup, Held, At
      <4>2. ~At(w, "read") /\ ~At(w, "normalize") /\ ~At(w, "exit") /\ ~At(w, "prefetch")
            /\ (Held(w, "prefetch") <=> warp[w].to = "prefetch")
        BY <3>1 DEF Held, At
      <4> QED BY <3>3, <4>1, <4>2 DEF Round
    <3> QED BY <3>3, <3>4, <3>5
  <2>2. ASSUME NEW w \in Syncing
        PROVE  warp[w].to = warp[Leader].to /\ warp[w].block = warp[Leader].block
    <3>1. Round(w) = Round(Leader)
      BY <1>1 DEF InStep
    <3>2. warp[w].block \in Nat /\ warp[Leader].block \in Nat /\ Blocks \in Nat
      BY <1>1, <2>1
    <3>3. PICK a \in Nat : a = warp[w].block
      BY <3>2
    <3>4. PICK b \in Nat : b = warp[Leader].block
      BY <3>2
    <3>5. PICK m \in Nat : m = Blocks
      BY <3>2
    <3>6. PICK t, u : t = warp[w].to /\ u = warp[Leader].to
      OBVIOUS
    <3>7. /\ t = warp[w].to /\ u = warp[Leader].to /\ a = warp[w].block /\ b = warp[Leader].block
          /\ m = Blocks
      BY <3>3, <3>4, <3>5, <3>6
    <3>8. /\ warp[Leader].to \in {"start", "read", "prefetch", "normalize"}
          /\ warp[Leader].to = "start" => warp[Leader].block = 0
          /\ warp[Leader].to = "read" \/ warp[Leader].to = "prefetch" => warp[Leader].block < Blocks
          /\ warp[Leader].to = "normalize" => warp[Leader].block = Blocks
          /\ Round(Leader) = IF warp[Leader].to = "start" THEN 0
                             ELSE IF warp[Leader].to = "prefetch" THEN 2 * warp[Leader].block + 2
                             ELSE 2 * warp[Leader].block + 1
      BY <1>1, <2>1
    <3>9. /\ t \in {"start", "read", "prefetch", "normalize"}
          /\ t = "start" => a = 0
          /\ t = "read" \/ t = "prefetch" => a < m
          /\ t = "normalize" => a = m
          /\ Round(w) = IF t = "start" THEN 0 ELSE IF t = "prefetch" THEN 2 * a + 2 ELSE 2 * a + 1
      BY <2>1, <3>7
    <3>10. /\ u \in {"start", "read", "prefetch", "normalize"}
           /\ u = "start" => b = 0
           /\ u = "read" \/ u = "prefetch" => b < m
           /\ u = "normalize" => b = m
           /\ Round(Leader) = IF u = "start" THEN 0 ELSE IF u = "prefetch" THEN 2 * b + 2 ELSE 2 * b + 1
      <4>1. /\ u \in {"start", "read", "prefetch", "normalize"}
            /\ u = "start" => b = 0
            /\ u = "read" \/ u = "prefetch" => b < m
            /\ u = "normalize" => b = m
        BY <3>4, <3>5, <3>6, <3>8
      <4>2. Round(Leader) = IF u = "start" THEN 0 ELSE IF u = "prefetch" THEN 2 * b + 2 ELSE 2 * b + 1
        BY <3>4, <3>6, <3>8
      <4> QED BY <4>1, <4>2
    <3>11. t = u /\ a = b
      <4>1. (IF t = "start" THEN 0 ELSE IF t = "prefetch" THEN 2 * a + 2 ELSE 2 * a + 1)
              = IF u = "start" THEN 0 ELSE IF u = "prefetch" THEN 2 * b + 2 ELSE 2 * b + 1
        BY <3>1, <3>9, <3>10
      <4>2. CASE t = "start"
        BY <3>9, <3>10, <4>1, <4>2
      <4>3. CASE t = "read"
        BY <3>9, <3>10, <4>1, <4>3
      <4>4. CASE t = "prefetch"
        BY <3>9, <3>10, <4>1, <4>4
      <4>5. CASE t = "normalize"
        BY <3>9, <3>10, <4>1, <4>5
      <4> QED BY <3>9, <4>2, <4>3, <4>4, <4>5
    <3> QED BY <3>7, <3>11
  <2> QED BY <1>1, <1>3, <2>1, <2>2
<1> QED BY <1>2, <1>3

\* A record with another place in it.
LEMMA PlaceSet ==
  ASSUME NEW r \in WarpType, NEW l \in Labels
  PROVE  /\ [r EXCEPT !.at = l] \in WarpType /\ [r EXCEPT !.at = l].at = l
         /\ [r EXCEPT !.at = l].to = r.to /\ [r EXCEPT !.at = l].tile = r.tile
         /\ [r EXCEPT !.at = l].block = r.block /\ [r EXCEPT !.at = l].next = r.next
         /\ [r EXCEPT !.at = l].parity = r.parity
BY DEF WarpType

\* Where the warps are after it.
LEMMA Released ==
  ASSUME IInv, BarSync
  PROVE  /\ UNCHANGED <<pipe, memVars>> /\ warp' \in [Warps -> WarpType] /\ Within'
         /\ \A w \in Syncing : /\ At(w, "bar") /\ warp'[w].at = warp[w].to
                               /\ warp'[w].to = warp[w].to /\ warp'[w].tile = warp[w].tile
                               /\ warp'[w].block = warp[w].block /\ warp'[w].next = warp[w].next
                               /\ warp'[w].parity = warp[w].parity
         /\ Chunks => warp'[Dma] = warp[Dma]
<1>1. /\ Typed /\ (\A w \in Warps : Placed(w)) /\ Dma \in Warps /\ Syncing \subseteq Warps
      /\ Dma \notin Consumers
  BY PipesOK DEF IInv, Syncing, Warps
<1>2. warp \in [Warps -> WarpType]
  BY <1>1 DEF Typed, WarpType
<1>3. \A w \in Syncing : At(w, "bar")
  BY <1>1 DEF BarSync, Syncing, Chunks
<1>4. Chunks => At(Dma, "exit")
  BY <1>1 DEF Placed, InChunks
<1>5. \A w \in Warps : warp[w] \in WarpType /\ warp[w].to \in Labels
  BY <1>2 DEF WarpType
<1>6. \A w \in Warps : warp'[w] = IF At(w, "bar") THEN [warp[w] EXCEPT !.at = warp[w].to] ELSE warp[w]
  BY DEF BarSync
<1>7. warp' \in [Warps -> WarpType]
  <2>1. ASSUME NEW w \in Warps PROVE warp'[w] \in WarpType
    <3>1. CASE At(w, "bar")
      <4>1. PICK l \in Labels : l = warp[w].to
        BY <1>5
      <4>2. warp'[w] = [warp[w] EXCEPT !.at = l]
        BY <1>6, <3>1, <4>1
      <4>3. [warp[w] EXCEPT !.at = l] \in WarpType
        BY <1>5, PlaceSet
      <4> QED BY <4>2, <4>3
    <3>2. CASE ~At(w, "bar")
      <4>1. warp'[w] = warp[w]
        BY <1>6, <3>2
      <4> QED BY <1>5, <4>1
    <3> QED BY <3>1, <3>2
  <2>2. warp' = [w \in Warps |-> warp'[w]]
    BY DEF BarSync
  <2> QED BY <2>1, <2>2
<1>8. \A w \in Syncing : /\ At(w, "bar") /\ warp'[w].at = warp[w].to
                         /\ warp'[w].to = warp[w].to /\ warp'[w].tile = warp[w].tile
                         /\ warp'[w].block = warp[w].block /\ warp'[w].next = warp[w].next
                         /\ warp'[w].parity = warp[w].parity
  <2> SUFFICES ASSUME NEW w \in Syncing
               PROVE  /\ At(w, "bar") /\ warp'[w].at = warp[w].to
                      /\ warp'[w].to = warp[w].to /\ warp'[w].tile = warp[w].tile
                      /\ warp'[w].block = warp[w].block /\ warp'[w].next = warp[w].next
                      /\ warp'[w].parity = warp[w].parity
    OBVIOUS
  <2>1. At(w, "bar") /\ w \in Warps
    BY <1>1, <1>3
  <2>2. warp'[w] = [warp[w] EXCEPT !.at = warp[w].to]
    BY <1>6, <2>1
  <2> QED BY <1>5, <2>1, <2>2, PlaceSet
<1>9. Chunks => warp'[Dma] = warp[Dma]
  <2>1. At(Dma, "exit") => ~At(Dma, "bar")
    BY DEF At
  <2> QED BY <1>1, <1>4, <1>6, <2>1
<1>10. Within'
  <2>1. pipe' = pipe /\ Blocks' = Blocks
    BY SamePipe DEF BarSync
  <2>2. ASSUME NEW w \in Warps PROVE warp'[w].block = warp[w].block
    <3>1. CASE At(w, "bar")
      <4>1. warp'[w] = [warp[w] EXCEPT !.at = warp[w].to]
        BY <1>6, <3>1
      <4> QED BY <1>5, <4>1, PlaceSet
    <3>2. CASE ~At(w, "bar")
      BY <1>6, <3>2
    <3> QED BY <3>1, <3>2
  <2> QED BY <1>1, <2>1, <2>2 DEF Typed, Within
<1> QED BY <1>7, <1>8, <1>9, <1>10 DEF BarSync

\* Where a computing or loading warp goes from a bar.sync keeps it in its place.
LEMMA ReleasedPlaces ==
  ASSUME IInv, BarSync
  PROVE  /\ (\A w \in Warps : Placed(w) /\ Parities(w))' /\ InStep'
         /\ \A w \in Syncing : Round(w)' = Round(w) + 1
<1>1. /\ Typed /\ (\A w \in Warps : Placed(w) /\ Parities(w)) /\ InStep /\ Leader \in Syncing
      /\ Syncing \subseteq Warps /\ Leader \in Consumers /\ Leader # Dma /\ Dma \notin Consumers
      /\ Consumers \subseteq Warps /\ pipe \in Pipes /\ Consumers \subseteq Syncing /\ Dma \in Warps
      /\ \A w \in Warps : w \notin Syncing => w = Dma /\ Chunks
  BY PipesOK DEF IInv, Syncing, Warps, Typed
<1>2. /\ pipe' = pipe
      /\ \A w \in Syncing : /\ At(w, "bar") /\ warp'[w].at = warp[w].to
                            /\ warp'[w].to = warp[w].to /\ warp'[w].tile = warp[w].tile
                            /\ warp'[w].block = warp[w].block /\ warp'[w].next = warp[w].next
                            /\ warp'[w].parity = warp[w].parity
      /\ Chunks => warp'[Dma] = warp[Dma]
  BY Released
<1>3. ASSUME NEW w \in Warps, w \notin Syncing PROVE Placed(w)' /\ Parities(w)'
  BY <1>1, <1>2, <1>3, SameWarp
<1>4. ASSUME NEW w \in Syncing, ~Chunks
      PROVE  Placed(w)' /\ Parities(w)' /\ Round(w)' = Round(w) + 1
  <2>1. InPipeline(w) /\ w \in Warps /\ Pipelined /\ warp[w].tile \in Nat
    BY <1>1, <1>4, Mover, PipeFacts DEF Placed
  <2>2. warp[w].to \in {"start", "init"} /\ warp[w].block = 0
    BY <1>2, <2>1 DEF InPipeline, At
  <2>3. warp[w].to = "init" => warp[w].tile # 0
    BY <1>2, <2>1 DEF InPipeline, Turned, Held
  <2>4. Placed(w)'
    <3>1. InPipeline(w)'
      BY <1>2, <2>2, <2>3, SamePipe DEF InPipeline, At, Turned, Held
    <3> QED BY <1>2, <1>4, <3>1, SamePipe DEF Placed
  <2>5. Parities(w)'
    BY <1>2, <1>4, <2>2, SamePipe DEF Parities, At
  <2>6. Round(w)' = Round(w) + 1
    <3>1. CASE warp[w].to = "start"
      <4>1. Setup(w) /\ ~Setup(w)' /\ ~Turned(w)'
        BY <1>2, <3>1 DEF Setup, Turned, Held, At
      <4> QED BY <1>2, <2>1, <4>1, SamePipe DEF Round, TileOf
    <3>2. CASE warp[w].to = "init"
      <4>1. ~Setup(w) /\ Setup(w)' /\ Turned(w)
        BY <1>2, <3>2 DEF Setup, Turned, Held, At
      <4>2. Round(w) = 2 * (warp[w].tile - 1) + 1
        BY <2>1, <4>1 DEF Round, TileOf
      <4>3. Round(w)' = 2 * warp[w].tile
        BY <1>2, <4>1 DEF Round
      <4> QED BY <2>1, <4>2, <4>3
    <3> QED BY <2>2, <3>1, <3>2
  <2> QED BY <2>4, <2>5, <2>6
<1>5. ASSUME NEW w \in Syncing, Chunks
      PROVE  Placed(w)' /\ Parities(w)' /\ Round(w)' = Round(w) + 1
  <2>1. w \in Consumers /\ w \in Warps /\ w # Dma /\ InChunks(w) /\ At(w, "bar")
    BY <1>1, <1>2, <1>5 DEF Placed, Syncing
  <2>2. ~Pipelined /\ warp[w].tile = 0 /\ warp[w].block \in Nat /\ Blocks \in Nat
    BY <1>1, <1>5, <2>1, ChunkCounts, PipeFacts
  <2>3. /\ warp[w].to \in {"start", "read", "prefetch", "normalize"}
        /\ warp[w].to = "start" => warp[w].block = 0
        /\ warp[w].to = "read" \/ warp[w].to = "prefetch" => warp[w].block < Blocks
        /\ warp[w].to = "normalize" => warp[w].block = Blocks
    BY <2>1 DEF InChunks, Setup, Held
  <2>4. Placed(w)'
    <3>1. InChunks(w)'
      BY <1>2, <2>1, <2>2, <2>3, SamePipe DEF InChunks, At, Setup, Held
    <3> QED BY <1>2, <1>5, <3>1, SamePipe DEF Placed
  <2>5. Parities(w)'
    <3>1. Counted(w)' = Counted(w)
      BY <1>2, <1>5, <2>1, <2>3, SamePipe DEF Counted, At, Held
    <3>2. \A s \in Stages : warp[w].parity[s] = ParityOf(w, s)
      BY <1>1, <1>5, <2>1 DEF Parities
    <3> QED BY <1>2, <2>1, <3>1, <3>2, ParityKept
  <2>6. Round(w)' = Round(w) + 1
    <3>1. CASE warp[w].to = "start"
      <4>1. Setup(w) /\ ~Setup(w)' /\ ~At(w, "read")' /\ ~Held(w, "prefetch")' /\ ~At(w, "normalize")'
            /\ ~At(w, "exit")' /\ ~At(w, "prefetch")'
        BY <1>2, <3>1 DEF Setup, Held, At
      <4>2. Round(w) = 0 /\ Round(w)' = 2 * 0 + 1
        BY <1>2, <2>2, <2>3, <3>1, <4>1, SamePipe DEF Round
      <4> QED BY <4>2
    <3>2. CASE warp[w].to = "read"
      <4>1. Round(w) = 2 * warp[w].block + 1
        BY <1>2, <2>2, <3>2 DEF Round, Setup, Held, At
      <4>2. Round(w)' = 2 * warp[w].block + 2
        BY <1>2, <2>2, <3>2, SamePipe DEF Round, Setup, Held, At
      <4> QED BY <2>2, <4>1, <4>2
    <3>3. CASE warp[w].to = "prefetch"
      <4>1. Round(w) = 2 * warp[w].block + 2
        BY <1>2, <2>2, <3>3 DEF Round, Setup, Held, At
      <4>2. Round(w)' = 2 * warp[w].block + 3
        BY <1>2, <2>2, <3>3, SamePipe DEF Round, Setup, Held, At
      <4> QED BY <2>2, <4>1, <4>2
    <3>4. CASE warp[w].to = "normalize"
      <4>1. Round(w) = 2 * warp[w].block + 1
        BY <1>2, <2>2, <3>4 DEF Round, Setup, Held, At
      <4>2. Round(w)' = 2 * warp[w].block + 2
        BY <1>2, <2>2, <3>4, SamePipe DEF Round, Setup, Held, At
      <4> QED BY <2>2, <4>1, <4>2
    <3> QED BY <2>3, <3>1, <3>2, <3>3, <3>4
  <2> QED BY <2>4, <2>5, <2>6
<1>6. \A w \in Syncing : Placed(w)' /\ Parities(w)' /\ Round(w)' = Round(w) + 1
  BY <1>4, <1>5
<1>7. \A w \in Warps : Placed(w)' /\ Parities(w)'
  BY <1>3, <1>6
<1>8. InStep'
  <2>1. Syncing' = Syncing
    BY <1>2, SamePipe DEF Syncing
  <2>2. \A v, w \in Syncing : Round(v)' = Round(w)'
    BY <1>1, <1>6 DEF InStep
  <2>3. ASSUME pipe.style = "transpose", NEW c \in Consumers, NEW d \in Consumers
        PROVE  Shared(c)' = Shared(d)'
    <3>1. ~Chunks /\ c \in Syncing /\ d \in Syncing /\ pipe.tiles \in Nat
      BY <1>1, <2>3, PipeFacts DEF Chunks
    <3>2. \A w \in {c, d} : /\ Shared(w)' = 0
                            /\ warp[w].to \in {"start", "init"}
      <4> SUFFICES ASSUME NEW w \in {c, d} PROVE Shared(w)' = 0 /\ warp[w].to \in {"start", "init"}
        OBVIOUS
      <4>1. w \in Syncing /\ w \in Warps /\ InPipeline(w)
        BY <1>1, <3>1 DEF Placed
      <4>2. warp[w].to \in {"start", "init"} /\ warp[w].block = 0
        BY <1>2, <4>1 DEF InPipeline
      <4>3. ~Turned(w)' /\ ~At(w, "multiply")'
        BY <1>2, <4>1, <4>2 DEF Turned, Held, At
      <4> QED BY <1>2, <4>1, <4>2, <4>3 DEF Shared, BlockOf
    <3> QED BY <3>2
  <2> QED BY <1>2, <2>1, <2>2, <2>3 DEF InStep
<1> QED BY <1>6, <1>7, <1>8

LEMMA KeepsBarSyncOn ==
  ASSUME IInv, BarSync, warp[Leader].to # "init"
  PROVE  IInv'
<1>1. /\ Typed /\ (\A w \in Warps : Placed(w)) /\ InStep /\ Leader \in Syncing
      /\ Syncing \subseteq Warps /\ Leader \in Consumers /\ Leader # Dma /\ Dma \notin Consumers
      /\ Consumers \subseteq Warps /\ pipe \in Pipes /\ Consumers \subseteq Syncing /\ Dma \in Warps
      /\ Window /\ Ahead /\ InFlight /\ Filled /\ Granted /\ Transposed /\ Handed
      /\ (Chunks \/ Pipelined) /\ (Chunks => ~Pipelined)
  BY PipesOK, PipeFacts DEF IInv, Syncing, Warps, Typed
<1>2. /\ pipe' = pipe /\ warp' \in [Warps -> WarpType] /\ Within' /\ UNCHANGED memVars
      /\ \A w \in Syncing : /\ At(w, "bar") /\ warp'[w].at = warp[w].to
                            /\ warp'[w].to = warp[w].to /\ warp'[w].tile = warp[w].tile
                            /\ warp'[w].block = warp[w].block /\ warp'[w].next = warp[w].next
                            /\ warp'[w].parity = warp[w].parity
      /\ Chunks => warp'[Dma] = warp[Dma]
  BY Released
<1>3. /\ mbar' = mbar /\ flight' = flight /\ smem' = smem /\ issued' = issued /\ vt' = vt
      /\ bcast' = bcast
  BY <1>2 DEF memVars
<1>4. \A w \in Syncing : warp[w].to = warp[Leader].to
  BY <1>1, <1>2, SameSync
<1>5. warp[Leader].to \in IF Chunks THEN {"start", "read", "prefetch", "normalize"} ELSE {"start"}
  BY <1>1, <1>2, SameSync
<1>6. (\A w \in Warps : Placed(w) /\ Parities(w))' /\ InStep'
  BY ReleasedPlaces
<1>7. ASSUME NEW w \in Syncing
      PROVE  /\ ~Turned(w) /\ ~Turned(w)' /\ BlockOf(w)' = BlockOf(w) /\ TileOf(w)' = TileOf(w)
             /\ Done(w)' = Done(w)
             /\ Setup(w) \/ At(w, "start")' <=> warp[w].to = "start"
             /\ (Setup(w) <=> warp[w].to = "start") /\ ~Setup(w)'
             /\ ~At(w, "start") /\ ~At(w, "query")' /\ ~At(w, "fetch")' /\ ~At(w, "load")'
             /\ ~At(w, "load") /\ ~At(w, "second")' /\ ~At(w, "second") /\ ~At(w, "bar128")'
             /\ ~At(w, "multiply")' /\ (At(w, "start")' <=> warp[w].to = "start") /\ ~At(w, "init")'
             /\ ~At(w, "query") /\ ~At(w, "fetch")
  <2>1. warp[w].to \in {"start", "read", "prefetch", "normalize"}
    BY <1>4, <1>5
  <2>2. ~Turned(w) /\ ~Turned(w)'
    BY <1>2, <2>1 DEF Turned, Held, At
  <2>3. BlockOf(w)' = BlockOf(w) /\ TileOf(w)' = TileOf(w)
    BY <1>2, <2>2 DEF BlockOf, TileOf
  <2>4. Done(w)' = Done(w)
    BY <1>2, <2>1, <2>3 DEF Done, At, Held
  <2>5. /\ Setup(w) \/ At(w, "start")' <=> warp[w].to = "start"
        /\ (Setup(w) <=> warp[w].to = "start") /\ ~Setup(w)'
    BY <1>2, <2>1 DEF Setup, Held, At
  <2>6. /\ ~At(w, "start") /\ ~At(w, "query")' /\ ~At(w, "fetch")' /\ ~At(w, "load")'
        /\ ~At(w, "load") /\ ~At(w, "second")' /\ ~At(w, "second") /\ ~At(w, "bar128")'
        /\ ~At(w, "multiply")' /\ (At(w, "start")' <=> warp[w].to = "start") /\ ~At(w, "init")'
        /\ ~At(w, "query") /\ ~At(w, "fetch")
    BY <1>2, <2>1 DEF At
  <2> QED BY <2>2, <2>3, <2>4, <2>5, <2>6
<1>8. Base' = Base /\ \A o, m : Tag(o, m)' = Tag(o, m)
  <2>1. TileOf(Leader)' = TileOf(Leader)
    BY <1>1, <1>7
  <2> QED BY <1>2, <2>1, SamePipe DEF Base, Tag
<1>9. \A o \in AllOperands : Loaded(o)' = Loaded(o)
  <2>1. CASE Pipelined
    <3>1. Dma \in Syncing
      BY <1>1, <2>1 DEF Syncing
    <3> QED BY <1>2, <1>7, <2>1, <3>1, SamePipe DEF Loaded
  <2>2. CASE ~Pipelined
    <3>1. ~WithQuery
      BY <2>2 DEF WithQuery, Pipelined
    <3> QED BY <1>1, <1>2, <1>7, <2>2, <3>1, SamePipe DEF Loaded
  <2> QED BY <2>1, <2>2
<1>10. ASSUME NEW c \in Consumers, NEW o \in AllOperands
       PROVE  Passed(c, o)' = Passed(c, o) /\ (Has(c, o)' => Has(c, o))
  <2>1. Passed(c, o)' = Passed(c, o)
    <3>1. c \in Syncing
      BY <1>1
    <3>2. WithQuery => warp[c].to = "start"
      <4>1. WithQuery => ~Chunks
        BY DEF WithQuery, Chunks
      <4> QED BY <1>4, <1>5, <3>1, <4>1
    <3> QED BY <1>2, <1>7, <3>1, <3>2, SamePipe DEF Passed
  <2>2. ASSUME Has(c, o)' PROVE Has(c, o)
    <3>1. c \in Syncing /\ warp[c].to \in {"start", "read", "prefetch", "normalize"}
      BY <1>1, <1>4, <1>5
    <3>2. CASE warp[c].to # "read"
      <4>1. FALSE
        BY <1>2, <2>2, <3>1, <3>2 DEF Has, At, Held
      <4> QED BY <4>1
    <3>3. CASE warp[c].to = "read"
      <4>1. Chunks
        BY <1>1, <1>4, <1>5, <3>1, <3>3
      <4>2. Held(c, "read")
        BY <1>2, <3>1, <3>3 DEF Held
      <4>3. Has(c, o) <=> o = "kv" /\ Holding(c)
        BY <1>1, <4>1, ChunkHas
      <4>4. o = "kv"
        <5>1. OperandSeq = <<"kv">>
          BY <1>1, <4>1, OperandFacts
        <5>2. o # "q" \/ ~At(c, "fetch")'
          BY <1>7, <3>1
        <5>3. \E i \in DOMAIN OperandSeq : OperandSeq[i] = o
          BY <1>2, <2>2, <5>2, <1>7, <3>1, SamePipe DEF Has
        <5> QED BY <5>1, <5>3
      <4> QED BY <4>2, <4>3, <4>4 DEF Holding
    <3> QED BY <3>2, <3>3
  <2> QED BY <2>1, <2>2
<1>11. /\ Window' /\ InFlight' /\ Filled' /\ Granted'
       /\ \A l \in Loads : LoadBar(l[1], l[2])' = LoadBar(l[1], l[2])
  BY <1>1, <1>2, <1>3, <1>8, <1>9, <1>10, Progress
<1>12. Typed'
  BY <1>1, <1>2, <1>3, SamePipe DEF Typed, WarpType
<1>13. Streaming'
  <2>1. Streaming
    <3>1. ~At(Leader, "init")
      BY <1>1, <1>2 DEF At
    <3> QED BY <3>1 DEF IInv
  <2>2. \A l \in Loads : LoadBar(l[1], l[2])'
    BY <1>11, <2>1 DEF Streaming
  <2>3. ASSUME Pipelined, NEW s \in Stages PROVE DoneBar(s)'
    <3>1. DoneBar(s) /\ mbar'[<<"done", s>>] = mbar[<<"done", s>>]
      BY <1>3, <2>1, <2>3 DEF Streaming
    <3>2. \A c \in Consumers : Fills(Done(c), s)' = Fills(Done(c), s)
      BY <1>1, <1>2, <1>7, SamePipe DEF Fills
    <3> QED BY <1>2, <3>1, <3>2, DoneKept
  <2> QED BY <1>2, <2>2, <2>3, SamePipe DEF Streaming
<1>14. Ahead'
  <2>1. ~At(Dma, "load")'
    <3>1. CASE Pipelined
      <4>1. Dma \in Syncing
        BY <1>1, <3>1 DEF Syncing
      <4> QED BY <1>7, <4>1
    <3>2. CASE Chunks
      <4>1. At(Dma, "exit") /\ warp'[Dma] = warp[Dma]
        BY <1>1, <1>2, <3>2 DEF Placed, InChunks
      <4> QED BY <4>1 DEF At
    <3> QED BY <1>1, <3>1, <3>2
  <2> QED BY <2>1 DEF Ahead
<1>15. Transposed'
  BY <1>1, <1>7 DEF Transposed
<1>16. Handed'
  <2>1. CASE ~Chunks
    BY <1>2, <2>1, SamePipe DEF Handed
  <2>2. CASE Chunks
    <3>1. /\ At(Leader, "bar") /\ warp'[Leader].at = warp[Leader].to /\ Number(Leader)' = Number(Leader)
          /\ warp[Leader].to \in {"start", "read", "prefetch", "normalize"}
      BY <1>1, <1>2, <1>5, <2>2, SamePipe DEF Number
    <3>2. /\ warp[Leader].to = "read" => bcast = Number(Leader)
          /\ warp[Leader].to = "normalize" => bcast = Sums
      BY <1>1, <2>2, <3>1 DEF Handed, Held
    <3> QED BY <1>3, <3>1, <3>2 DEF Handed, Held, At
  <2> QED BY <2>1, <2>2
<1>17. ~At(Leader, "init")'
  BY <1>1, <1>7
<1> QED BY <1>6, <1>11, <1>12, <1>13, <1>14, <1>15, <1>16, <1>17 DEF IInv

\* A tile ends: every block was loaded and read, so no copy is left, and the counts start anew.
LEMMA KeepsBarSyncTurn ==
  ASSUME IInv, BarSync, warp[Leader].to = "init"
  PROVE  IInv'
<1>1. /\ Typed /\ (\A w \in Warps : Placed(w)) /\ InStep /\ Leader \in Syncing
      /\ Syncing \subseteq Warps /\ Leader \in Consumers /\ Leader # Dma /\ Dma \notin Consumers
      /\ Consumers \subseteq Warps /\ pipe \in Pipes /\ Consumers \subseteq Syncing /\ Dma \in Warps
      /\ Window /\ InFlight /\ Blocks \in Nat /\ DmaIssues \in Nat /\ pipe.stages \in Nat
  BY PipesOK, PipeFacts DEF IInv, Syncing, Warps, Typed
<1>2. /\ pipe' = pipe /\ warp' \in [Warps -> WarpType] /\ Within' /\ UNCHANGED memVars
      /\ \A w \in Syncing : /\ At(w, "bar") /\ warp'[w].at = warp[w].to
                            /\ warp'[w].to = warp[w].to /\ warp'[w].tile = warp[w].tile
                            /\ warp'[w].block = warp[w].block /\ warp'[w].next = warp[w].next
                            /\ warp'[w].parity = warp[w].parity
  BY Released
<1>3. /\ mbar' = mbar /\ flight' = flight /\ smem' = smem /\ issued' = issued /\ vt' = vt
      /\ bcast' = bcast
  BY <1>2 DEF memVars
<1>4. ~Chunks /\ Pipelined /\ \A w \in Syncing : warp[w].to = "init"
  <2>1. \A w \in Syncing : warp[w].to = "init"
    BY <1>1, <1>2, SameSync
  <2>2. warp[Leader].to \in IF Chunks THEN {"start", "read", "prefetch", "normalize"}
                            ELSE {"start", "init"}
    BY <1>1, <1>2, SameSync
  <2> QED BY <1>1, <2>1, <2>2, PipeFacts
<1>5. (\A w \in Warps : Placed(w) /\ Parities(w))' /\ InStep'
  BY ReleasedPlaces
<1>6. Dma \in Syncing /\ Syncing = Warps
  BY <1>4 DEF Syncing, Warps
<1>7. ASSUME NEW w \in Warps
      PROVE  /\ Turned(w) /\ ~Turned(w)' /\ BlockOf(w) = Blocks /\ BlockOf(w)' = 0
             /\ TileOf(w)' = warp[w].tile /\ TileOf(w) = warp[w].tile - 1 /\ warp[w].tile \in Nat
             /\ ~Setup(w) /\ Setup(w)' /\ At(w, "init")'
  <2>1. At(w, "bar") /\ warp[w].to = "init" /\ warp'[w].at = "init" /\ warp'[w].to = "init"
        /\ warp'[w].block = warp[w].block /\ warp'[w].tile = warp[w].tile
    BY <1>2, <1>4, <1>6
  <2>2. Turned(w) /\ ~Turned(w)' /\ ~Setup(w) /\ Setup(w)' /\ At(w, "init")'
    BY <2>1 DEF Turned, Setup, Held, At
  <2>3. InPipeline(w)
    BY <1>1, <1>4 DEF Placed
  <2>4. warp[w].block = 0
    BY <2>1, <2>3 DEF InPipeline, At
  <2>5. warp[w].tile \in Nat
    BY <1>1, Mover
  <2> QED BY <1>2, <2>1, <2>2, <2>4, <2>5, SamePipe DEF BlockOf, TileOf
<1>8. \A o : Loaded(o)' = 0
  <2>1. ~At(Dma, "load")'
    BY <1>1, <1>7 DEF At
  <2> QED BY <1>1, <1>2, <1>4, <1>7, <2>1, SamePipe DEF Loaded
<1>9. ASSUME NEW o \in AllOperands
      PROVE  /\ o # "q" => Loaded(o) = Blocks
             /\ \A c \in Consumers : Passed(c, o) = Loaded(o)
  <2>1. /\ ~At(Dma, "load") /\ ~At(Dma, "start") /\ At(Dma, "bar")
        /\ \A c \in Consumers : ~At(c, "start") /\ ~At(c, "query") /\ ~At(c, "fetch")
                                /\ ~At(c, "prefetch") /\ ~Held(c, "prefetch")
    BY <1>1, <1>2, <1>4, <1>6 DEF At, Held
  <2>2. \A c \in Consumers : Done(c) = Blocks
    BY <1>1, <1>7, <2>1 DEF Done
  <2>3. CASE o = "q"
    <3>1. Loaded(o) = IF WithQuery THEN 1 ELSE 0
      BY <1>1, <1>7, <2>1, <2>3 DEF Loaded
    <3>2. \A c \in Consumers : Passed(c, o) = IF WithQuery THEN 1 ELSE 0
      BY <1>1, <1>7, <2>1, <2>3 DEF Passed
    <3> QED BY <2>3, <3>1, <3>2
  <2>4. CASE o # "q"
    <3>1. Loaded(o) = Blocks
      <4>1. Blocks + 0 = Blocks
        BY <1>1
      <4> QED BY <1>1, <1>4, <1>7, <2>1, <2>4, <4>1 DEF Loaded
    <3>2. \A c \in Consumers : Passed(c, o) = Blocks
      BY <2>2, <2>4 DEF Passed
    <3> QED BY <3>1, <3>2
  <2> QED BY <2>3, <2>4
<1>10. flight = {}
  <2> SUFFICES ASSUME NEW x \in flight PROVE FALSE
    OBVIOUS
  <2>1. x.operand \in AllOperands
    BY <1>1 DEF Typed
  <2>2. PICK m \in Nat : Latest(x.operand, x.stage, m) /\ Passed(Leader, x.operand) <= m
    BY <1>1 DEF InFlight
  <2>3. m < Loaded(x.operand) /\ Loaded(x.operand) <= m /\ Loaded(x.operand) \in Nat
    BY <1>1, <1>9, <2>1, <2>2, Counts DEF Latest
  <2> QED BY <2>3
<1>11. \A c \in Consumers : \A o : Passed(c, o)' = 0 /\ ~Has(c, o)'
  <2> SUFFICES ASSUME NEW c \in Consumers PROVE \A o : Passed(c, o)' = 0 /\ ~Has(c, o)'
    OBVIOUS
  <2>1. warp'[c].at = "init"
    BY <1>1, <1>2, <1>4
  <2>2. Done(c)' = 0
    BY <1>1, <1>7, <2>1 DEF Done, At, Held
  <2>3. \A o : Passed(c, o)' = 0
    BY <1>1, <1>7, <2>2 DEF Passed
  <2>4. \A o : ~Has(c, o)'
    BY <2>1 DEF Has, At, Held
  <2> QED BY <2>3, <2>4
<1>12. Window'
  <2>1. 0 <= DmaIssues /\ \A o \in AllOperands, c \in Consumers : 0 <= 0 /\ 0 <= 0 + pipe.stages
    BY <1>1
  <2>2. Base' = Base + Blocks /\ Base' \in Nat /\ Base \in Nat
    <3>1. PICK t \in Nat : t = warp[Leader].tile
      BY <1>1, <1>7
    <3>2. PICK b \in Nat : b = Blocks
      BY <1>1
    <3>3. Base' = t * b /\ Base = (t - 1) * b
      BY <1>1, <1>2, <1>7, <3>1, <3>2, SamePipe DEF Base
    <3>4. t * b = (t - 1) * b + b /\ t * b \in Nat
      OBVIOUS
    <3>5. Base \in Nat
      BY <1>1, Counts
    <3> QED BY <3>2, <3>3, <3>4, <3>5
  <2>3. \A o \in OperandSet : issued[o] = Base' + 0
    <3> SUFFICES ASSUME NEW o \in OperandSet PROVE issued[o] = Base' + 0
      OBVIOUS
    <3>1. o # "q" /\ o \in AllOperands
      BY <1>1, OperandFacts DEF AllOperands
    <3>2. issued[o] = Base + Blocks
      BY <1>1, <1>9, <3>1 DEF Window
    <3> QED BY <2>2, <3>2
  <2> QED BY <1>1, <1>2, <1>3, <1>8, <1>11, <2>1, <2>3, SamePipe DEF Window
<1>13. Filled'
  <2>1. ~\E o, s : \E m \in Nat : Latest(o, s, m)'
    BY <1>8 DEF Latest
  <2> QED BY <2>1 DEF Filled
<1>14. InFlight' /\ Granted' /\ flight' = {}
  BY <1>3, <1>10, <1>11 DEF InFlight, Granted
<1>15. Ahead' /\ Transposed' /\ Handed'
  <2>1. \A w \in Warps : ~At(w, "load")' /\ ~At(w, "bar128")' /\ ~At(w, "multiply")'
    BY <1>7 DEF At
  <2> QED BY <1>1, <1>2, <1>4, <2>1, SamePipe DEF Ahead, Transposed, Handed
<1>16. Typed'
  BY <1>1, <1>2, <1>3, SamePipe DEF Typed, WarpType
<1>17. At(Leader, "init")'
  BY <1>1, <1>7
<1> QED BY <1>5, <1>12, <1>13, <1>14, <1>15, <1>16, <1>17 DEF IInv

LEMMA KeepsBar128 ==
  ASSUME IInv, Bar128
  PROVE  IInv'
<1>1. /\ Typed /\ (\A w \in Warps : Placed(w) /\ Parities(w)) /\ (\A w \in Warps : Placed(w))
      /\ InStep /\ Leader \in Consumers
      /\ Leader # Dma /\ Dma \notin Consumers /\ Leader \in Warps
      /\ Consumers \subseteq Warps /\ pipe \in Pipes /\ Dma \in Warps
      /\ Window /\ Ahead /\ InFlight /\ Filled /\ Granted /\ Transposed
  BY PipesOK DEF IInv, Warps, Typed
<1>2. \A c \in Consumers : At(c, "bar128")
  BY DEF Bar128
<1>3. pipe.style = "transpose" /\ Pipelined /\ ~Chunks /\ Syncing = Warps
      /\ \A c \in Consumers : InPipeline(c) /\ warp[c].next = Len(OperandSeq)
  <2>1. At(Leader, "bar128") /\ Placed(Leader)
    BY <1>1, <1>2
  <2>2. ~Chunks
    BY <1>1, <2>1 DEF Placed, InChunks, At
  <2>3. \A c \in Consumers : InPipeline(c)
    BY <1>1, <2>2 DEF Placed
  <2>4. \A c \in Consumers : pipe.style = "transpose" /\ warp[c].next = Len(OperandSeq)
    BY <1>2, <2>3 DEF InPipeline
  <2> QED BY <1>1, <2>2, <2>3, <2>4, PipeFacts DEF Syncing
<1>4. /\ pipe' = pipe /\ mbar' = mbar /\ flight' = flight /\ smem' = smem /\ issued' = issued
      /\ vt' = vt /\ bcast' = bcast
      /\ warp' = [w \in Warps |-> IF w = Dma THEN warp[w] ELSE [warp[w] EXCEPT !.at = "multiply"]]
  BY DEF Bar128, memVars
<1>5. warp'[Dma] = warp[Dma]
  BY <1>1, <1>4
<1>6. ASSUME NEW c \in Consumers
      PROVE  /\ warp[c].at = "bar128" /\ warp'[c] \in WarpType /\ warp'[c].at = "multiply"
             /\ warp'[c].to = warp[c].to /\ warp'[c].tile = warp[c].tile
             /\ warp'[c].block = warp[c].block /\ warp'[c].next = warp[c].next
             /\ warp'[c].parity = warp[c].parity
  <2>1. warp[c] \in WarpType /\ "multiply" \in Labels
    BY <1>1, Mover DEF Labels
  <2>2. warp'[c] = [warp[c] EXCEPT !.at = "multiply"]
    BY <1>1, <1>4
  <2>3. warp[c].at = "bar128"
    BY <1>2 DEF At
  <2> QED BY <2>1, <2>2, <2>3, PlaceSet
<1>7. warp' \in [Warps -> WarpType]
  <2>1. \A w \in Warps : warp'[w] \in WarpType
    <3> SUFFICES ASSUME NEW w \in Warps PROVE warp'[w] \in WarpType
      OBVIOUS
    <3>1. CASE w = Dma
      BY <1>1, <1>5, <3>1, Mover
    <3>2. CASE w # Dma
      BY <1>6, <3>2 DEF Warps
    <3> QED BY <3>1, <3>2
  <2>2. warp' = [w \in Warps |-> warp'[w]]
    BY <1>4
  <2> QED BY <2>1, <2>2
<1>8. ASSUME NEW c \in Consumers
      PROVE  /\ Placed(c)' /\ Parities(c)' /\ Round(c)' = Round(c) /\ TileOf(c)' = TileOf(c)
             /\ Done(c)' = Done(c) /\ ~Turned(c) /\ Shared(c)' = warp[c].block + 1
             /\ \A o : Passed(c, o)' = Passed(c, o) /\ (Has(c, o)' => Has(c, o))
  <2>1. /\ ~Setup(c) /\ ~Turned(c) /\ ~Setup(c)' /\ ~Turned(c)' /\ ~At(c, "prefetch")
        /\ ~At(c, "prefetch")' /\ ~Held(c, "prefetch") /\ ~Held(c, "prefetch")'
        /\ ~At(c, "start") /\ ~At(c, "start")' /\ ~At(c, "query") /\ ~At(c, "query")'
        /\ ~At(c, "fetch") /\ ~At(c, "fetch")'
    BY <1>6 DEF Setup, Turned, Held, At
  <2>2. BlockOf(c)' = BlockOf(c) /\ BlockOf(c)' = warp[c].block /\ TileOf(c)' = TileOf(c)
    BY <1>6, <2>1 DEF BlockOf, TileOf
  <2>3. Done(c)' = Done(c)
    BY <2>1, <2>2 DEF Done
  <2>4. Round(c)' = Round(c)
    BY <1>3, <1>4, <2>1, <2>2, SamePipe DEF Round
  <2>5. Shared(c)' = warp[c].block + 1
    BY <1>6, <2>2 DEF Shared, At
  <2>6. \A o : Passed(c, o)' = Passed(c, o)
    BY <1>4, <2>1, <2>3, SamePipe DEF Passed
  <2>7. \A o : Has(c, o)' => Has(c, o)
    <3> SUFFICES ASSUME NEW o, Has(c, o)' PROVE Has(c, o)
      OBVIOUS
    <3>1. \E i \in DOMAIN OperandSeq' : OperandSeq'[i] = o
      BY <2>1 DEF Has
    <3>2. \E i \in DOMAIN OperandSeq : OperandSeq[i] = o
      BY <1>4, <3>1, SamePipe
    <3> QED BY <1>2, <3>2 DEF Has
  <2>8. Placed(c)'
    <3>1. /\ warp'[c].at = "multiply" /\ warp'[c].next = Len(OperandSeq') /\ c # Dma
          /\ pipe'.style = "transpose"
      BY <1>1, <1>3, <1>4, <1>6, SamePipe
    <3>2. warp'[c].block < Blocks'
      <4>1. warp[c].block < Blocks
        BY <1>1, <1>3, <1>6, Mover DEF InPipeline, At
      <4>2. Blocks' = Blocks /\ warp'[c].block = warp[c].block
        BY <1>4, <1>6, SamePipe
      <4> QED BY <4>1, <4>2
    <3>3. InPipeline(c)'
      BY <3>1, <3>2 DEF InPipeline, At, Turned, Held
    <3> QED BY <1>3, <1>4, <3>3, SamePipe DEF Placed
  <2>9. Parities(c)'
    <3>1. Counted(c)' = Counted(c)
      BY <1>1, <1>3, <1>4, <1>6, SamePipe DEF Counted
    <3>2. \A s \in Stages : warp[c].parity[s] = ParityOf(c, s)
      BY <1>1, <1>2, <1>3 DEF Parities, At
    <3> QED BY <1>1, <1>4, <1>6, <3>1, <3>2, ParityKept
  <2> QED BY <2>1, <2>2, <2>3, <2>4, <2>5, <2>6, <2>7, <2>8, <2>9
<1>9. (\A w \in Warps : Placed(w) /\ Parities(w))' /\ (\A w \in Warps : Round(w)' = Round(w))
  <2> SUFFICES ASSUME NEW w \in Warps PROVE Placed(w)' /\ Parities(w)' /\ Round(w)' = Round(w)
    OBVIOUS
  <2>1. CASE w = Dma
    BY <1>1, <1>4, <1>5, <2>1, SameWarp
  <2>2. CASE w # Dma
    BY <1>8, <2>2 DEF Warps
  <2> QED BY <2>1, <2>2
<1>10. \A c, d \in Consumers : warp[c].block = warp[d].block
  <2> SUFFICES ASSUME NEW c \in Consumers, NEW d \in Consumers PROVE warp[c].block = warp[d].block
    OBVIOUS
  <2>1. Shared(c) = Shared(d)
    BY <1>1, <1>3 DEF InStep
  <2>2. \A e \in {c, d} : Shared(e) = warp[e].block
    <3> SUFFICES ASSUME NEW e \in Consumers PROVE Shared(e) = warp[e].block
      OBVIOUS
    <3>1. ~At(e, "multiply") /\ ~Turned(e)
      BY <1>6, <1>8 DEF At
    <3>2. warp[e].block \in Nat
      BY <1>1, Mover
    <3> QED BY <3>1, <3>2 DEF Shared, BlockOf
  <2> QED BY <2>1, <2>2
<1>11. InStep'
  <2>1. Syncing' = Syncing
    BY <1>4, SamePipe DEF Syncing
  <2>2. \A v, w \in Syncing : Round(v)' = Round(w)'
    BY <1>1, <1>3, <1>9 DEF InStep
  <2>3. \A c, d \in Consumers : Shared(c)' = Shared(d)'
    BY <1>8, <1>10
  <2> QED BY <2>1, <2>2, <2>3 DEF InStep
<1>12. Base' = Base /\ \A o, m : Tag(o, m)' = Tag(o, m)
  <2>1. TileOf(Leader)' = TileOf(Leader)
    BY <1>1, <1>8
  <2> QED BY <1>4, <2>1, SamePipe DEF Base, Tag
<1>13. \A o \in AllOperands : Loaded(o)' = Loaded(o)
  BY <1>3, <1>4, <1>5, LoadedKept
<1>14. \A c \in Consumers, o \in AllOperands :
         \/ Passed(c, o)' = Passed(c, o) /\ (Has(c, o)' => Has(c, o) \/ There(c, o))
         \/ Passed(c, o)' = Passed(c, o) + 1 /\ Has(c, o) /\ ~Has(c, o)'
  BY <1>8
<1>15. /\ Window' /\ InFlight' /\ Filled' /\ Granted'
       /\ \A l \in Loads : LoadBar(l[1], l[2])' = LoadBar(l[1], l[2])
  <2>1. \A l \in Loads : mbar'[l] = mbar[l]
    BY <1>4
  <2> QED BY <1>1, <1>4, <1>12, <1>13, <1>14, <2>1, Progress
<1>16. Typed'
  <2>1. Within'
    <3>1. \A w \in Warps : w # Dma => w \in Consumers
      BY DEF Warps
    <3>2. \A w \in Warps : w # Dma => warp[w].block <= Blocks
      BY <1>1 DEF Typed, Within
    <3>3. Blocks' = Blocks
      BY <1>4, SamePipe
    <3> QED BY <1>6, <3>1, <3>2, <3>3 DEF Within
  <2> QED BY <1>1, <1>4, <1>7, <2>1, SamePipe DEF Typed, WarpType
<1>17. Streaming'
  <2>1. Streaming
    <3>1. ~At(Leader, "init")
      BY <1>1, <1>6 DEF At
    <3> QED BY <3>1 DEF IInv
  <2>2. \A l \in Loads : LoadBar(l[1], l[2])'
    BY <1>15, <2>1 DEF Streaming
  <2>3. ASSUME NEW s \in Stages PROVE DoneBar(s)'
    <3>1. DoneBar(s) /\ mbar'[<<"done", s>>] = mbar[<<"done", s>>]
      BY <1>3, <1>4, <2>1 DEF Streaming
    <3>2. \A c \in Consumers : Fills(Done(c), s)' = Fills(Done(c), s)
      BY <1>4, <1>8, SamePipe DEF Fills
    <3> QED BY <1>4, <3>1, <3>2, DoneKept
  <2> QED BY <1>4, <2>2, <2>3, SamePipe DEF Streaming
<1>18. Ahead'
  <2>1. \A c \in Consumers : Done(c)' = Done(c)
    BY <1>8
  <2> QED BY <1>1, <1>4, <1>5, <2>1 DEF Ahead, At
<1>19. Transposed'
  <2> SUFFICES ASSUME NEW c \in Consumers, NEW d \in Consumers
               PROVE  /\ ~At(c, "bar128")'
                      /\ vt'[<<Stage(c), d>>'] = Number(c)'
    BY DEF Transposed
  <2>1. ~At(c, "bar128")'
    BY <1>6 DEF At
  <2>2. vt[<<Stage(d), d>>] = Number(d)
    BY <1>1, <1>2, <1>3 DEF Transposed
  <2>3. warp[c].block = warp[d].block /\ warp[c].tile = warp[d].tile
    <3>1. TileOf(c) = TileOf(d)
      BY <1>1, <1>3, SameTile
    <3>2. \A e \in {c, d} : TileOf(e) = warp[e].tile
      <4> SUFFICES ASSUME NEW e \in Consumers PROVE TileOf(e) = warp[e].tile
        OBVIOUS
      <4>1. warp[e].tile \in Nat
        BY <1>1, Mover, PipeFacts
      <4> QED BY <1>8, <4>1 DEF TileOf
    <3> QED BY <1>10, <3>1, <3>2
  <2>4. Stage(c)' = Stage(d) /\ Number(c)' = Number(d)
    <3>1. warp'[c].block = warp[d].block /\ warp'[c].tile = warp[d].tile
      BY <1>6, <2>3
    <3>2. Blocks' = Blocks /\ pipe'.stages = pipe.stages
      BY <1>4, SamePipe
    <3> QED BY <3>1, <3>2 DEF Stage, Number
  <2> QED BY <1>4, <2>1, <2>2, <2>4
<1>20. Handed'
  BY <1>3, <1>4, SamePipe DEF Handed
<1>21. ~At(Leader, "init")'
  BY <1>1, <1>6 DEF At
<1> QED BY <1>9, <1>11, <1>15, <1>16, <1>17, <1>18, <1>19, <1>20, <1>21 DEF IInv

LEMMA KeepsLand ==
  ASSUME IInv, NEW x \in flight, Land(x)
  PROVE  IInv'
<1>1. /\ Typed /\ (\A v \in Warps : Placed(v) /\ Parities(v)) /\ (\A v \in Warps : Placed(v))
      /\ InStep /\ Window /\ Ahead /\ InFlight /\ Filled /\ Granted /\ Transposed /\ Handed
      /\ ~At(Leader, "init") /\ Streaming
  BY DEF IInv
<1>2. pipe' = pipe /\ warp' = warp /\ vt' = vt /\ bcast' = bcast
  BY DEF Land
<1>3. /\ (\A v \in Warps : Placed(v) /\ Parities(v))' /\ InStep'
      /\ \A c \in Consumers : Done(c)' = Done(c)
  BY <1>1, <1>2, SameWarps
<1>4. /\ Typed' /\ Window' /\ InFlight' /\ Filled' /\ Granted'
      /\ \A l \in Loads : LoadBar(l[1], l[2])'
      /\ \A s \in Stages : mbar'[<<"done", s>>] = mbar[<<"done", s>>]
  <2>1. \A l \in Loads : LoadBar(l[1], l[2])
    BY <1>1 DEF Streaming
  <2> QED BY <1>1, <2>1, LandKeeps
<1>5. Streaming'
  <2>1. ASSUME Pipelined, NEW s \in Stages PROVE DoneBar(s)'
    <3>1. DoneBar(s) /\ mbar'[<<"done", s>>] = mbar[<<"done", s>>]
      BY <1>1, <1>4, <2>1 DEF Streaming
    <3>2. \A c \in Consumers : Fills(Done(c), s)' = Fills(Done(c), s)
      BY <1>2, <1>3, SamePipe DEF Fills
    <3> QED BY <1>2, <3>1, <3>2, DoneKept
  <2> QED BY <1>2, <1>4, <2>1, SamePipe DEF Streaming
<1>6. Ahead'
  BY <1>1, <1>2, <1>3 DEF Ahead, At
<1>7. Transposed' /\ Handed' /\ ~At(Leader, "init")'
  <2>1. Transposed'
    BY <1>1, <1>2, SamePipe DEF Transposed, At, Stage, Number
  <2>2. Handed'
    BY <1>1, <1>2, SamePipe DEF Handed, Held, At, Number
  <2> QED BY <1>1, <1>2, <2>1, <2>2 DEF At
<1> QED BY <1>3, <1>4, <1>5, <1>6, <1>7 DEF IInv

-----------------------------------------------------------------------------
(* The invariant, from the first state on.                                 *)

LEMMA StartsInvariant == Init => IInv
<1> SUFFICES ASSUME Init PROVE IInv
  OBVIOUS
<1>1. /\ pipe \in Pipes /\ Leader \in Consumers /\ Leader # Dma /\ Dma \notin Consumers
      /\ Consumers \subseteq Warps /\ Dma \in Warps /\ Leader \in Warps
  BY PipesOK DEF Init, Warps
<1>2. /\ Blocks \in Nat /\ DmaIssues \in Nat /\ pipe.stages \in Nat /\ pipe.tiles \in Nat /\ pipe.tiles > 0
      /\ (Chunks <=> ~Pipelined) /\ (Chunks <=> pipe.style = "chunks")
  BY <1>1, PipeFacts DEF Chunks
<1>3. ASSUME NEW w \in Warps
      PROVE  /\ warp[w] \in WarpType
             /\ warp[w].at = IF w = Dma /\ Chunks THEN "exit" ELSE "init"
             /\ warp[w].to = "init" /\ warp[w].tile = 0 /\ warp[w].block = 0 /\ warp[w].next = 1
             /\ \A s \in Stages : warp[w].parity[s] = 0
  <2>1. 1 \in DOMAIN OperandSeq
    BY <1>1, OperandFacts
  <2>2. warp[w] = [at |-> IF w = Dma /\ pipe.style = "chunks" THEN "exit" ELSE "init", to |-> "init",
                   tile |-> 0, block |-> 0, next |-> 1, parity |-> [s \in Stages |-> 0]]
    BY DEF Init
  <2>3. 0 \in 0 .. pipe.tiles - 1 /\ 0 \in 0 .. DmaIssues
    BY <1>2
  <2>4. [s \in Stages |-> 0] \in [Stages -> {0, 1}]
    OBVIOUS
  <2>5. warp[w] \in WarpType
    BY <2>1, <2>2, <2>3, <2>4 DEF WarpType, Labels
  <2> QED BY <1>2, <2>2, <2>5
<1>4. Typed
  <2>1. /\ mbar = [b \in Mbars |-> mbar[b]]
        /\ \A b \in Mbars : mbar[b] \in [phase : Nat, pending : Nat, count : Nat, tx : Nat]
    <3>1. mbar = [b \in Mbars |-> MbarInit(0)]
      BY DEF Init
    <3>2. MbarInit(0) \in [phase : Nat, pending : Nat, count : Nat, tx : Nat]
      BY DEF MbarInit
    <3> QED BY <3>1, <3>2
  <2>2. /\ flight \subseteq [operand : AllOperands, stage : Stages, piece : Pieces, block : Nat]
        /\ IsFiniteSet(flight)
    BY FS_EmptySet DEF Init
  <2>3. /\ smem \in [Places -> Nat \cup {Nothing}]
        /\ vt \in [Stages \X Consumers -> Nat \cup {Nothing}]
        /\ bcast \in Nat \cup {Nothing, Sums}
        /\ issued \in [AllOperands -> Nat]
    BY DEF Init, AllOperands
  <2>4. warp \in [Warps -> WarpType]
    <3>1. warp = [w \in Warps |-> warp[w]]
      BY DEF Init
    <3> QED BY <1>3, <3>1
  <2>5. Within
    BY <1>2, <1>3 DEF Within
  <2> QED BY <1>1, <2>1, <2>2, <2>3, <2>4, <2>5 DEF Typed, WarpType
<1>5. ASSUME NEW w \in Syncing
      PROVE  /\ w \in Warps /\ warp[w].tile = 0
             /\ At(w, "init") /\ Setup(w) /\ ~Turned(w) /\ TileOf(w) = 0 /\ BlockOf(w) = 0
  <2>1. w \in Warps /\ (w = Dma => ~Chunks)
    BY <1>1 DEF Syncing
  <2>2. warp[w].at = "init" /\ warp[w].tile = 0 /\ warp[w].block = 0
    BY <1>1, <1>3, <2>1
  <2>3. At(w, "init") /\ Setup(w) /\ ~Turned(w)
    BY <2>2 DEF At, Setup, Turned, Held
  <2>4. TileOf(w) = 0 /\ BlockOf(w) = 0
    <3>1. 0 - 0 = 0
      OBVIOUS
    <3> QED BY <2>2, <2>3, <3>1 DEF TileOf, BlockOf
  <2> QED BY <2>1, <2>2, <2>3, <2>4
<1>6. Consumers \subseteq Syncing /\ Leader \in Syncing
  BY <1>1 DEF Syncing
<1>7. \A w \in Warps : Placed(w) /\ Parities(w)
  <2> SUFFICES ASSUME NEW w \in Warps PROVE Placed(w) /\ Parities(w)
    OBVIOUS
  <2>1. CASE Chunks
    <3>1. CASE w = Dma
      BY <1>3, <2>1, <3>1 DEF Placed, InChunks, Parities, At
    <3>2. CASE w # Dma
      <4>1. w \in Consumers /\ At(w, "init") /\ warp[w].tile = 0 /\ warp[w].block = 0
        BY <1>3, <3>2 DEF Warps, At
      <4>2. InChunks(w)
        BY <3>2, <4>1 DEF InChunks, At, Held, Setup
      <4>3. Counted(w) = 0
        BY <3>2, <4>1 DEF Counted, At, Held
      <4>4. \A s \in Stages : ParityOf(w, s) = 0
        <5>1. \A s \in Stages : Fills(0, s) = 0
          BY <1>1, FillsFacts
        <5> QED BY <4>1, <4>3, <5>1 DEF ParityOf
      <4> QED BY <1>3, <2>1, <4>2, <4>4 DEF Placed, Parities
    <3> QED BY <3>1, <3>2
  <2>2. CASE ~Chunks
    <3>1. warp[w].at = "init" /\ warp[w].block = 0
      BY <1>3, <2>2
    <3>2. InPipeline(w)
      BY <3>1 DEF InPipeline, At, Turned, Held
    <3>3. Parities(w)
      BY <2>2, <3>1 DEF Parities, At
    <3> QED BY <2>2, <3>2, <3>3 DEF Placed
  <2> QED BY <2>1, <2>2
<1>8. InStep
  <2>1. \A w \in Syncing : Round(w) = 0
    <3>1. \A w \in Syncing : warp[w].tile = 0
      BY <1>5
    <3>2. 2 * 0 = 0
      OBVIOUS
    <3> QED BY <1>5, <3>1, <3>2 DEF Round
  <2>2. \A c \in Consumers : Shared(c) = 0
    BY <1>5, <1>6 DEF Shared, At
  <2> QED BY <2>1, <2>2 DEF InStep
<1>9. \A o : Loaded(o) = 0
  <2>1. CASE Pipelined
    <3>1. Dma \in Syncing
      BY <1>1, <1>2, <2>1 DEF Syncing
    <3>2. Setup(Dma) /\ BlockOf(Dma) = 0 /\ ~At(Dma, "load")
      BY <1>5, <3>1 DEF At
    <3> QED BY <2>1, <3>2 DEF Loaded
  <2>2. CASE ~Pipelined
    BY <1>5, <1>6, <2>2 DEF Loaded, WithQuery, Pipelined
  <2> QED BY <2>1, <2>2
<1>10. ASSUME NEW c \in Consumers PROVE \A o : Passed(c, o) = 0 /\ ~Has(c, o)
  <2>1. At(c, "init") /\ Setup(c) /\ BlockOf(c) = 0
    BY <1>5, <1>6
  <2>2. Done(c) = 0
    BY <2>1 DEF Done, At, Held
  <2> QED BY <2>1, <2>2 DEF Passed, Has, At, Held
<1>11. Window
  <2>1. Base = 0
    <3>1. 0 * Blocks = 0
      BY <1>2
    <3> QED BY <1>5, <1>6, <3>1 DEF Base
  <2>2. \A o \in OperandSet : issued[o] = 0
    BY DEF Init
  <2>3. 0 <= 0 /\ 0 <= 0 + pipe.stages /\ 0 <= DmaIssues /\ 0 = 0 + 0
    BY <1>2
  <2> QED BY <1>9, <1>10, <2>1, <2>2, <2>3 DEF Window
<1>12. Filled
  <2>1. ~\E o, s : \E m \in Nat : Latest(o, s, m)
    BY <1>9 DEF Latest
  <2> QED BY <2>1 DEF Filled
<1>13. InFlight /\ Granted /\ flight = {}
  BY <1>10 DEF Init, InFlight, Granted
<1>14. Ahead /\ Transposed /\ Handed
  <2>1. ~At(Dma, "load")
    BY <1>1, <1>3 DEF At
  <2>2. \A c \in Consumers : ~At(c, "bar128") /\ ~At(c, "multiply")
    BY <1>5, <1>6 DEF At
  <2>3. Handed
    <3>1. At(Leader, "init")
      BY <1>5, <1>6
    <3> QED BY <3>1 DEF Handed, Held, At
  <2> QED BY <2>1, <2>2, <2>3 DEF Ahead, Transposed
<1> QED BY <1>4, <1>5, <1>6, <1>7, <1>8, <1>11, <1>12, <1>13, <1>14 DEF IInv

LEMMA KeepsStutter ==
  ASSUME IInv, UNCHANGED vars
  PROVE  IInv'
<1>1. pipe' = pipe /\ warp' = warp /\ mbar' = mbar /\ flight' = flight /\ smem' = smem /\ vt' = vt
      /\ bcast' = bcast /\ issued' = issued
  BY DEF vars, memVars
<1>2. /\ \A v \in Warps : Placed(v)' = Placed(v) /\ Parities(v)' = Parities(v)
      /\ InStep' = InStep /\ Base' = Base
      /\ \A o, m : Tag(o, m)' = Tag(o, m)
      /\ \A o : Loaded(o)' = Loaded(o)
      /\ \A c \in Consumers : /\ Done(c)' = Done(c)
                              /\ \A o : Passed(c, o)' = Passed(c, o) /\ Has(c, o)' = Has(c, o)
  BY <1>1, SameWarps
<1>3. /\ Typed /\ (\A v \in Warps : Placed(v) /\ Parities(v)) /\ (\A v \in Warps : Placed(v))
      /\ InStep /\ Window /\ Ahead /\ InFlight /\ Filled /\ Granted /\ Transposed /\ Handed
  BY DEF IInv
<1>4. /\ Window' /\ InFlight' /\ Filled' /\ Granted'
      /\ \A l \in Loads : LoadBar(l[1], l[2])' = LoadBar(l[1], l[2])
  BY <1>1, <1>2, <1>3, Progress
<1>5. Typed'
  <2>1. Within'
    BY <1>1, <1>3, SamePipe DEF Typed, Within
  <2> QED BY <1>1, <1>3, <2>1, SamePipe DEF Typed
<1>6. Streaming => Streaming'
  <2> SUFFICES ASSUME Streaming PROVE Streaming'
    OBVIOUS
  <2>1. ASSUME Pipelined, NEW s \in Stages PROVE DoneBar(s)'
    <3>1. DoneBar(s) /\ mbar'[<<"done", s>>] = mbar[<<"done", s>>]
      BY <1>1, <2>1 DEF Streaming
    <3>2. \A c \in Consumers : Fills(Done(c), s)' = Fills(Done(c), s)
      BY <1>1, <1>2, SamePipe DEF Fills
    <3> QED BY <1>1, <3>1, <3>2, DoneKept
  <2> QED BY <1>1, <1>4, <2>1, SamePipe DEF Streaming
<1>7. Ahead' /\ Transposed' /\ Handed'
  <2>1. Ahead'
    BY <1>1, <1>2, <1>3 DEF Ahead, At
  <2>2. Transposed'
    BY <1>1, <1>3, SamePipe DEF Transposed, At, Stage, Number
  <2>3. Handed'
    BY <1>1, <1>3, SamePipe DEF Handed, Held, At, Number
  <2> QED BY <2>1, <2>2, <2>3
<1>8. At(Leader, "init")' <=> At(Leader, "init")
  BY <1>1 DEF At
<1> QED BY <1>1, <1>2, <1>3, <1>4, <1>5, <1>6, <1>7, <1>8 DEF IInv

LEMMA KeepsInvariant == IInv /\ [Next]_vars => IInv'
<1> SUFFICES ASSUME IInv, [Next]_vars PROVE IInv'
  OBVIOUS
<1>1. CASE LandAny
  BY <1>1, KeepsLand DEF LandAny
<1>2. CASE BarSync
  BY <1>2, KeepsBarSyncOn, KeepsBarSyncTurn
<1>3. CASE Bar128
  BY <1>3, KeepsBar128
<1>4. ASSUME NEW w \in Warps, Step(w) PROVE IInv'
  <2>1. CASE w = Leader /\ InitMbars
    BY <2>1, KeepsInitMbars
  <2>2. CASE SkipInit(w)
    BY <2>2, KeepsSkipInit
  <2>3. CASE w = Dma /\ DmaNext
    BY <2>3, KeepsDmaStartGemm, KeepsDmaStartQuery, KeepsDmaLoop, KeepsDmaWaitDone, KeepsDmaLoad,
       KeepsTileDoneDma DEF DmaNext
  <2>4. CASE w \in Consumers /\ ConsumerNext(w)
    BY <2>4, KeepsConsumerStart, KeepsWaitQuery, KeepsFetchQuery, KeepsConsumerLoop, KeepsWaitLoad,
       KeepsReadFirst, KeepsTranspose, KeepsFinishBlock, KeepsTileDoneConsumer DEF ConsumerNext
  <2>5. CASE w \in Consumers /\ ChunkNext(w)
    BY <2>5, KeepsSkipPrefetch, KeepsChunkLoop, KeepsWaitChunk, KeepsReadChunk, KeepsPrefetchNext,
       KeepsLastChunkDone, KeepsNormalize, KeepsPrefetchFirst, KeepsPrefetchSecond, KeepsScoreChunk
       DEF ChunkNext
  <2> QED BY <1>4, <2>1, <2>2, <2>3, <2>4, <2>5 DEF Step
<1>5. CASE UNCHANGED vars
  BY <1>5, KeepsStutter
<1> QED BY <1>1, <1>2, <1>3, <1>4, <1>5 DEF Next, Finished

-----------------------------------------------------------------------------
(* What follows from the invariant.                                        *)

\* What a warp reads is the operand's next block for it, and it is there.
LEMMA ReadingHas ==
  ASSUME IInv, NEW c \in Consumers, NEW r \in Reading(c)
  PROVE  /\ r[1] \in AllOperands /\ Has(c, r[1]) /\ <<r[1], r[2]>> \in Loads
         /\ r[2] = Passed(c, r[1]) % pipe.stages /\ r[3] = Tag(r[1], Passed(c, r[1]))
<1>1. /\ c \in Warps /\ Dma \in Warps /\ Leader \in Consumers /\ Leader \in Warps /\ c # Dma /\ Typed
      /\ pipe \in Pipes /\ (\A v \in Warps : Placed(v)) /\ InStep
  BY PipesOK DEF Warps, IInv, Typed
<1>2. /\ warp[c].block \in Nat /\ Stage(c) \in Stages /\ Stage(c) = warp[c].block % pipe.stages
      /\ warp[c].next \in DOMAIN OperandSeq /\ warp[c].tile \in Nat /\ pipe.stages \in {1, 2, 3}
  BY <1>1, Mover, StageOf, PipeFacts DEF Stage
<1>3. Operand(c) \in OperandSet /\ Operand(c) = OperandSeq[warp[c].next]
  BY <1>2 DEF Operand, OperandSet
<1>4. CASE At(c, "fetch")
  <2>1. Pipelined /\ WithQuery /\ ~Setup(c) /\ ~Turned(c)
    <3>1. Pipelined /\ ~Chunks
      BY <1>1, <1>4, PipeFacts DEF Placed, InChunks, At
    <3>2. InPipeline(c)
      BY <1>1, <3>1 DEF Placed
    <3> QED BY <1>4, <3>1, <3>2 DEF InPipeline, At, Setup, Turned, Held
  <2>2. r = <<"q", 0, warp[c].tile>>
    BY <1>4 DEF Reading
  <2>3. Passed(c, "q") = 0
    BY <1>4 DEF Passed
  <2>4. warp[c].tile = TileOf(Leader)
    <3>1. TileOf(c) = TileOf(Leader)
      BY <1>1, <2>1, SameTile
    <3>2. TileOf(c) = warp[c].tile - 0 /\ warp[c].tile - 0 = warp[c].tile
      BY <1>2, <2>1 DEF TileOf
    <3> QED BY <3>1, <3>2
  <2>5. 0 % pipe.stages = 0
    BY <1>2
  <2>6. Has(c, "q")
    BY <1>4 DEF Has
  <2>7. <<"q", 0>> \in Loads /\ "q" \in AllOperands
    BY DEF Loads, AllOperands
  <2> QED BY <2>2, <2>3, <2>4, <2>5, <2>6, <2>7 DEF Tag
<1>5. CASE ~At(c, "fetch")
  <2>1. (At(c, "read") \/ At(c, "score"))
    BY <1>5 DEF Reading
  <2>2. PICK o \in IF pipe.style = "gemm" THEN OperandSet ELSE {Operand(c)} :
          r = <<o, Stage(c), Number(c)>>
    BY <1>5, <2>1 DEF Reading
  <2>3. o \in OperandSet /\ o \in AllOperands
    BY <1>3, <2>2 DEF AllOperands
  <2>4. o # "q"
    BY <1>1, <2>3, OperandFacts
  <2>5. ~Setup(c) /\ ~Turned(c) /\ c \in Syncing
    BY <1>1, <2>1 DEF Setup, Turned, Held, At, Syncing
  <2>6. Passed(c, o) = warp[c].block /\ Number(c) = Tag(o, warp[c].block)
    <3>1. CASE Pipelined
      <4>1. Passed(c, o) = warp[c].block
        BY <1>1, <2>3, <2>5, <3>1, ConsumerCounts
      <4>2. TileOf(c) = warp[c].tile - 0 /\ warp[c].tile - 0 = warp[c].tile
        BY <1>2, <2>5 DEF TileOf
      <4>3. TileOf(c) = TileOf(Leader)
        BY <1>1, <3>1, SameTile
      <4> QED BY <2>4, <4>1, <4>2, <4>3 DEF Number, Tag, Base
    <3>2. CASE ~Pipelined
      <4>1. Chunks
        BY <1>1, <3>2, PipeFacts
      <4>2. Passed(c, o) = Done(c) /\ BlockOf(c) = warp[c].block /\ Number(c) = warp[c].block
        BY <1>1, <2>4, <4>1, ChunkCounts
      <4>3. Done(c) = warp[c].block
        <5>1. ~At(c, "prefetch") /\ ~Held(c, "prefetch")
          BY <2>1 DEF At, Held
        <5> QED BY <1>2, <4>2, <5>1 DEF Done
      <4>4. Base = 0
        <5>1. warp[Leader].tile = 0 /\ ~Turned(Leader) /\ Blocks \in Nat
          BY <1>1, <4>1, ChunkCounts, PipeFacts
        <5>2. 0 - 0 = 0 /\ 0 * Blocks = 0
          BY <5>1
        <5>3. TileOf(Leader) = 0
          BY <5>1, <5>2 DEF TileOf
        <5> QED BY <5>2, <5>3 DEF Base
      <4>5. Tag(o, warp[c].block) = warp[c].block
        <5>1. 0 + warp[c].block = warp[c].block
          BY <1>2
        <5> QED BY <2>4, <4>4, <5>1 DEF Tag
      <4> QED BY <4>2, <4>3, <4>5
    <3> QED BY <3>1, <3>2
  <2>7. Has(c, o)
    <3>1. CASE Chunks
      <4>1. Holding(c) /\ o = "kv"
        BY <1>1, <2>1, <2>3, <3>1, OperandFacts DEF Holding
      <4> QED BY <1>1, <3>1, <4>1, ChunkHas
    <3>2. CASE ~Chunks
      <4>1. Pipelined /\ InPipeline(c)
        BY <1>1, <3>2, PipeFacts DEF Placed
      <4>2. At(c, "read")
        BY <1>1, <2>1, <4>1 DEF InPipeline, At
      <4>3. CASE pipe.style = "gemm"
        <5>1. warp[c].next = Len(OperandSeq)
          BY <4>1, <4>2, <4>3 DEF InPipeline
        <5>2. PICK i \in DOMAIN OperandSeq : OperandSeq[i] = o
          BY <2>3 DEF OperandSet
        <5>3. i <= warp[c].next
          BY <1>1, <5>1, <5>2, Mover
        <5> QED BY <4>1, <4>2, <5>2, <5>3 DEF Has
      <4>4. CASE pipe.style # "gemm"
        <5>1. o = OperandSeq[warp[c].next] /\ warp[c].next <= warp[c].next
          BY <1>1, <1>2, <1>3, <2>2, <4>4, Mover
        <5> QED BY <1>2, <4>1, <4>2, <5>1 DEF Has
      <4> QED BY <4>3, <4>4
    <3> QED BY <3>1, <3>2
  <2>8. <<o, Stage(c)>> \in Loads
    BY <1>2, <2>3 DEF Loads
  <2> QED BY <1>2, <2>2, <2>3, <2>6, <2>7, <2>8
<1> QED BY <1>4, <1>5

LEMMA ReadsOwn == IInv => ReadsOwnBlock
<1> SUFFICES ASSUME IInv, NEW c \in Consumers, NEW r \in Reading(c)
             PROVE  /\ \A p \in Pieces : smem[<<r[1], r[2], p>>] = r[3]
                    /\ \A x \in flight : ~(x.operand = r[1] /\ x.stage = r[2])
  BY DEF ReadsOwnBlock
<1>1. PICK o, s : o = r[1] /\ s = r[2]
  OBVIOUS
<1>2. PICK k : k = Passed(c, o)
  OBVIOUS
<1>3. /\ o \in AllOperands /\ Has(c, o) /\ <<o, s>> \in Loads /\ s = k % pipe.stages
      /\ r[3] = Tag(o, k) /\ k \in Nat
  BY <1>1, <1>2, ReadingHas, Counts DEF IInv
<1>4. k < Loaded(o) /\ Filling(o, s) = {}
  BY <1>2, <1>3 DEF IInv, Granted, There
<1>5. Latest(o, s, k)
  BY <1>2, <1>3, <1>4 DEF Latest, IInv, Window
<1>6. ASSUME NEW x \in flight PROVE ~(x.operand = o /\ x.stage = s)
  BY <1>4 DEF Filling
<1>7. ASSUME NEW p \in Pieces PROVE smem[<<o, s, p>>] = Tag(o, k)
  <2>1. \/ smem[<<o, s, p>>] = Tag(o, k)
        \/ Copy(o, s, p, Tag(o, k)) \in flight
    <3>1. \A l \in Loads, z \in Pieces, m \in Nat :
            Latest(l[1], l[2], m) =>
              \/ smem[<<l[1], l[2], z>>] = Tag(l[1], m)
              \/ Copy(l[1], l[2], z, Tag(l[1], m)) \in flight
      BY DEF IInv, Filled
    <3>2. <<o, s>>[1] = o /\ <<o, s>>[2] = s
      OBVIOUS
    <3> QED BY <1>3, <1>5, <3>1, <3>2
  <2>2. Copy(o, s, p, Tag(o, k)) \notin flight
    BY <1>6 DEF Copy
  <2> QED BY <2>1, <2>2
<1> QED BY <1>1, <1>3, <1>6, <1>7

LEMMA Quiet == IInv => QuietBetweenTiles
<1> SUFFICES ASSUME IInv PROVE QuietBetweenTiles
  OBVIOUS
<1>1. /\ Typed /\ pipe \in Pipes /\ (\A v \in Warps : Placed(v)) /\ Leader \in Consumers
      /\ Consumers \subseteq Warps /\ Dma \notin Consumers
  BY PipesOK DEF IInv, Typed, Warps
<1>2. ASSUME At(Leader, "init")
      PROVE  flight = {} /\ \A w \in Warps : At(w, "init") \/ At(w, "bar") \/ At(w, "exit")
  <2>1. flight = {}
    BY <1>2 DEF IInv
  <2>2. \A w \in Syncing : Setup(w)
    BY <1>2, SetupCounts
  <2>3. ASSUME NEW w \in Warps, w \notin Syncing PROVE At(w, "exit")
    BY <1>1, <2>3 DEF Syncing, Placed, InChunks, Warps
  <2> QED BY <2>1, <2>2, <2>3 DEF Setup, Held
<1>3. ASSUME \A w \in Warps : At(w, "exit"), NEW x \in flight
      PROVE  Blocks = 0 /\ x.operand # "q" /\ x.block = 0
  <2>1. PICK o : o = x.operand
    OBVIOUS
  <2>2. o \in AllOperands
    BY <1>1, <1>3, <2>1 DEF Typed
  <2>3. PICK m \in Nat : m < Loaded(o) /\ Passed(Leader, o) <= m /\ x.block = Tag(o, m)
    BY <1>1, <1>3, <2>1 DEF IInv, InFlight, Latest
  <2>4. warp[Leader].block = Blocks /\ ~Turned(Leader) /\ ~Setup(Leader) /\ At(Leader, "exit")
    <3>1. At(Leader, "exit") /\ Leader # Dma
      BY <1>1, <1>3
    <3>2. warp[Leader].block = Blocks
      BY <1>1, <3>1 DEF Placed, InPipeline, InChunks
    <3> QED BY <3>1, <3>2 DEF At, Turned, Setup, Held
  <2>5. Done(Leader) = Blocks
    <3>1. ~At(Leader, "prefetch") /\ ~Held(Leader, "prefetch") /\ BlockOf(Leader) = Blocks
      BY <2>4 DEF At, Held, BlockOf
    <3>2. Blocks + 0 = Blocks
      BY <1>1, PipeFacts
    <3> QED BY <3>1, <3>2 DEF Done
  <2>6. Blocks \in Nat /\ DmaIssues = (IF Blocks = 0 THEN 1 ELSE Blocks) /\ Loaded(o) \in Nat /\ Passed(Leader, o) \in Nat /\ Loaded("q") <= 1
    BY <1>1, PipeFacts, Counts
  <2>7. o # "q"
    <3> SUFFICES ASSUME o = "q" PROVE FALSE
      OBVIOUS
    <3>1. CASE WithQuery
      <4>1. Passed(Leader, "q") = 1
        BY <2>4, <3>1 DEF Passed, At
      <4> QED BY <2>3, <2>6, <4>1
    <3>2. CASE ~WithQuery
      <4>1. Loaded("q") = 0
        BY <3>2 DEF Loaded
      <4> QED BY <2>3, <2>6, <4>1
    <3> QED BY <3>1, <3>2
  <2>8. Loaded(o) <= DmaIssues /\ Passed(Leader, o) = Blocks
    BY <2>2, <2>5, <2>7 DEF AllOperands, IInv, Window, Passed
  <2>9. Blocks = 0 /\ m = 0
    BY <2>3, <2>6, <2>8
  <2>10. Tag(o, m) = 0
    <3>1. TileOf(Leader) * 0 = 0 /\ 0 + 0 = 0
      BY <1>1, Counts
    <3> QED BY <2>7, <2>9, <3>1 DEF Tag, Base
  <2> QED BY <2>1, <2>3, <2>7, <2>9, <2>10
<1> QED BY <1>2, <1>3 DEF QuietBetweenTiles

LEMMA HandsOver == IInv => HandedOverWhole
<1> SUFFICES ASSUME IInv, NEW c \in Consumers
             PROVE  /\ At(c, "multiply") => \A d \in Consumers : vt[<<Stage(c), d>>] = Number(c)
                    /\ Chunks /\ At(c, "read") => bcast = Number(c)
                    /\ At(c, "normalize") => bcast = Sums
  BY DEF HandedOverWhole
<1>1. /\ Typed /\ pipe \in Pipes /\ (\A v \in Warps : Placed(v)) /\ Leader \in Consumers
      /\ c \in Warps /\ Leader \in Warps /\ c # Dma /\ Leader # Dma /\ InStep
  BY PipesOK DEF IInv, Typed, Warps
<1>2. ASSUME At(c, "multiply") PROVE \A d \in Consumers : vt[<<Stage(c), d>>] = Number(c)
  <2>1. ~Chunks
    BY <1>1, <1>2 DEF Placed, InChunks, At
  <2>2. pipe.style = "transpose"
    BY <1>1, <1>2, <2>1 DEF Placed, InPipeline
  <2> QED BY <1>2, <2>2 DEF IInv, Transposed
<1>3. ASSUME Chunks, At(c, "read") \/ At(c, "normalize")
      PROVE  /\ At(c, "read") => bcast = Number(c)
             /\ At(c, "normalize") => bcast = Sums
  <2>1. /\ ~Pipelined /\ InChunks(c) /\ InChunks(Leader) /\ Blocks \in Nat
        /\ c \in Syncing /\ Leader \in Syncing
        /\ Number(c) = warp[c].block /\ Number(Leader) = warp[Leader].block
        /\ warp[Leader].tile = 0
    BY <1>1, <1>3, ChunkCounts, PipeFacts DEF Placed
  <2>2. PICK b \in Nat : b = warp[c].block
    BY <1>1, <1>3, ChunkCounts
  <2>3. PICK k \in Nat : k = warp[Leader].block
    BY <1>1, <1>3, ChunkCounts
  <2>4. Round(c) = 2 * b + 2
    <3>1. ~Setup(c)
      BY <1>3 DEF Setup, Held, At
    <3> QED BY <1>3, <2>1, <2>2, <3>1 DEF Round
  <2>5. Round(Leader) = 2 * b + 2
    BY <1>1, <2>1, <2>4 DEF InStep
  <2>6. /\ k = b
        /\ At(Leader, "read") \/ Held(Leader, "prefetch") \/ At(Leader, "normalize") \/ At(Leader, "exit")
    <3>1. CASE Setup(Leader)
      <4>1. Round(Leader) = 2 * 0 /\ 2 * 0 = 0
        BY <2>1, <3>1 DEF Round
      <4> QED BY <2>5, <4>1
    <3>2. CASE ~Setup(Leader)
      <4>1. CASE At(Leader, "read") \/ Held(Leader, "prefetch") \/ At(Leader, "normalize")
                   \/ At(Leader, "exit")
        <5>1. Round(Leader) = 2 * k + 2
          BY <2>1, <2>3, <3>2, <4>1 DEF Round
        <5> QED BY <2>5, <4>1, <5>1
      <4>2. CASE ~(At(Leader, "read") \/ Held(Leader, "prefetch") \/ At(Leader, "normalize")
                     \/ At(Leader, "exit"))
        <5>1. Round(Leader) = 2 * k + IF At(Leader, "prefetch") THEN 3 ELSE 1
          BY <2>1, <2>3, <3>2, <4>2 DEF Round
        <5> QED BY <2>5, <5>1
      <4> QED BY <4>1, <4>2
    <3> QED BY <3>1, <3>2
  <2>7. CASE At(c, "read")
    <3>1. b < Blocks
      BY <2>1, <2>2, <2>7, <1>1 DEF InChunks
    <3>2. At(Leader, "read") \/ Held(Leader, "prefetch")
      <4>1. ~(At(Leader, "normalize") \/ At(Leader, "exit"))
        BY <1>1, <2>1, <2>3, <2>6, <3>1 DEF InChunks
      <4> QED BY <2>6, <4>1
    <3>3. bcast = Number(Leader)
      BY <1>3, <3>2 DEF IInv, Handed
    <3> QED BY <2>1, <2>2, <2>3, <2>6, <2>7, <3>3 DEF At
  <2>8. CASE At(c, "normalize")
    <3>1. b = Blocks
      BY <2>1, <2>2, <2>8, <1>1 DEF InChunks
    <3>2. At(Leader, "normalize") \/ At(Leader, "exit")
      <4>1. ~(At(Leader, "read") \/ Held(Leader, "prefetch"))
        BY <1>1, <2>1, <2>3, <2>6, <3>1 DEF InChunks
      <4> QED BY <2>6, <4>1
    <3>3. bcast = Sums
      BY <1>3, <3>2 DEF IInv, Handed
    <3> QED BY <2>8, <3>3 DEF At
  <2> QED BY <1>3, <2>7, <2>8
<1>4. At(c, "normalize") => Chunks
  <2> SUFFICES ASSUME At(c, "normalize"), ~Chunks PROVE FALSE
    OBVIOUS
  <2>1. InPipeline(c)
    BY <1>1 DEF Placed
  <2> QED BY <1>1, <2>1 DEF InPipeline, At
<1> QED BY <1>2, <1>3, <1>4

LEMMA NoAlias == IInv => PhasesNeverAlias
<1> SUFFICES ASSUME IInv, NEW w \in Warps, NEW lap, lap = warp[w].block \div pipe.stages
             PROVE  /\ w \in Consumers /\ At(w, "wait") =>
                         mbar[<<Operand(w), Stage(w)>>].phase \in {lap, lap + 1}
                    /\ At(w, "wait") /\ w = Dma =>
                         mbar[<<"done", Stage(w)>>].phase \in {lap - 1, lap}
  BY DEF PhasesNeverAlias
<1>1. /\ Typed /\ pipe \in Pipes /\ (\A v \in Warps : Placed(v)) /\ Leader \in Consumers
      /\ Dma \notin Consumers
  BY PipesOK DEF IInv, Typed
<1>2. PICK n \in Nat : n = warp[w].block
  BY <1>1, Mover
<1>3. PICK s : s = Stage(w)
  OBVIOUS
<1>4. s \in Stages /\ n % pipe.stages = s
  BY <1>1, <1>2, <1>3, StageOf DEF Stage
<1>5. PICK f \in Nat : f = Fills(n, s)
  BY <1>1, <1>4, FillsFacts
<1>6. f = lap /\ Fills(n + 1, s) = f + 1
  BY <1>1, <1>2, <1>4, <1>5, FillsFacts
<1>7. ASSUME w \in Consumers, At(w, "wait")
      PROVE  mbar[<<Operand(w), s>>].phase \in {f, f + 1}
  <2>1. PICK o : o = Operand(w)
    OBVIOUS
  <2>2. o \in OperandSet /\ o \in AllOperands
    <3>1. warp[w].next \in DOMAIN OperandSeq
      BY <1>1, Mover
    <3> QED BY <2>1, <3>1 DEF Operand, OperandSet, AllOperands
  <2>3. <<o, s>> \in Loads
    BY <1>4, <2>2 DEF Loads
  <2>4. ~Setup(w) /\ ~Turned(w) /\ w \in Syncing
    BY <1>7 DEF Setup, Turned, Held, At, Syncing
  <2>5. Passed(w, o) = n
    <3>1. CASE Pipelined
      BY <1>1, <1>2, <1>7, <2>2, <2>4, <3>1, ConsumerCounts
    <3>2. CASE ~Pipelined
      <4>1. Chunks /\ o # "q"
        BY <1>1, <2>2, <3>2, PipeFacts, OperandFacts
      <4>2. Passed(w, o) = Done(w) /\ BlockOf(w) = n
        BY <1>1, <1>2, <1>7, <4>1, ChunkCounts
      <4>3. ~At(w, "prefetch") /\ ~Held(w, "prefetch") /\ n + 0 = n
        BY <1>7 DEF At, Held
      <4> QED BY <4>2, <4>3 DEF Done
    <3> QED BY <3>1, <3>2
  <2>6. LoadBar(o, s)
    <3>1. Streaming
      BY <2>4, Live
    <3>2. <<o, s>>[1] = o /\ <<o, s>>[2] = s
      OBVIOUS
    <3> QED BY <2>3, <3>1, <3>2 DEF Streaming
  <2>7. PICK k \in Nat : k = Loaded(o)
    BY <1>1, Counts
  <2>8. n <= k /\ k <= n + pipe.stages
    BY <1>7, <2>2, <2>5, <2>7 DEF IInv, Window
  <2>9. PICK g \in Nat : g = Fills(k, s)
    BY <1>1, <1>4, FillsFacts
  <2>10. f <= g /\ g <= f + 1
    <3>1. Fills(n, s) <= Fills(k, s) /\ Fills(k, s) <= Fills(n, s) + 1
      BY <1>1, <1>4, <2>8, FillsOrder
    <3> QED BY <1>5, <2>9, <3>1
  <2>11. CASE Filling(o, s) = {}
    <3>1. mbar[<<o, s>>].phase = g
      BY <2>6, <2>7, <2>9, <2>11 DEF LoadBar
    <3> QED BY <2>1, <2>10, <3>1
  <2>12. CASE Filling(o, s) # {}
    <3>1. mbar[<<o, s>>].phase = g - 1
      BY <2>6, <2>7, <2>9, <2>12 DEF LoadBar
    <3>2. PICK m \in Nat : m < k /\ n <= m
      <4>1. PICK x \in flight : x.operand = o /\ x.stage = s
        BY <2>12 DEF Filling
      <4>2. PICK m \in Nat : Latest(o, s, m) /\ Passed(w, o) <= m
        BY <1>7, <4>1 DEF IInv, InFlight
      <4> QED BY <2>5, <2>7, <4>2 DEF Latest
    <3>3. Fills(n + 1, s) <= Fills(k, s)
      <4>1. n + 1 \in Nat /\ n + 1 <= k
        BY <3>2
      <4> QED BY <1>1, <1>4, <4>1, FillsOrder
    <3>4. g = f + 1
      BY <1>6, <2>9, <2>10, <3>3
    <3>5. g - 1 = f
      BY <3>4
    <3> QED BY <2>1, <3>1, <3>5
  <2> QED BY <2>11, <2>12
<1>8. ASSUME At(w, "wait"), w = Dma
      PROVE  mbar[<<"done", s>>].phase \in {f - 1, f}
  <2>1. DoneBar(s) /\ \A d \in Consumers : Done(d) <= n /\ n <= Done(d) + pipe.stages
    BY <1>2, <1>3, <1>8, DmaWaiting
  <2>2. mbar[<<"done", s>>].phase = f \/ mbar[<<"done", s>>].phase + 1 = f
    BY <1>1, <1>4, <1>5, <2>1, DonePhase
  <2>3. mbar[<<"done", s>>].phase \in Nat
    BY <1>1, <1>4, <2>1, SomeoneOwes
  <2> QED BY <2>2, <2>3
<1> QED BY <1>3, <1>6, <1>7, <1>8

-----------------------------------------------------------------------------
(* The mbarriers' counts, which the invariant bounds only once they are    *)
(* initialised: before that they are those of the tile before.             *)

CountsOf(b) ==
  /\ mbar[b].pending <= Cardinality(Consumers) /\ mbar[b].count <= Cardinality(Consumers)
  /\ mbar[b].tx <= Cardinality(Pieces)

LoadsBounded == \A l \in Loads : CountsOf(l)
DonesBounded == \A s \in Stages : CountsOf(<<"done", s>>)

LEMMA CountsFacts ==
  /\ Cardinality(Consumers) \in Nat /\ 1 <= Cardinality(Consumers)
  /\ Cardinality(Pieces) \in Nat /\ IsFiniteSet(Pieces)
<1>1. IsFiniteSet(Consumers) /\ Leader \in Consumers
  BY PipesOK
<1>2. Cardinality(Consumers) \in Nat /\ Cardinality(Consumers) # 0
  BY <1>1, FS_CardinalityType, FS_EmptySet
<1>3. IsFiniteSet(Pieces) /\ Cardinality(Pieces) \in Nat
  BY PieceFacts, FS_CardinalityType
<1> QED BY <1>2, <1>3

LEMMA FillingSize ==
  ASSUME IInv, NEW o \in AllOperands, NEW s, <<o, s>> \in Loads
  PROVE  Cardinality(Filling(o, s)) <= Cardinality(Pieces)
<1>1. Typed /\ (\A v \in Warps : Placed(v)) /\ pipe \in Pipes /\ s \in Stages
  BY OperandStages DEF IInv, Typed
<1>2. CASE Filling(o, s) = {}
  <2>1. Cardinality(Filling(o, s)) = 0
    BY <1>2, FS_EmptySet
  <2> QED BY <2>1, CountsFacts
<1>3. CASE Filling(o, s) # {}
  <2>1. PICK x \in flight : x.operand = o /\ x.stage = s
    BY <1>3 DEF Filling
  <2>2. PICK m \in Nat : Latest(o, s, m)
    BY <2>1 DEF IInv, InFlight
  <2>3. PICK n : n = Tag(o, m)
    OBVIOUS
  <2>4. ASSUME NEW y \in Filling(o, s) PROVE y \in Copies(o, s, n)
    <3>1. y \in flight /\ y.operand = o /\ y.stage = s
      BY DEF Filling
    <3>2. PICK i \in Nat : Latest(o, s, i) /\ y.block = Tag(o, i)
      BY <3>1 DEF IInv, InFlight
    <3>3. y.block = n
      BY <1>1, <2>2, <2>3, <3>2, OneLatest
    <3>4. y \in [operand : AllOperands, stage : Stages, piece : Pieces, block : Nat]
      BY <1>1, <3>1 DEF Typed
    <3>5. y = Copy(o, s, y.piece, n) /\ y.piece \in Pieces
      BY <3>1, <3>3, <3>4 DEF Copy
    <3> QED BY <3>5 DEF Copies
  <2>5. IsFiniteSet(Copies(o, s, n)) /\ Cardinality(Copies(o, s, n)) = Cardinality(Pieces)
    BY PieceFacts
  <2>6. Filling(o, s) \subseteq Copies(o, s, n)
    BY <2>4
  <2> QED BY <2>5, <2>6, FS_Subset
<1> QED BY <1>2, <1>3

LEMMA StreamingBounded ==
  IInv /\ ~At(Leader, "init") => LoadsBounded /\ (Pipelined => DonesBounded)
<1> SUFFICES ASSUME IInv, ~At(Leader, "init")
             PROVE  LoadsBounded /\ (Pipelined => DonesBounded)
  OBVIOUS
<1>1. Streaming
  BY DEF IInv
<1>2. ASSUME NEW l \in Loads PROVE CountsOf(l)
  <2>1. PICK o, s : l = <<o, s>> /\ o \in AllOperands
    BY DEF Loads, AllOperands
  <2>2. LoadBar(l[1], l[2])
    BY <1>1 DEF Streaming
  <2>3. LoadBar(o, s)
    BY <2>1, <2>2
  <2>4. CASE Filling(o, s) = {}
    <3>1. mbar[l].pending = 1 /\ mbar[l].count = 1 /\ mbar[l].tx = 0
      BY <2>1, <2>3, <2>4 DEF LoadBar
    <3> QED BY <3>1, CountsFacts DEF CountsOf
  <2>5. CASE Filling(o, s) # {}
    <3>1. mbar[l].pending = 0 /\ mbar[l].count = 1 /\ mbar[l].tx = Cardinality(Filling(o, s))
      BY <2>1, <2>3, <2>5 DEF LoadBar
    <3>2. Cardinality(Filling(o, s)) <= Cardinality(Pieces)
      BY <2>1, FillingSize
    <3> QED BY <3>1, <3>2, CountsFacts DEF CountsOf
  <2> QED BY <2>4, <2>5
<1>3. ASSUME Pipelined, NEW s \in Stages PROVE CountsOf(<<"done", s>>)
  <2>1. DoneBar(s)
    BY <1>1, <1>3 DEF Streaming
  <2>2. PICK f \in Nat : /\ mbar[<<"done", s>>].tx = 0
                         /\ mbar[<<"done", s>>].count = Cardinality(Consumers)
                         /\ mbar[<<"done", s>>].pending = Cardinality(Owing(s, f))
    BY <2>1 DEF DoneBar
  <2>3. Cardinality(Owing(s, f)) <= Cardinality(Consumers)
    <3>1. Owing(s, f) \subseteq Consumers
      BY DEF Owing
    <3> QED BY <3>1, FS_Subset, PipesOK
  <2> QED BY <2>2, <2>3, CountsFacts DEF CountsOf
<1> QED BY <1>2, <1>3 DEF LoadsBounded, DonesBounded

LEMMA StartsBounded == Init => LoadsBounded /\ DonesBounded
<1> SUFFICES ASSUME Init, NEW b \in Mbars PROVE CountsOf(b)
  BY DEF LoadsBounded, DonesBounded, Mbars
<1>1. mbar[b].pending = 0 /\ mbar[b].count = 0 /\ mbar[b].tx = 0
  BY DEF Init, MbarInit
<1> QED BY <1>1, CountsFacts DEF CountsOf

\* Only the initialisation touches a mbarrier without leaving the leader
\* behind it, and DONE is touched by a pipeline only.
LEMMA BoundsStep ==
  IInv /\ LoadsBounded /\ DonesBounded /\ [Next]_vars =>
    /\ At(Leader, "init")' => LoadsBounded'
    /\ DonesBounded' \/ (Pipelined' /\ ~At(Leader, "init")')
<1> DEFINE Goal == /\ At(Leader, "init")' => LoadsBounded'
                   /\ DonesBounded' \/ (Pipelined' /\ ~At(Leader, "init")')
<1> SUFFICES ASSUME IInv, LoadsBounded, DonesBounded, [Next]_vars PROVE Goal
  OBVIOUS
<1>1. /\ Typed /\ pipe \in Pipes /\ (\A v \in Warps : Placed(v)) /\ Leader \in Consumers
      /\ Dma \notin Consumers /\ Dma \in Warps /\ Consumers \subseteq Warps
      /\ warp \in [Warps -> WarpType]
  BY PipesOK DEF IInv, Typed, Warps, WarpType
<1>2. ASSUME mbar' = mbar, pipe' = pipe PROVE Goal
  BY <1>2, SamePipe DEF LoadsBounded, DonesBounded, CountsOf
<1>3. ASSUME pipe' = pipe, ~At(Leader, "init")', 
             Pipelined \/ \A s \in Stages : mbar'[<<"done", s>>] = mbar[<<"done", s>>]
      PROVE  Goal
  BY <1>3, SamePipe DEF DonesBounded, CountsOf
<1>4. ASSUME NEW w \in Syncing, ~Setup(w), w # Leader => warp'[Leader] = warp[Leader],
             w = Leader => ~At(Leader, "init")'
      PROVE  ~At(Leader, "init")'
  <2>1. ~At(Leader, "init")
    BY <1>4, SetupCounts
  <2> QED BY <1>4, <2>1 DEF At
<1>5. ASSUME NEW o \in AllOperands, NEW s, NEW n, Load(o, s, n)
      PROVE  \A z \in Stages : mbar'[<<"done", z>>] = mbar[<<"done", z>>]
  <2>1. o # "done"
    BY <1>1, OperandFacts DEF AllOperands
  <2> QED BY <1>5, <2>1 DEF Load
<1> HIDE DEF Goal
<1>6. CASE LandAny
  <2>1. PICK x \in flight : Land(x)
    BY <1>6 DEF LandAny
  <2>2. pipe' = pipe /\ ~At(Leader, "init")'
    BY <2>1 DEF Land, At, IInv
  <2>3. x.operand # "done"
    <3>1. x.operand \in AllOperands
      BY <1>1 DEF Typed
    <3> QED BY <1>1, <3>1, OperandFacts DEF AllOperands
  <2>4. \A s \in Stages : mbar'[<<"done", s>>] = mbar[<<"done", s>>]
    BY <2>1, <2>3 DEF Land
  <2> QED BY <1>3, <2>2, <2>4
<1>7. CASE BarSync \/ Bar128 \/ UNCHANGED vars
  BY <1>2, <1>7 DEF BarSync, Bar128, memVars, vars
<1>8. CASE InitMbars
  <2>1. pipe' = pipe /\ ~At(Leader, "init")'
    BY <1>1, <1>8 DEF InitMbars, SyncThen, At
  <2>2. DonesBounded'
    <3> SUFFICES ASSUME NEW s \in Stages PROVE CountsOf(<<"done", s>>)'
      BY <2>1, SamePipe DEF DonesBounded
    <3>1. <<"done", s>> \in Mbars
      BY DEF Mbars
    <3>2. mbar'[<<"done", s>>] = MbarInit(DoneCount)
      BY <1>8, <3>1 DEF InitMbars
    <3>3. mbar'[<<"done", s>>].pending = DoneCount /\ mbar'[<<"done", s>>].count = DoneCount
          /\ mbar'[<<"done", s>>].tx = 0
      BY <3>2 DEF MbarInit
    <3>4. Pieces' = Pieces
      BY <2>1, SamePipe
    <3> QED BY <3>3, <3>4, CountsFacts DEF CountsOf, DoneCount
  <2> QED BY <2>1, <2>2 DEF Goal
<1>9. ASSUME NEW w \in Warps, SkipInit(w) PROVE Goal
  BY <1>2, <1>9 DEF SkipInit, memVars
<1>10. CASE DmaNext
  <2>1. CASE DmaLoop \/ DmaWaitDone \/ TileDone(Dma)
    BY <1>2, <2>1 DEF DmaLoop, DmaWaitDone, TileDone, TileDoneTo, memVars
  <2>2. CASE (DmaStart /\ pipe.style # "gemm") \/ DmaLoad
    <3>1. Pipelined
      BY <1>1, <2>2, PipeFacts DEF DmaStart, DmaLoad, Placed, InChunks, At
    <3>2. Dma \in Syncing
      BY <1>1, <3>1, PipeFacts DEF Syncing
    <3>3. ~Setup(Dma)
      BY <2>2 DEF DmaStart, DmaLoad, Setup, Held, At
    <3>4. pipe' = pipe /\ warp'[Leader] = warp[Leader] /\ Dma # Leader
      BY <1>1, <2>2 DEF DmaStart, DmaLoad, Begin
    <3>5. ~At(Leader, "init")'
      BY <1>4, <3>2, <3>3, <3>4
    <3> QED BY <1>3, <3>1, <3>4, <3>5
  <2>3. CASE DmaStart /\ pipe.style = "gemm"
    BY <1>2, <2>3 DEF DmaStart, memVars
  <2> QED BY <1>10, <2>1, <2>2, <2>3 DEF DmaNext
<1>11. ASSUME NEW c \in Consumers, ConsumerNext(c) PROVE Goal
  <2>1. CASE FinishBlock(c)
    <3>1. Pipelined /\ c \in Syncing
      BY <1>1, <2>1 DEF FinishBlock, FinishWith, LastRead, Syncing, Pipelined
    <3>2. ~Setup(c)
      BY <2>1 DEF FinishBlock, FinishWith, LastRead, Setup, Held, At
    <3>3. /\ pipe' = pipe /\ (c # Leader => warp'[Leader] = warp[Leader])
          /\ (c = Leader => ~At(Leader, "init")')
      BY <1>1, <2>1 DEF FinishBlock, FinishWith, At
    <3>4. ~At(Leader, "init")'
      BY <1>4, <3>1, <3>2, <3>3
    <3> QED BY <1>3, <3>1, <3>3, <3>4
  <2>2. CASE ~FinishBlock(c)
    <3>1. mbar' = mbar /\ pipe' = pipe
      BY <1>11, <2>2 DEF ConsumerNext, ConsumerStart, WaitQuery, FetchQuery, ConsumerLoop,
         WaitLoad, ReadFirst, Transpose, TileDone, TileDoneTo, memVars
    <3> QED BY <1>2, <3>1
  <2> QED BY <2>1, <2>2
<1>12. ASSUME NEW c \in Consumers, ChunkNext(c) PROVE Goal
  <2>1. CASE mbar' = mbar /\ pipe' = pipe
    BY <1>2, <2>1
  <2>2. ASSUME ~(mbar' = mbar /\ pipe' = pipe)
        PROVE  c = Leader /\ (PrefetchFirst \/ PrefetchSecond \/ PrefetchNext(c))
    BY <1>12, <2>2 DEF ChunkNext, SkipPrefetch, ChunkLoop, WaitChunk, ReadChunk, PrefetchNext,
       LastChunkDone, Normalize, ScoreChunk, memVars
  <2>3. CASE ~(mbar' = mbar /\ pipe' = pipe)
    <3>1. c = Leader /\ (PrefetchFirst \/ PrefetchSecond \/ PrefetchNext(Leader))
      BY <2>2, <2>3
    <3>2. pipe' = pipe /\ ~At(Leader, "init")'
      <4>1. Leader \in DOMAIN warp
        BY <1>1
      <4>2. warp'[Leader].at \in {"second", "loop"}
        BY <1>1, <3>1 DEF PrefetchFirst, PrefetchSecond, PrefetchNext, Goto, WarpType
      <4> QED BY <3>1, <4>2 DEF PrefetchFirst, PrefetchSecond, PrefetchNext, At
    <3>3. \E s, n : Load("kv", s, n)
      BY <2>3, <3>1, <3>2 DEF PrefetchFirst, PrefetchSecond, PrefetchNext, memVars
    <3>4. Chunks
      BY <1>1, <3>1, PipeFacts DEF PrefetchFirst, PrefetchSecond, PrefetchNext, Placed, InPipeline, At
    <3>5. "kv" \in AllOperands
      BY <1>1, <3>4, OperandFacts DEF AllOperands
    <3>6. \A s \in Stages : mbar'[<<"done", s>>] = mbar[<<"done", s>>]
      BY <1>5, <3>3, <3>5
    <3> QED BY <1>3, <3>2, <3>6
  <2> QED BY <2>1, <2>3
<1>13. ASSUME NEW w \in Warps, Step(w) PROVE Goal
  BY <1>8, <1>9, <1>10, <1>11, <1>12, <1>13 DEF Step
<1> QED BY <1>6, <1>7, <1>13 DEF Next, Finished

LEMMA TypesHold == IInv /\ LoadsBounded /\ DonesBounded => TypeOK
<1> SUFFICES ASSUME IInv, LoadsBounded, DonesBounded PROVE TypeOK
  OBVIOUS
<1>1. Typed
  BY DEF IInv
<1>2. ASSUME NEW b \in Mbars
      PROVE  mbar[b] \in [phase : Nat, pending : 0 .. Cardinality(Consumers),
                          count : 0 .. Cardinality(Consumers), tx : 0 .. Cardinality(Pieces)]
  <2>1. CountsOf(b)
    BY DEF LoadsBounded, DonesBounded, Mbars
  <2>2. mbar[b] \in [phase : Nat, pending : Nat, count : Nat, tx : Nat]
    BY <1>1 DEF Typed
  <2>3. /\ mbar[b].pending \in 0 .. Cardinality(Consumers) /\ mbar[b].phase \in Nat
        /\ mbar[b].count \in 0 .. Cardinality(Consumers) /\ mbar[b].tx \in 0 .. Cardinality(Pieces)
    BY <2>1, <2>2, CountsFacts DEF CountsOf
  <2> QED BY <2>2, <2>3
<1>3. mbar = [b \in Mbars |-> mbar[b]]
  BY <1>1 DEF Typed
<1>4. mbar \in [Mbars -> [phase : Nat, pending : 0 .. Cardinality(Consumers),
                          count : 0 .. Cardinality(Consumers), tx : 0 .. Cardinality(Pieces)]]
  BY <1>2, <1>3
<1>5. ASSUME NEW w \in Warps
      PROVE  /\ warp[w].tile \in 0 .. pipe.tiles - 1
             /\ warp[w].block \in 0 .. IF w = Dma THEN DmaIssues ELSE Blocks
             /\ warp[w].next \in DOMAIN OperandSeq
             /\ warp[w].parity \in [Stages -> {0, 1}]
  BY <1>1, Mover
<1>6. /\ pipe \in Pipes
      /\ flight \subseteq [operand : OperandSet \cup {"q"}, stage : Stages, piece : Pieces, block : Nat]
      /\ smem \in [Places -> Nat \cup {Nothing}]
      /\ vt \in [Stages \X Consumers -> Nat \cup {Nothing}]
      /\ bcast \in Nat \cup {Nothing, Sums}
      /\ issued \in [OperandSet \cup {"q"} -> Nat]
  BY <1>1 DEF Typed, AllOperands
<1> QED BY <1>4, <1>5, <1>6 DEF TypeOK

-----------------------------------------------------------------------------
(* The kernels stream their blocks as TileStream promises.                 *)

LEMMA ProductOrder ==
  ASSUME NEW a \in Nat, NEW b \in Nat, NEW n \in Nat, a <= b
  PROVE  a * n <= b * n
OBVIOUS

LEMMA ProductNext ==
  ASSUME NEW a \in Nat, NEW n \in Nat
  PROVE  (a + 1) * n = a * n + n /\ a * n \in Nat
OBVIOUS

\* The tile of a block.
LEMMA TileOfBlock ==
  ASSUME NEW a \in Nat, NEW n \in Nat, NEW m \in Nat, m < n
  PROVE  (a * n + m) \div n = a
<1>1. PICK k \in Nat : k = a * n + m
  BY ProductNext
<1>2. PICK q \in Nat : q = k \div n
  OBVIOUS
<1>3. q * n <= k /\ k < q * n + n
  BY <1>2
<1>4. ~(q < a)
  <2> SUFFICES ASSUME q + 1 <= a PROVE FALSE
    OBVIOUS
  <2>1. (q + 1) * n <= a * n /\ (q + 1) * n = q * n + n
    BY ProductOrder, ProductNext
  <2> QED BY <1>1, <1>3, <2>1, ProductNext
<1>5. ~(a < q)
  <2> SUFFICES ASSUME a + 1 <= q PROVE FALSE
    OBVIOUS
  <2>1. (a + 1) * n <= q * n /\ (a + 1) * n = a * n + n
    BY ProductOrder, ProductNext
  <2> QED BY <1>1, <1>3, <2>1, ProductNext
<1> QED BY <1>1, <1>2, <1>4, <1>5

\* The blocks a warp is done with, through all the tiles.
LEMMA UsedIs ==
  ASSUME IInv, NEW c \in Consumers
  PROVE  Used(c) = Base + Done(c) /\ Used(c) \in Nat
<1>1. /\ Typed /\ pipe \in Pipes /\ (\A v \in Warps : Placed(v)) /\ InStep /\ Leader \in Consumers
      /\ c \in Warps /\ Leader \in Warps /\ c # Dma /\ Blocks \in Nat
      /\ warp[c].tile \in Nat /\ warp[c].block \in Nat
  BY PipesOK, Mover, PipeFacts DEF IInv, Typed, Warps
<1>2. TileOf(c) = TileOf(Leader) /\ TileOf(c) \in Nat
  <2>1. CASE Pipelined
    BY <1>1, <2>1, SameTile, Counts
  <2>2. CASE ~Pipelined
    <3>1. ~Turned(c) /\ warp[c].tile = 0 /\ ~Turned(Leader) /\ warp[Leader].tile = 0
      BY <1>1, <2>2, ChunkCounts, PipeFacts
    <3>2. 0 - 0 = 0 /\ 0 \in Nat
      OBVIOUS
    <3> QED BY <3>1, <3>2 DEF TileOf
  <2> QED BY <2>1, <2>2
<1>3. Number(c) = TileOf(c) * Blocks + BlockOf(c)
  <2>1. CASE Turned(c)
    <3>1. InPipeline(c)
      <4>1. ~Chunks
        BY <1>1, <2>1 DEF Placed, InChunks, Turned, Held
      <4> QED BY <1>1, <4>1 DEF Placed
    <3>2. warp[c].block = 0 /\ BlockOf(c) = Blocks /\ TileOf(c) = warp[c].tile - 1
      BY <2>1, <3>1 DEF InPipeline, Turned, Held, BlockOf, TileOf
    <3>3. PICK t \in Nat : t = TileOf(c)
      BY <1>2
    <3>4. warp[c].tile = t + 1
      BY <1>1, <3>2, <3>3
    <3>5. Number(c) = (t + 1) * Blocks + 0
      BY <3>2, <3>4 DEF Number
    <3>6. (t + 1) * Blocks = t * Blocks + Blocks /\ t * Blocks \in Nat
      BY <1>1, ProductNext
    <3> QED BY <1>1, <3>2, <3>3, <3>5, <3>6
  <2>2. CASE ~Turned(c)
    <3>1. TileOf(c) = warp[c].tile - 0 /\ BlockOf(c) = warp[c].block
      BY <2>2 DEF TileOf, BlockOf
    <3> QED BY <1>1, <3>1 DEF Number
  <2> QED BY <2>1, <2>2
<1>4. PICK h : h = IF At(c, "prefetch") \/ Held(c, "prefetch") THEN 1 ELSE 0
  OBVIOUS
<1>5. Used(c) = Number(c) + h /\ Done(c) = BlockOf(c) + h
  BY <1>4 DEF Used, Done, Held
<1>6. PICK z \in Nat : z = TileOf(c) * Blocks
  BY <1>1, <1>2, ProductNext
<1>7. PICK b \in Nat : b = BlockOf(c)
  BY <1>1 DEF BlockOf
<1>8. h \in Nat /\ (z + b) + h = z + (b + h) /\ (z + b) + h \in Nat
  BY <1>4
<1> QED BY <1>2, <1>3, <1>5, <1>6, <1>7, <1>8 DEF Base

LEMMA UsedKept ==
  ASSUME pipe' = pipe, NEW c,
         warp'[c].tile = warp[c].tile, warp'[c].block = warp[c].block,
         (At(c, "prefetch") \/ Held(c, "prefetch")) <=> (At(c, "prefetch") \/ Held(c, "prefetch"))'
  PROVE  Used(c)' = Used(c)
<1>1. Number(c)' = Number(c)
  BY SamePipe DEF Number
<1> QED BY <1>1 DEF Used, Held

UsedMap == [c \in Consumers |-> Used(c)]

LEMMA StreamQuiet ==
  ASSUME pipe' = pipe, Landed' = Landed, \A c \in Consumers : Used(c)' = Used(c)
  PROVE  [Stream!Next]_(Stream!streamVars)
<1>1. Job' = Job
  BY SamePipe DEF Job
<1>2. [c \in Consumers |-> Used(c)]' = [c \in Consumers |-> Used(c)]
  OBVIOUS
<1> QED BY <1>1, <1>2 DEF Stream!streamVars

LEMMA SameLanded ==
  ASSUME pipe' = pipe, issued' = issued, flight' = flight
  PROVE  Landed' = Landed
BY SamePipe DEF Landed

\* A load puts a block on its way, and nothing into shared memory.
LEMMA LoadLands ==
  ASSUME IInv, pipe' = pipe, NEW o \in AllOperands, NEW s, NEW n, Load(o, s, n),
         o \in OperandSet => n = issued[o]
  PROVE  Landed' = Landed
<1> DEFINE new == {[operand |-> o, stage |-> s, piece |-> p, block |-> n] : p \in Pieces}
<1>1. flight' = flight \cup new /\ issued' = [issued EXCEPT ![o] = issued[o] + 1]
  BY DEF Load
<1>2. issued \in [AllOperands -> Nat] /\ OperandSet \subseteq AllOperands
  BY DEF IInv, Typed, AllOperands
<1>3. PICK y \in new : y.operand = o /\ y.block = n
  <2>1. PICK p : p \in Pieces
    BY DEF Pieces
  <2>2. [operand |-> o, stage |-> s, piece |-> p, block |-> n] \in new
    BY <2>1
  <2> QED BY <2>2
<1>4. \A x \in new : x.operand = o /\ x.block = n
  OBVIOUS
<1> HIDE DEF new
<1>5. ASSUME NEW l \in OperandSet \X (0 .. pipe.tiles * Blocks - 1)
      PROVE  (l[2] < issued'[l[1]] /\ \A x \in flight' : ~(x.operand = l[1] /\ x.block = l[2]))
               <=> (l[2] < issued[l[1]] /\ \A x \in flight : ~(x.operand = l[1] /\ x.block = l[2]))
  <2>1. CASE l[1] # o
    <3>1. issued'[l[1]] = issued[l[1]]
      BY <1>1, <1>2, <2>1
    <3> QED BY <1>1, <1>4, <2>1, <3>1
  <2>2. CASE l[1] = o
    <3>1. o \in OperandSet /\ n = issued[o] /\ issued'[o] = n + 1 /\ n \in Nat /\ l[2] \in Int
      BY <1>1, <1>2, <2>2
    <3>2. CASE l[2] = n
      BY <1>1, <1>3, <2>2, <3>1, <3>2
    <3>3. CASE l[2] # n
      <4>1. l[2] < issued'[o] <=> l[2] < issued[o]
        BY <3>1, <3>3
      <4> QED BY <1>1, <1>4, <2>2, <3>3, <4>1
    <3> QED BY <3>2, <3>3
  <2> QED BY <2>1, <2>2
<1> QED BY <1>5, SamePipe DEF Landed

\* A warp is done with a block it had.
LEMMA UseStep ==
  ASSUME IInv, pipe' = pipe, issued' = issued, flight' = flight,
         NEW c \in Consumers, \A o \in OperandSet : Has(c, o), Done(c) < Blocks,
         Used(c)' = Used(c) + 1, \A d \in Consumers : d # c => Used(d)' = Used(d)
  PROVE  [Stream!Next]_(Stream!streamVars)
<1>1. /\ Typed /\ pipe \in Pipes /\ (\A v \in Warps : Placed(v)) /\ Base \in Nat /\ Done(c) \in Nat
      /\ Blocks \in Nat /\ pipe.tiles \in Nat /\ TileOf(Leader) \in 0 .. pipe.tiles - 1
  BY PipesOK, Counts, PipeFacts DEF IInv, Typed, Warps
<1>2. PICK k \in Nat : k = Done(c)
  BY <1>1
<1>3. PICK z \in Nat : z = Base
  BY <1>1
<1>4. z + k < pipe.tiles * Blocks
  <2>1. PICK t \in Nat : t = TileOf(Leader) /\ t + 1 <= pipe.tiles
    BY <1>1
  <2>2. (t + 1) * Blocks = t * Blocks + Blocks /\ t * Blocks \in Nat /\ pipe.tiles * Blocks \in Nat
    BY <1>1, ProductNext
  <2>4. (t + 1) * Blocks <= pipe.tiles * Blocks
    <3>1. t + 1 \in Nat
      OBVIOUS
    <3> QED BY <1>1, <2>1, <3>1, ProductOrder
  <2>3. z = t * Blocks
    BY <1>3, <2>1 DEF Base
  <2> QED BY <1>1, <1>2, <2>2, <2>3, <2>4
<1>5. Used(c) = z + k
  BY <1>2, <1>3, UsedIs
<1>6. ASSUME NEW o \in OperandSet PROVE <<o, z + k>> \in Landed
  <2>1. o \in AllOperands /\ o # "q"
    BY <1>1, OperandFacts DEF AllOperands
  <2>2. Passed(c, o) = k /\ k < Loaded(o) /\ Filling(o, k % pipe.stages) = {}
    <3>1. Passed(c, o) = k
      BY <1>2, <2>1 DEF Passed
    <3> QED BY <2>1, <3>1 DEF IInv, Granted, There
  <2>3. issued[o] = z + Loaded(o) /\ Loaded(o) \in Nat
    BY <1>1, <1>3, Counts DEF IInv, Window
  <2>4. z + k < issued[o]
    BY <2>2, <2>3
  <2>5. ASSUME NEW x \in flight, x.operand = o, x.block = z + k PROVE FALSE
    <3>1. PICK m \in Nat : Latest(o, x.stage, m) /\ x.block = Tag(o, m)
      BY <2>5 DEF IInv, InFlight
    <3>2. z + m = z + k
      BY <1>3, <2>1, <2>5, <3>1 DEF Tag
    <3>3. m = k
      BY <3>2
    <3>4. x \in Filling(o, k % pipe.stages)
      BY <2>5, <3>1, <3>3 DEF Latest, Filling
    <3> QED BY <2>2, <3>4
  <2>6. z + k \in 0 .. pipe.tiles * Blocks - 1
    <3>1. pipe.tiles * Blocks \in Nat
      BY <1>1, ProductNext
    <3> QED BY <1>4, <3>1
  <2> QED BY <2>4, <2>5, <2>6 DEF Landed
<1>7. Landed' = Landed /\ Job' = Job
  BY SameLanded, SamePipe DEF Job
<1>8. UsedMap' = [UsedMap EXCEPT ![c] = UsedMap[c] + 1]
  BY DEF UsedMap
<1>9. Stream!Use(c)
  <2>1. UsedMap[c] = z + k
    BY <1>5 DEF UsedMap
  <2>2. UsedMap[c] < Job.tiles * Job.blocks
    BY <1>4, <2>1 DEF Job
  <2>3. \A o \in Job.operands : <<o, UsedMap[c]>> \in Landed
    BY <1>6, <2>1 DEF Job
  <2> QED BY <1>7, <1>8, <2>2, <2>3 DEF Stream!Use, Stream!TotalBlocks, UsedMap
<1> QED BY <1>9 DEF Stream!Next

\* A copy of the TMA unit is the last of its block, or not.
LEMMA LandStep ==
  ASSUME IInv, NEW x \in flight, Land(x)
  PROVE  [Stream!Next]_(Stream!streamVars)
<1>1. /\ Typed /\ pipe \in Pipes /\ (\A v \in Warps : Placed(v)) /\ Base \in Nat
      /\ Blocks \in Nat /\ pipe.tiles \in Nat /\ TileOf(Leader) \in 0 .. pipe.tiles - 1
      /\ Leader \in Consumers /\ x.operand \in AllOperands /\ pipe.stages \in Nat
  BY PipesOK, Counts, PipeFacts DEF IInv, Typed, Warps
<1>2. PICK o : o = x.operand
  OBVIOUS
<1>3. PICK m \in Nat : /\ Latest(o, x.stage, m) /\ x.block = Tag(o, m)
                       /\ \A c \in Consumers : Passed(c, o) <= m
  BY <1>2 DEF IInv, InFlight
<1>4. /\ pipe' = pipe /\ warp' = warp /\ issued' = issued /\ flight' = flight \ {x}
  BY DEF Land
<1>5. \A c \in Consumers : Used(c)' = Used(c)
  BY <1>4, UsedKept DEF At, Held
<1>6. Job' = Job /\ UsedMap' = UsedMap
  BY <1>4, <1>5, SamePipe DEF Job, UsedMap
<1>7. CASE o \notin OperandSet \/ \E y \in flight : y # x /\ y.operand = o /\ y.block = x.block
  <2>1. ASSUME NEW l \in OperandSet \X (0 .. pipe.tiles * Blocks - 1)
        PROVE  (\A y \in flight' : ~(y.operand = l[1] /\ y.block = l[2]))
                 <=> (\A y \in flight : ~(y.operand = l[1] /\ y.block = l[2]))
    BY <1>2, <1>4, <1>7
  <2>2. Landed' = Landed
    BY <1>4, <2>1, SamePipe DEF Landed
  <2> QED BY <1>4, <1>5, <2>2, StreamQuiet
<1>9. CASE Blocks = 0
  <2>1. pipe.tiles * Blocks = 0
    BY <1>1, <1>9
  <2>2. OperandSet \X (0 .. pipe.tiles * Blocks - 1) = {}
    <3>1. 0 .. pipe.tiles * Blocks - 1 = {}
      BY <2>1
    <3> QED BY <3>1
  <2>3. Landed' = Landed
    BY <1>4, <2>2, SamePipe DEF Landed
  <2> QED BY <1>4, <1>5, <2>3, StreamQuiet
<1>8. CASE /\ o \in OperandSet /\ Blocks # 0
           /\ \A y \in flight : y # x => ~(y.operand = o /\ y.block = x.block)
  <2>1. PICK t, z \in Nat : t = TileOf(Leader) /\ z = Base
    BY <1>1
  <2>2. o # "q" /\ x.block = z + m
    BY <1>1, <1>3, <1>8, <2>1, OperandFacts DEF Tag
  <2>3. m < Blocks /\ m < Loaded(o) /\ Loaded(o) \in Nat /\ issued[o] = z + Loaded(o)
    <3>1. Loaded(o) <= DmaIssues /\ issued[o] = z + Loaded(o) /\ Loaded(o) \in Nat
      BY <1>1, <1>8, <2>1, Counts DEF IInv, Window
    <3>2. DmaIssues = Blocks
      BY <1>1, <1>8, PipeFacts
    <3> QED BY <1>1, <1>3, <3>1, <3>2 DEF Latest
  <2>4. PICK n \in Nat : n = z + m
    BY <2>1
  <2>5. t \in Nat /\ t + 1 <= pipe.tiles /\ z = t * Blocks
    BY <1>1, <2>1 DEF Base
  <2>6. n < pipe.tiles * Blocks
    <3>1. (t + 1) * Blocks = t * Blocks + Blocks /\ t * Blocks \in Nat /\ pipe.tiles * Blocks \in Nat
      BY <1>1, <2>5, ProductNext
    <3>2. (t + 1) * Blocks <= pipe.tiles * Blocks
      <4>1. t + 1 \in Nat
        BY <2>5
      <4> QED BY <1>1, <2>5, <4>1, ProductOrder
    <3> QED BY <1>1, <2>3, <2>4, <2>5, <3>1, <3>2
  <2>7. (n \div Blocks) * Blocks = z
    <3>1. n \div Blocks = t
      BY <1>1, <2>3, <2>4, <2>5, TileOfBlock
    <3> QED BY <2>5, <3>1
  <2>8. Landed' = Landed \cup {<<o, n>>}
    <3>1. ASSUME NEW l \in OperandSet \X (0 .. pipe.tiles * Blocks - 1)
          PROVE  (l[2] < issued'[l[1]] /\ \A y \in flight' : ~(y.operand = l[1] /\ y.block = l[2]))
                   <=> (\/ l[2] < issued[l[1]] /\ \A y \in flight : ~(y.operand = l[1] /\ y.block = l[2])
                        \/ l = <<o, n>>)
      <4>1. CASE l = <<o, n>>
        <5>1. n < issued[o]
          BY <2>1, <2>3, <2>4
        <5>2. \A y \in flight' : ~(y.operand = o /\ y.block = n)
          BY <1>4, <1>8, <2>2, <2>4
        <5> QED BY <1>4, <4>1, <5>1, <5>2
      <4>2. CASE l # <<o, n>>
        <5>1. ~(x.operand = l[1] /\ x.block = l[2])
          BY <1>2, <2>2, <2>4, <4>2
        <5> QED BY <1>4, <4>2, <5>1
      <4> QED BY <4>1, <4>2
    <3>2. <<o, n>> \in OperandSet \X (0 .. pipe.tiles * Blocks - 1)
      BY <1>1, <1>8, <2>6, ProductNext
    <3> QED BY <1>4, <3>1, <3>2, SamePipe DEF Landed
  <2>9. <<o, n>> \notin Landed
    BY <1>2, <2>2, <2>4 DEF Landed
  <2>10. ASSUME NEW c \in Consumers
         PROVE  /\ UsedMap[c] + Job.depth > n /\ UsedMap[c] >= (n \div Job.blocks) * Job.blocks
                /\ n >= UsedMap[c] /\ UsedMap[c] \in Nat
    <3>1. PICK d \in Nat : d = Done(c)
      BY <1>1, Counts
    <3>2. UsedMap[c] = z + d
      BY <2>1, <3>1, UsedIs DEF UsedMap
    <3>3. Passed(c, o) = d
      BY <2>2, <3>1 DEF Passed
    <3>4. d <= m
      BY <1>3, <3>3
    <3>5. Loaded(o) <= d + pipe.stages
      BY <1>1, <1>2, <3>3 DEF IInv, Window
    <3>6. (n \div Job.blocks) * Job.blocks = z /\ Job.depth = pipe.stages
      BY <2>7 DEF Job
    <3> QED BY <1>1, <2>1, <2>3, <2>4, <3>2, <3>4, <3>5, <3>6
  <2>11. Stream!Land(o, n)
    <3>1. Stream!Free(n)
      BY <2>10 DEF Stream!Free, UsedMap
    <3> QED BY <1>6, <2>8, <2>9, <3>1 DEF Stream!Land, UsedMap
  <2>12. n \in Stream!Near
    <3>1. UsedMap[Leader] <= n /\ n < UsedMap[Leader] + Job.depth
      <4>1. Job.depth \in Nat
        BY <1>1 DEF Job
      <4> QED BY <1>1, <2>10, <4>1
    <3>2. n \in 0 .. Job.tiles * Job.blocks - 1
      BY <1>1, <2>6, ProductNext DEF Job
    <3> QED BY <1>1, <3>1, <3>2 DEF Stream!Near, Stream!TotalBlocks, UsedMap
  <2>13. o \in Job.operands
    BY <1>8 DEF Job
  <2> QED BY <2>11, <2>12, <2>13 DEF Stream!Next
<1> QED BY <1>7, <1>8, <1>9

LEMMA StreamMove ==
  ASSUME NEW w \in Warps, Moved(w), Landed' = Landed, w \in Consumers => Used(w)' = Used(w)
  PROVE  [Stream!Next]_(Stream!streamVars)
<1>1. pipe' = pipe
  BY DEF Moved
<1>2. ASSUME NEW c \in Consumers PROVE Used(c)' = Used(c)
  <2>1. CASE c = w
    BY <2>1
  <2>2. CASE c # w
    <3>1. warp'[c] = warp[c]
      BY <2>2 DEF Moved, Warps
    <3> QED BY <1>1, <3>1, UsedKept DEF At, Held
  <2> QED BY <2>1, <2>2
<1> QED BY <1>1, <1>2, StreamQuiet

\* The steps of a computing warp that finish no block and load nothing.
LEMMA StreamConsumer ==
  ASSUME IInv, NEW c \in Consumers,
         \/ ConsumerStart(c) \/ WaitQuery(c) \/ FetchQuery(c) \/ ConsumerLoop(c)
         \/ WaitLoad(c) \/ ReadFirst(c) \/ Transpose(c)
  PROVE  [Stream!Next]_(Stream!streamVars)
<1>1. /\ c \in Warps /\ Typed /\ Placed(c) /\ Parities(c) /\ warp \in [Warps -> WarpType]
  BY Mover DEF Warps, IInv
<1>2. Moved(c)
  BY <1>1, MovesConsumer
<1>3. pipe' = pipe /\ issued' = issued /\ flight' = flight
  BY DEF ConsumerStart, WaitQuery, FetchQuery, ConsumerLoop, WaitLoad, ReadFirst, Transpose, memVars
<1>4. warp[c].at \in {"start", "query", "fetch", "loop", "wait", "read"}
  BY DEF ConsumerStart, WaitQuery, FetchQuery, ConsumerLoop, WaitLoad, ReadFirst, Transpose, At
<1>5. /\ warp'[c].tile = warp[c].tile /\ warp'[c].block = warp[c].block
      /\ warp'[c].at \in {"query", "loop", "fetch", "wait", "read", "bar128"}
  <2>1. CASE ConsumerStart(c)
    BY <1>1, <2>1 DEF ConsumerStart, Begin, WarpType
  <2>2. CASE WaitQuery(c) \/ FetchQuery(c) \/ ConsumerLoop(c)
    BY <1>1, <2>2 DEF WaitQuery, FetchQuery, ConsumerLoop, Goto, WarpType
  <2>3. CASE WaitLoad(c)
    <3>1. warp' = [warp EXCEPT ![c].next = @ + 1] \/ Goto(c, "read")
      BY <2>3 DEF WaitLoad
    <3> QED BY <1>1, <2>3, <3>1 DEF WaitLoad, At, Goto, WarpType
  <2>4. CASE ReadFirst(c) \/ Transpose(c)
    BY <1>1, <2>4 DEF ReadFirst, Transpose, Goto, WarpType
  <2> QED BY <2>1, <2>2, <2>3, <2>4
<1>6. Used(c)' = Used(c)
  BY <1>3, <1>4, <1>5, UsedKept DEF At, Held
<1> QED BY <1>1, <1>2, <1>3, <1>6, SameLanded, StreamMove

LEMMA StreamTileDone ==
  ASSUME IInv, NEW w \in Warps, TileDone(w)
  PROVE  [Stream!Next]_(Stream!streamVars)
<1>1. /\ Typed /\ Placed(w) /\ Parities(w) /\ warp \in [Warps -> WarpType] /\ Blocks \in Nat
      /\ warp[w].tile \in Nat /\ pipe \in Pipes
      /\ (w \in Consumers => w # Dma /\ warp[w].block \in 0 .. Blocks) /\ pipe.tiles \in Nat
  BY Mover, PipeFacts DEF IInv, Typed, Within
<1>2. Moved(w) /\ pipe' = pipe /\ issued' = issued /\ flight' = flight /\ At(w, "loop")
  BY <1>1, MovesTileDone DEF TileDone, TileDoneTo, memVars
<1>3. ASSUME w \in Consumers PROVE Used(w)' = Used(w)
  <2>1. warp[w].block = Blocks
    BY <1>1, <1>3 DEF TileDone, TileDoneTo
  <2>2. CASE warp[w].tile + 1 < pipe.tiles
    <3>1. warp' = [warp EXCEPT ![w].at = "bar", ![w].to = "init", ![w].tile = @ + 1, ![w].block = 0]
      BY <2>2 DEF TileDone, TileDoneTo
    <3>2. /\ warp'[w].at = "bar" /\ warp'[w].to = "init"
          /\ warp'[w].tile = warp[w].tile + 1 /\ warp'[w].block = 0
      BY <1>1, <3>1 DEF WarpType
    <3>3. PICK t \in Nat : t = warp[w].tile
      BY <1>1
    <3>4. Used(w) = (t * Blocks + Blocks) + 0
      BY <1>2, <2>1, <3>3 DEF Used, Number, At
    <3>5. Used(w)' = ((t + 1) * Blocks + 0) + 0
      BY <1>2, <3>2, <3>3, SamePipe DEF Used, Number, At
    <3>6. (t + 1) * Blocks = t * Blocks + Blocks /\ t * Blocks \in Nat
      BY <1>1, ProductNext
    <3> QED BY <1>1, <3>4, <3>5, <3>6
  <2>3. CASE ~(warp[w].tile + 1 < pipe.tiles)
    <3>1. warp' = [warp EXCEPT ![w].at = "exit"]
      BY <2>3 DEF TileDone, TileDoneTo, Goto
    <3>2. /\ warp'[w].tile = warp[w].tile /\ warp'[w].block = warp[w].block /\ warp'[w].at = "exit"
      BY <1>1, <3>1 DEF WarpType
    <3> QED BY <1>2, <3>2, UsedKept DEF At, Held
  <2> QED BY <2>2, <2>3
<1> QED BY <1>2, <1>3, SameLanded, StreamMove

LEMMA StreamFinishBlock ==
  ASSUME IInv, NEW c \in Consumers, FinishBlock(c)
  PROVE  [Stream!Next]_(Stream!streamVars)
<1>0. c \in Warps /\ Typed /\ (\A v \in Warps : Placed(v)) /\ Placed(c) /\ Parities(c)
  BY DEF Warps, IInv
<1>1. /\ c \in Warps /\ Typed /\ (\A v \in Warps : Placed(v)) /\ Placed(c) /\ Parities(c)
      /\ warp \in [Warps -> WarpType] /\ pipe \in Pipes /\ c # Dma /\ Blocks \in Nat
      /\ warp[c].block \in Nat /\ warp[c].tile \in Nat /\ warp[c].next \in DOMAIN OperandSeq
      /\ DOMAIN OperandSeq = 1 .. Len(OperandSeq) /\ Len(OperandSeq) \in {1, 2}
  <2>1. /\ warp \in [Warps -> WarpType] /\ pipe \in Pipes /\ c # Dma /\ Blocks \in Nat
        /\ warp[c].block \in 0 .. Blocks /\ warp[c].tile \in 0 .. pipe.tiles - 1
        /\ warp[c].next \in DOMAIN OperandSeq /\ pipe.tiles \in Nat
        /\ DOMAIN OperandSeq = 1 .. Len(OperandSeq) /\ Len(OperandSeq) \in {1, 2}
    BY <1>0, Mover
  <2> QED BY <1>0, <2>1
<1>2. /\ pipe' = pipe /\ issued' = issued /\ flight' = flight /\ Moved(c)
  BY <1>1, MovesConsumer DEF FinishBlock, FinishWith
<1>3. /\ warp'[c].at = "loop" /\ warp'[c].tile = warp[c].tile /\ warp'[c].block = warp[c].block + 1
      /\ \A d \in Warps : d # c => warp'[d] = warp[d]
  BY <1>1 DEF FinishBlock, FinishWith, WarpType
<1>4. /\ Pipelined /\ ~Chunks
      /\ At(c, "multiply") \/ (At(c, "read") /\ warp[c].next = Len(OperandSeq))
  BY <1>1, PipeFacts DEF FinishBlock, FinishWith, LastRead, Pipelined, Chunks
<1>5. warp[c].block < Blocks
  <2>1. InPipeline(c)
    BY <1>1, <1>4 DEF Placed
  <2> QED BY <1>1, <1>4, <2>1 DEF InPipeline
<1>6. ASSUME NEW o \in OperandSet PROVE Has(c, o)
  <2>1. PICK i \in DOMAIN OperandSeq : OperandSeq[i] = o
    BY DEF OperandSet
  <2>2. At(c, "multiply") \/ (At(c, "read") /\ i <= warp[c].next)
    BY <1>1, <1>4, <2>1
  <2> QED BY <1>4, <2>1, <2>2 DEF Has
<1>7. Done(c) < Blocks
  <2>1. ~Setup(c) /\ ~Turned(c)
    BY <1>4 DEF Setup, Turned, Held, At
  <2> QED BY <1>1, <1>4, <1>5, <2>1, ConsumerCounts
<1>8. Used(c)' = Used(c) + 1
  <2>1. PICK z, b \in Nat : z = warp[c].tile * Blocks /\ b = warp[c].block
    BY <1>1, ProductNext
  <2>2. Used(c) = (z + b) + 0
    BY <1>4, <2>1 DEF Used, Number, At
  <2>3. Used(c)' = (z + (b + 1)) + 0
    BY <1>2, <1>3, <2>1, SamePipe DEF Used, Number, At
  <2> QED BY <2>1, <2>2, <2>3
<1>9. ASSUME NEW d \in Consumers, d # c PROVE Used(d)' = Used(d)
  <2>1. warp'[d] = warp[d]
    BY <1>3, <1>9 DEF Warps
  <2> QED BY <1>2, <2>1, UsedKept DEF At, Held
<1> QED BY <1>2, <1>6, <1>7, <1>8, <1>9, UseStep

\* The loading warp loads the operand's next block.
LEMMA StreamDma ==
  ASSUME IInv, DmaStart \/ DmaLoop \/ DmaWaitDone \/ DmaLoad
  PROVE  [Stream!Next]_(Stream!streamVars)
<1>1. /\ Dma \in Warps /\ Typed /\ (\A v \in Warps : Placed(v)) /\ Placed(Dma) /\ Parities(Dma)
      /\ pipe \in Pipes /\ InStep /\ Dma \notin Consumers /\ Leader \in Warps
  BY PipesOK DEF Warps, IInv, Typed
<1>2. Moved(Dma) /\ pipe' = pipe
  BY <1>1, MovesDma DEF Moved
<1>3. CASE issued' = issued /\ flight' = flight
  BY <1>1, <1>2, <1>3, SameLanded, StreamMove
<1>4. CASE DmaStart /\ pipe.style # "gemm"
  <2>1. Load("q", 0, warp[Dma].tile)
    BY <1>4 DEF DmaStart
  <2>2. "q" \in AllOperands /\ "q" \notin OperandSet
    BY <1>1, OperandFacts DEF AllOperands
  <2>3. Landed' = Landed
    BY <1>2, <2>1, <2>2, LoadLands
  <2> QED BY <1>1, <1>2, <2>3, StreamMove
<1>5. CASE DmaLoad
  <2>1. PICK b, n, o : b = warp[Dma].block /\ n = warp[Dma].next /\ o = Operand(Dma)
    OBVIOUS
  <2>2. /\ b \in Nat /\ n \in DOMAIN OperandSeq /\ DOMAIN OperandSeq = 1 .. Len(OperandSeq)
        /\ Blocks \in Nat /\ warp[Dma].tile \in Nat /\ Len(OperandSeq) \in {1, 2}
    BY <1>1, <2>1, Mover, PipeFacts
  <2>3. At(Dma, "load") /\ Load(o, Stage(Dma), Number(Dma))
    BY <1>5, <2>1 DEF DmaLoad
  <2>4. Pipelined
    BY <1>1, <2>3, PipeFacts DEF Placed, InChunks, At
  <2>5. o \in OperandSet /\ o # "q" /\ o = OperandSeq[n]
    BY <1>1, <2>1, <2>2, OperandFacts DEF Operand, OperandSet
  <2>6. \A i, j \in DOMAIN OperandSeq : OperandSeq[i] = OperandSeq[j] => i = j
    BY <1>1, OperandFacts
  <2>7. ~Turned(Dma) /\ BlockOf(Dma) = b
    BY <2>1, <2>3 DEF Turned, Held, At, BlockOf
  <2>8. Loaded(o) = b
    <3>1. ~\E i \in 1 .. n - 1 : OperandSeq[i] = o
      BY <2>2, <2>5, <2>6
    <3> QED BY <2>1, <2>2, <2>4, <2>5, <2>7, <3>1 DEF Loaded
  <2>9. Number(Dma) = Base + b
    <3>1. TileOf(Leader) = TileOf(Dma)
      BY <1>1, <2>4, SameTile
    <3>2. TileOf(Dma) = warp[Dma].tile
      BY <2>2, <2>7 DEF TileOf
    <3> QED BY <2>1, <3>1, <3>2 DEF Base, Number
  <2>10. issued[o] = Base + b
    BY <2>5, <2>8 DEF IInv, Window
  <2>11. o \in AllOperands
    BY <2>5 DEF AllOperands
  <2>12. PICK s, k : s = Stage(Dma) /\ k = Number(Dma)
    OBVIOUS
  <2>13. Load(o, s, k) /\ k = issued[o]
    BY <2>3, <2>9, <2>10, <2>12
  <2>14. Landed' = Landed
    BY <1>2, <2>11, <2>13, LoadLands
  <2> QED BY <1>1, <1>2, <2>14, StreamMove
<1>6. CASE (DmaStart /\ pipe.style = "gemm") \/ DmaLoop \/ DmaWaitDone
  <2>1. issued' = issued /\ flight' = flight
    BY <1>6 DEF DmaStart, DmaLoop, DmaWaitDone, memVars
  <2> QED BY <1>3, <2>1
<1> QED BY <1>4, <1>5, <1>6

\* The chunk loop: the loads are the leader's, a block is finished at the
\* bar.sync behind its reads.
LEMMA StreamChunk ==
  ASSUME IInv, NEW c \in Consumers, ChunkNext(c)
  PROVE  [Stream!Next]_(Stream!streamVars)
<1>0. /\ c \in Warps /\ Typed /\ (\A v \in Warps : Placed(v)) /\ Placed(c) /\ Parities(c)
      /\ Leader \in Consumers /\ Leader \in Warps
  BY PipesOK DEF Warps, IInv
<1>1. /\ warp \in [Warps -> WarpType] /\ pipe \in Pipes /\ c # Dma /\ Blocks \in Nat
  BY <1>0, Mover
<1>2. Moved(c) /\ pipe' = pipe
  BY <1>0, MovesChunk DEF ChunkNext, Moved
<1>3. Chunks
  <2>1. CASE ~Normalize(c)
    <3>1. Chunks \/ At(c, "second") \/ At(c, "score")
      BY <2>1 DEF ChunkNext, SkipPrefetch, ChunkLoop, WaitChunk, ReadChunk, PrefetchNext,
         LastChunkDone, PrefetchFirst, PrefetchSecond, ScoreChunk
    <3> QED BY <1>0, <1>1, <3>1 DEF Placed, InPipeline, At
  <2>2. CASE Normalize(c)
    BY <1>0, <1>1, <2>2 DEF Normalize, Placed, InPipeline, At
  <2> QED BY <2>1, <2>2
<1>4. /\ ~Turned(c) /\ warp[c].tile = 0 /\ warp[c].block \in Nat /\ Number(c) = warp[c].block
      /\ OperandSet = {"kv"} /\ InChunks(c) /\ Done(c) = warp[c].block +
            IF At(c, "prefetch") \/ Held(c, "prefetch") THEN 1 ELSE 0
  <2>1. BlockOf(c) = warp[c].block
    BY <1>0, <1>3, ChunkCounts
  <2> QED BY <1>0, <1>1, <1>3, <2>1, ChunkCounts DEF Placed, Done
<1>5. CASE \/ SkipPrefetch(c) \/ ChunkLoop(c) \/ WaitChunk(c) \/ LastChunkDone(c) \/ Normalize(c)
           \/ (c = Leader /\ ScoreChunk)
  <2>1. issued' = issued /\ flight' = flight
    BY <1>5 DEF SkipPrefetch, ChunkLoop, WaitChunk, LastChunkDone, Normalize, ScoreChunk, memVars
  <2>2. warp[c].at \in {"start", "loop", "wait", "normalize", "score"}
    BY <1>5 DEF SkipPrefetch, ChunkLoop, WaitChunk, LastChunkDone, Normalize, ScoreChunk, At
  <2>3. /\ warp'[c].tile = warp[c].tile /\ warp'[c].block = warp[c].block
        /\ \/ warp'[c].at \in {"loop", "wait", "score", "exit"}
           \/ warp'[c].at = "bar" /\ warp'[c].to \in {"read", "normalize"}
    <3>1. CASE SkipPrefetch(c) \/ ChunkLoop(c) \/ Normalize(c)
      BY <1>0, <1>1, <3>1 DEF SkipPrefetch, ChunkLoop, Normalize, Goto, WarpType
    <3>2. CASE WaitChunk(c)
      <4>1. PICK q : q = Flip(warp[c].parity, Stage(c))
        OBVIOUS
      <4>2. PICK l \in {"score", "bar"} :
              warp' = [warp EXCEPT ![c].parity = q, ![c].at = l, ![c].to = "read"]
        BY <3>2, <4>1 DEF WaitChunk
      <4> QED BY <1>0, <1>1, <4>2 DEF WarpType
    <3>3. CASE LastChunkDone(c) \/ (c = Leader /\ ScoreChunk)
      BY <1>0, <1>1, <3>3 DEF LastChunkDone, ScoreChunk, SyncThen, WarpType
    <3> QED BY <1>5, <3>1, <3>2, <3>3
  <2>4. Used(c)' = Used(c)
    BY <1>2, <2>2, <2>3, UsedKept DEF At, Held
  <2> QED BY <1>0, <1>2, <2>1, <2>4, SameLanded, StreamMove
<1>6. CASE ReadChunk(c)
  <2>1. issued' = issued /\ flight' = flight /\ At(c, "read")
    BY <1>6 DEF ReadChunk, memVars
  <2>2. /\ warp'[c].at = "bar" /\ warp'[c].to = "prefetch"
        /\ warp'[c].tile = warp[c].tile /\ warp'[c].block = warp[c].block
        /\ \A d \in Warps : d # c => warp'[d] = warp[d]
    BY <1>0, <1>1, <1>6 DEF ReadChunk, SyncThen, WarpType
  <2>3. \A o \in OperandSet : Has(c, o)
    BY <1>0, <1>3, <1>4, <2>1, ChunkHas DEF Holding
  <2>4. Done(c) < Blocks
    <3>1. warp[c].block < Blocks /\ ~At(c, "prefetch") /\ ~Held(c, "prefetch")
      BY <1>1, <1>4, <2>1 DEF InChunks, At, Held
    <3> QED BY <1>4, <3>1
  <2>5. Used(c)' = Used(c) + 1
    <3>1. Used(c) = warp[c].block + 0
      BY <1>4, <2>1 DEF Used, At
    <3>2. Number(c)' = Number(c)
      BY <1>2, <2>2, SamePipe DEF Number
    <3>3. Used(c)' = warp[c].block + 1
      BY <1>4, <2>2, <3>2 DEF Used, At
    <3> QED BY <1>4, <3>1, <3>3
  <2>6. ASSUME NEW d \in Consumers, d # c PROVE Used(d)' = Used(d)
    <3>1. warp'[d] = warp[d]
      BY <2>2, <2>6 DEF Warps
    <3> QED BY <1>2, <3>1, UsedKept DEF At, Held
  <2> QED BY <1>2, <2>1, <2>3, <2>4, <2>5, <2>6, UseStep
<1>7. issued["kv"] = Loaded("kv") /\ "kv" \in AllOperands /\ "kv" \in OperandSet
  <2>1. warp[Leader].tile = 0 /\ ~Turned(Leader)
    BY <1>0, <1>3, ChunkCounts
  <2>2. 0 - 0 = 0 /\ 0 * Blocks = 0
    BY <1>1
  <2>3. TileOf(Leader) = 0
    BY <2>1, <2>2 DEF TileOf
  <2>4. Base = 0
    BY <2>2, <2>3 DEF Base
  <2>5. "kv" \in AllOperands /\ "kv" \in OperandSet
    BY <1>4 DEF AllOperands
  <2>6. issued["kv"] = 0 + Loaded("kv") /\ Loaded("kv") \in Nat
    BY <1>0, <2>4, <2>5, Counts DEF IInv, Window
  <2> QED BY <2>5, <2>6
<1>8. ASSUME NEW s, NEW n, Load("kv", s, n), n = Loaded("kv") PROVE Landed' = Landed
  BY <1>2, <1>7, <1>8, LoadLands
<1>9. CASE c = Leader /\ PrefetchFirst
  <2>1. At(c, "start") /\ Load("kv", 0, 0) /\ warp' = [warp EXCEPT ![c].at = "second"]
    BY <1>9 DEF PrefetchFirst, Goto
  <2>2. Loaded("kv") = 0
    BY <1>0, <1>3, <1>9, <2>1, ChunkLoaded
  <2>3. Landed' = Landed
    BY <1>8, <2>1, <2>2
  <2>4. /\ warp'[c].tile = warp[c].tile /\ warp'[c].block = warp[c].block /\ warp'[c].at = "second"
    BY <1>0, <1>1, <2>1 DEF WarpType
  <2>5. Used(c)' = Used(c)
    BY <1>2, <2>1, <2>4, UsedKept DEF At, Held
  <2> QED BY <1>0, <1>2, <2>3, <2>5, StreamMove
<1>10. CASE c = Leader /\ PrefetchSecond
  <2>1. At(c, "second") /\ warp' = [warp EXCEPT ![c].at = "loop"]
    BY <1>10 DEF PrefetchSecond, Goto
  <2>2. Loaded("kv") = 1
    <3>1. ~Setup(c) /\ ~At(c, "start")
      BY <2>1 DEF Setup, Held, At
    <3> QED BY <1>0, <1>3, <1>10, <2>1, <3>1, ChunkLoaded
  <2>3. Landed' = Landed
    <3>1. CASE Blocks > 1
      <4>1. Load("kv", 1, 1)
        BY <1>10, <3>1 DEF PrefetchSecond
      <4> QED BY <1>8, <2>2, <4>1
    <3>2. CASE ~(Blocks > 1)
      BY <1>2, <1>10, <3>2, SameLanded DEF PrefetchSecond, memVars
    <3> QED BY <3>1, <3>2
  <2>4. /\ warp'[c].tile = warp[c].tile /\ warp'[c].block = warp[c].block /\ warp'[c].at = "loop"
    BY <1>0, <1>1, <2>1 DEF WarpType
  <2>5. Used(c)' = Used(c)
    BY <1>2, <2>1, <2>4, UsedKept DEF At, Held
  <2> QED BY <1>0, <1>2, <2>3, <2>5, StreamMove
<1>11. CASE PrefetchNext(c)
  <2>1. At(c, "prefetch") /\ warp' = [warp EXCEPT ![c].at = "loop", ![c].block = @ + 1]
    BY <1>11 DEF PrefetchNext
  <2>2. /\ warp'[c].at = "loop" /\ warp'[c].block = warp[c].block + 1
        /\ warp'[c].tile = warp[c].tile
    BY <1>0, <1>1, <2>1 DEF WarpType
  <2>3. Landed' = Landed
    <3>1. CASE c = Leader /\ warp[c].block + 2 < Blocks
      <4>1. Load("kv", Stage(c), Number(c) + 2)
        BY <1>11, <3>1 DEF PrefetchNext
      <4>2. Loaded("kv") = warp[c].block + 2
        <5>1. ~Setup(c) /\ ~At(c, "start") /\ ~At(c, "second") /\ ~(Blocks < warp[c].block + 2)
          BY <1>1, <1>4, <2>1, <3>1 DEF Setup, Held, At
        <5> QED BY <1>0, <1>3, <3>1, <5>1, ChunkLoaded
      <4>3. PICK s, n : s = Stage(c) /\ n = Number(c) + 2
        OBVIOUS
      <4>4. Load("kv", s, n) /\ n = Loaded("kv")
        BY <1>4, <4>1, <4>2, <4>3
      <4> QED BY <1>8, <4>4
    <3>2. CASE ~(c = Leader /\ warp[c].block + 2 < Blocks)
      BY <1>2, <1>11, <3>2, SameLanded DEF PrefetchNext, memVars
    <3> QED BY <3>1, <3>2
  <2>4. Used(c)' = Used(c)
    <3>1. Used(c) = warp[c].block + 1
      BY <1>4, <2>1 DEF Used
    <3>2. Number(c)' = 0 * Blocks + (warp[c].block + 1)
      BY <1>2, <1>4, <2>2, SamePipe DEF Number
    <3>3. 0 * Blocks = 0
      BY <1>1
    <3>4. Used(c)' = (0 * Blocks + (warp[c].block + 1)) + 0
      BY <2>2, <3>2 DEF Used, At
    <3> QED BY <1>4, <3>1, <3>3, <3>4
  <2> QED BY <1>0, <1>2, <2>3, <2>4, StreamMove
<1> QED BY <1>5, <1>6, <1>9, <1>10, <1>11 DEF ChunkNext

\* At a bar.sync nobody finishes a block.
LEMMA StreamSync ==
  ASSUME IInv, BarSync \/ Bar128
  PROVE  [Stream!Next]_(Stream!streamVars)
<1>1. pipe' = pipe /\ issued' = issued /\ flight' = flight
  BY DEF BarSync, Bar128, memVars
<1>2. /\ warp \in [Warps -> WarpType] /\ Typed /\ Dma \notin Consumers /\ Consumers \subseteq Warps
      /\ pipe \in Pipes /\ (\A v \in Warps : Placed(v))
  BY PipesOK DEF IInv, Typed, WarpType, Warps
<1>3. ASSUME NEW c \in Consumers PROVE Used(c)' = Used(c)
  <2>1. c \in Warps /\ c # Dma /\ warp[c] \in WarpType
    BY <1>2
  <2>2. CASE BarSync
    <3>1. At(c, "bar")
      BY <2>1, <2>2 DEF BarSync
    <3>2. warp'[c] = [warp[c] EXCEPT !.at = warp[c].to]
      BY <2>1, <2>2, <3>1 DEF BarSync
    <3>3. /\ warp'[c].at = warp[c].to /\ warp'[c].tile = warp[c].tile
          /\ warp'[c].block = warp[c].block
      BY <2>1, <3>2 DEF WarpType
    <3>4. warp[c].to # "bar"
      BY <1>2, <2>1, <3>1 DEF Placed, InPipeline, InChunks
    <3> QED BY <1>1, <3>1, <3>3, <3>4, UsedKept DEF At, Held
  <2>3. CASE Bar128
    <3>1. At(c, "bar128") /\ warp'[c] = [warp[c] EXCEPT !.at = "multiply"]
      BY <2>1, <2>3 DEF Bar128
    <3>2. /\ warp'[c].at = "multiply" /\ warp'[c].tile = warp[c].tile
          /\ warp'[c].block = warp[c].block
      BY <2>1, <3>1 DEF WarpType
    <3> QED BY <1>1, <3>1, <3>2, UsedKept DEF At, Held
  <2> QED BY <2>2, <2>3
<1> QED BY <1>1, <1>3, SameLanded, StreamQuiet

LEMMA StreamStep == IInv /\ [Next]_vars => [Stream!Next]_(Stream!streamVars)
<1> SUFFICES ASSUME IInv, [Next]_vars PROVE [Stream!Next]_(Stream!streamVars)
  OBVIOUS
<1>1. CASE LandAny
  BY <1>1, LandStep DEF LandAny
<1>2. CASE BarSync \/ Bar128
  BY <1>2, StreamSync
<1>3. ASSUME NEW w \in Warps, At(w, "init"), SyncThen(w, "start"), pipe' = pipe,
             flight' = flight, issued' = issued
      PROVE  [Stream!Next]_(Stream!streamVars)
  <2>1. Typed /\ Placed(w) /\ Parities(w) /\ warp \in [Warps -> WarpType]
    BY Mover DEF IInv
  <2>2. Moved(w)
    BY <1>3, <2>1, MovesSkipInit
  <2>3. /\ warp'[w].at = "bar" /\ warp'[w].to = "start" /\ warp'[w].tile = warp[w].tile
        /\ warp'[w].block = warp[w].block
    BY <1>3, <2>1 DEF SyncThen, WarpType
  <2>4. Used(w)' = Used(w)
    BY <1>3, <2>3, UsedKept DEF At, Held
  <2> QED BY <1>3, <2>2, <2>4, SameLanded, StreamMove
<1>4. ASSUME NEW w \in Warps, Step(w) PROVE [Stream!Next]_(Stream!streamVars)
  <2>1. CASE w = Leader /\ InitMbars
    BY <1>3, <2>1 DEF InitMbars
  <2>2. CASE SkipInit(w)
    BY <1>3, <2>2 DEF SkipInit, memVars
  <2>3. CASE w = Dma /\ DmaNext
    BY <1>4, <2>3, StreamDma, StreamTileDone DEF DmaNext
  <2>4. CASE w \in Consumers /\ ConsumerNext(w)
    BY <1>4, <2>4, StreamConsumer, StreamFinishBlock, StreamTileDone DEF ConsumerNext
  <2>5. CASE w \in Consumers /\ ChunkNext(w)
    BY <2>5, StreamChunk
  <2> QED BY <1>4, <2>1, <2>2, <2>3, <2>4, <2>5 DEF Step
<1>5. CASE UNCHANGED vars
  <2>1. \A c \in Consumers : Used(c)' = Used(c)
    BY <1>5, UsedKept DEF vars, At, Held
  <2> QED BY <1>5, <2>1, SameLanded, StreamQuiet DEF vars, memVars
<1> QED BY <1>1, <1>2, <1>4, <1>5 DEF Next, Finished

LEMMA StreamStarts == Init => Stream!Init
<1> SUFFICES ASSUME Init PROVE Stream!Init
  OBVIOUS
<1>1. IInv
  BY StartsInvariant
<1>2. Landed = {}
  BY DEF Init, Landed, AllOperands
<1>3. ASSUME NEW c \in Consumers PROVE Used(c) = 0
  <2>1. c \in Warps /\ c # Dma /\ pipe \in Pipes /\ Blocks \in Nat
    BY PipesOK, PipeFacts DEF Warps, Init
  <2>2. warp[c].tile = 0 /\ warp[c].block = 0 /\ warp[c].at = "init"
    BY <2>1 DEF Init
  <2>3. 0 * Blocks + 0 = 0 /\ 0 + 0 = 0
    BY <2>1
  <2>4. Number(c) = 0
    BY <2>2, <2>3 DEF Number
  <2> QED BY <2>2, <2>3, <2>4 DEF Used, At
<1> QED BY <1>2, <1>3 DEF Stream!Init

-----------------------------------------------------------------------------
(* Theorems of the specification.                                          *)

\* IInv holds in every state of every kernel.
THEOREM Inductive == Spec => []IInv
<1>1. Init => IInv
  BY StartsInvariant
<1>2. IInv /\ [Next]_vars => IInv'
  BY KeepsInvariant
<1> QED BY <1>1, <1>2, PTL DEF Spec

\* Every variable keeps its type; no mbarrier counts more arrivals than there
\* are computing warps or expects more copies than a load has, whatever the
\* order of the warps and of the copies.
THEOREM TypeCorrect == Spec => []TypeOK
<1>1. Spec => [](LoadsBounded /\ DonesBounded)
  <2>1. Init => LoadsBounded /\ DonesBounded
    BY StartsBounded
  <2>2. IInv /\ LoadsBounded /\ DonesBounded /\ [Next]_vars =>
          /\ At(Leader, "init")' => LoadsBounded'
          /\ DonesBounded' \/ (Pipelined' /\ ~At(Leader, "init")')
    BY BoundsStep
  <2>3. IInv /\ ~At(Leader, "init") => LoadsBounded /\ (Pipelined => DonesBounded)
    BY StreamingBounded
  <2> QED BY <2>1, <2>2, <2>3, Inductive, PTL DEF Spec
<1>2. IInv /\ LoadsBounded /\ DonesBounded => TypeOK
  BY TypesHold
<1> QED BY <1>1, <1>2, Inductive, PTL

\* Between its wait and its arrival at DONE (or the bar.sync behind its reads)
\* a warp finds every piece of its own block in the stage, and no copy is on
\* its way there.
THEOREM ReadsCorrect == Spec => []ReadsOwnBlock
BY ReadsOwn, Inductive, PTL

\* The transposed V, a chunk's weights and the sums a warp reads are those of
\* its own block: the bar.syncs keep writers and readers apart.
THEOREM HandOverCorrect == Spec => []HandedOverWhole
BY HandsOver, Inductive, PTL

\* The one parity bit a warp keeps per stage tells the two phases apart that
\* the mbarrier can be in.
THEOREM PhasesCorrect == Spec => []PhasesNeverAlias
BY NoAlias, Inductive, PTL

\* No mbarrier is initialised with a copy under way, and none is left when the
\* warps of a launch that has a block have ended; of a launch that has none,
\* only copies of the block 0 it loads all the same are.
THEOREM QuietCorrect == Spec => []QuietBetweenTiles
BY Quiet, Inductive, PTL

\* Every kernel streams its tiles as TileStream promises: a block is loaded
\* when its stage is free for every reader, and used when all its operands
\* have landed.
THEOREM StreamCorrect == Spec => ImplementsStream
<1>1. Init => Stream!Init
  BY StreamStarts
<1>2. IInv /\ [Next]_vars => [Stream!Next]_(Stream!streamVars)
  BY StreamStep
<1> QED BY <1>1, <1>2, Inductive, PTL DEF Spec, ImplementsStream, Stream!Spec

=============================================================================
