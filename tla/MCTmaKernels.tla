----------------------------- MODULE MCTmaKernels -----------------------------
(* The instance of TmaKernels that TLC checks.                              *)
EXTENDS TmaKernels

CONSTANTS w0, w1, dma

Pipeline(style, stages, kvBlocks) ==
  [style |-> style, stages |-> stages, kvBlocks |-> kvBlocks,
   causal |-> FALSE, qBlock |-> 0, tiles |-> 1]

\* No block; one block; a causal bound that leaves blocks out and one that does not; two
\* tiles on end; and every stage filled at least three times.
MCPipes ==
  {Pipeline("attention", 2, 0), Pipeline("attention", 2, 1),
   [Pipeline("attention", 2, 8) EXCEPT !.causal = TRUE, !.qBlock = 4],
   [Pipeline("attention", 2, 3) EXCEPT !.causal = TRUE, !.qBlock = 4],
   [Pipeline("attention", 2, 3) EXCEPT !.tiles = 2],
   Pipeline("attention", 1, 3), Pipeline("transpose", 2, 5),
   Pipeline("gemm", 3, 2), Pipeline("gemm", 3, 7),
   Pipeline("chunks", 2, 0), Pipeline("chunks", 2, 1), Pipeline("chunks", 2, 5)}

=============================================================================
