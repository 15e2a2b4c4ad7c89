------------------------------- MODULE KvSplits -------------------------------
(***************************************************************************)
(* How the split-KV kernel divides the KV sequence:                        *)
(*   ptx/attention/fa_bf16_v3_split_kv.ptx                                 *)
(* One launch attends the blocks of one split of num_splits and writes a   *)
(* partial output and a log-sum-exp at that split's place in the partial   *)
(* buffers; flash_decoding_combine.ptx merges the places.                  *)
(***************************************************************************)
EXTENDS Naturals

BlockRows == 64

CeilDiv(a, b) == (a + b - 1) \div b

KvBlocks(seq_kv) == CeilDiv(seq_kv, BlockRows)

\* The blocks from split_start to split_end.
SplitBlocks(blocks, num_splits, split_idx) ==
  LET size == CeilDiv(blocks, num_splits) IN
    {b \in 0 .. blocks - 1 : split_idx * size <= b /\ b < (split_idx + 1) * size}

=============================================================================
