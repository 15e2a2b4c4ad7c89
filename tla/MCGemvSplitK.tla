---------------------------- MODULE MCGemvSplitK -----------------------------
(* Requests for the runs of GemvSplitK.                                    *)
EXTENDS GemvSplitK

Gemv(wrapper, n, k, shards) == [wrapper |-> wrapper, n |-> n, k |-> k, rows |-> 1, shards |-> shards]
Batched(rows, n, k, shards) ==
  [wrapper |-> "gemm_bf16_det", n |-> n, k |-> k, rows |-> rows, shards |-> shards]

\* Shards of unequal length; a row too long for one shard; no shards; columns that do
\* not fill a thread; what is staged, what is too large for it.
Mixed ==
  {Gemv("w8a16", 2, 5, 3), Gemv("w8a16_w16", 2, 3, 2), Gemv("w8a16", 1, 4, 0),
   Gemv("bf16", 1, 5, 3), Gemv("bf16", 4, 4, 2), Gemv("bf16", 2, 9, 1),
   Gemv("bf16_w16", 3, 4, 2), Gemv("bf16_view", 1, 5, 3), Gemv("bf16_v4", 2, 4, 2),
   Batched(2, 1, 5, 3), Batched(3, 1, 4, 4)}

\* More shards than KShard products each can fill: 3 * 2 > 5.
Overshot == {Gemv("bf16", 1, 5, 4)}

=============================================================================
