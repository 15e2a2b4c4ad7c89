----------------------------- MODULE GroupedGemm -----------------------------
(***************************************************************************)
(* The wrappers of moe/mod.rs that launch a grouped matrix product: what   *)
(* each accepts of a call, and the grid it launches.  A call c has the     *)
(* dimensions experts (or the active ones), m_max, n and k and the lengths *)
(* of the buffers: of b_stacked, b_scales, expert_offsets, active_experts. *)
(* A launch is what decides which rows are computed: the row tiles of the  *)
(* grid, and whether its z coordinate is an expert or an index into        *)
(* active_experts.  The column tiles only divide a row among blocks.       *)
(***************************************************************************)
EXTENDS Naturals

CONSTANT BM     \* rows of a tile: 32 in every kernel

ASSUME TileOK == BM \in Nat \ {0}

DivUp(a, b) == (a + b - 1) \div b

\* Mutant: a last tile that is not full is left out.
MTilesFull(c) == c.m_max \div BM

MTiles(c) == DivUp(c.m_max, BM)

Refused == [accepted |-> FALSE]

\* A block per tile of BM rows of each expert ...
DenseGrid(c)  == [accepted |-> TRUE, tiles |-> MTiles(c), z |-> "expert"]
\* ... or of each active one.
SparseGrid(c) == [accepted |-> TRUE, tiles |-> MTiles(c), z |-> "active"]

Launch(ok, grid) == IF ok THEN grid ELSE Refused

DimsPositive(c) == c.experts > 0 /\ c.m_max > 0 /\ c.n > 0 /\ c.k > 0

\* What the wrappers of all experts check, and those of the active ones.
Dense(c)  == DimsPositive(c) /\ c.offsets >= c.experts + 1
Sparse(c) == DimsPositive(c) /\ c.active >= c.experts

\* The MMA kernels compute whole tiles of 32 columns.
NAligned(c) == c.n % 32 = 0

Weights(c) == c.experts * c.k * c.n

\* b_scales holds one scale per block of so many k.
ScalesPer(c, block) == c.scales >= c.experts * c.n * (c.k \div block)

-----------------------------------------------------------------------------
gemm_bf16_grouped(c) ==
  Launch(Dense(c) /\ c.k % 16 = 0 /\ c.b >= Weights(c), DenseGrid(c))

gemm_mxfp8_grouped_mma_v2(c) ==
  Launch(/\ Dense(c) /\ NAligned(c) /\ c.k % 32 = 0
         /\ c.b >= Weights(c) /\ ScalesPer(c, 32), DenseGrid(c))

gemm_fp8_grouped_mma_v2(c) ==
  Launch(/\ Dense(c) /\ NAligned(c) /\ c.k % 16 = 0
         /\ c.b >= Weights(c) /\ c.scales >= c.experts, DenseGrid(c))

gemm_nvfp4_fp8scale_grouped_mma_v2(c) ==
  Launch(/\ Dense(c) /\ NAligned(c) /\ c.k % 16 = 0
         /\ c.b >= Weights(c) \div 2 /\ ScalesPer(c, 16), DenseGrid(c))

gemm_nvfp4_fp8scale_grouped_mma(c) ==
  Launch(/\ Dense(c) /\ NAligned(c) /\ c.k % 16 = 0
         /\ c.b >= Weights(c) \div 2 /\ ScalesPer(c, 16), DenseGrid(c))

gemm_mxfp4_grouped_mma_v2(c) ==
  Launch(/\ Dense(c) /\ NAligned(c) /\ c.k % 32 = 0
         /\ c.b >= Weights(c) \div 2 /\ ScalesPer(c, 32), DenseGrid(c))

gemm_mxfp4_grouped_mma(c) ==
  Launch(/\ Dense(c) /\ NAligned(c) /\ c.k % 32 = 0
         /\ c.b >= Weights(c) \div 2 /\ ScalesPer(c, 32), DenseGrid(c))

gemm_nvfp4_grouped_mma(c) ==
  Launch(/\ Dense(c) /\ NAligned(c) /\ c.k % 16 = 0
         /\ c.b >= Weights(c) \div 2 /\ ScalesPer(c, 16), DenseGrid(c))

\* Mutant: the older kernel keeps the k alignment of the block formats.
gemm_fp8_grouped_mma_k32(c) ==
  Launch(/\ Dense(c) /\ NAligned(c) /\ c.k % 32 = 0
         /\ c.b >= Weights(c) /\ c.scales >= c.experts, DenseGrid(c))

gemm_fp8_grouped_mma(c) ==
  Launch(/\ Dense(c) /\ NAligned(c) /\ c.k % 16 = 0
         /\ c.b >= Weights(c) /\ c.scales >= c.experts, DenseGrid(c))

gemm_mxfp8_grouped_mma(c) ==
  Launch(/\ Dense(c) /\ NAligned(c) /\ c.k % 32 = 0
         /\ c.b >= Weights(c) /\ ScalesPer(c, 32), DenseGrid(c))

gemm_bf16_grouped_mma_sparse(c) ==
  Launch(Sparse(c) /\ NAligned(c) /\ c.k % 16 = 0, SparseGrid(c))

gemm_bf16_grouped_sparse(c) == Launch(Sparse(c), SparseGrid(c))

gemm_bf16_grouped_mma(c) ==
  Launch(/\ Dense(c) /\ NAligned(c) /\ c.k % 16 = 0
         /\ c.b >= Weights(c), DenseGrid(c))

\* b_scale is a scalar that must be positive and finite.
gemm_w8a16_grouped_mma(c) ==
  Launch(/\ Dense(c) /\ NAligned(c) /\ c.k % 16 = 0
         /\ c.b >= Weights(c) /\ c.scales > 0, DenseGrid(c))

gemm_fp8_block128_grouped(c) ==
  Launch(/\ Dense(c) /\ c.k % 128 = 0
         /\ c.b >= Weights(c) /\ ScalesPer(c, 128), DenseGrid(c))

gemm_fp8_block128_grouped_mma_v2(c) ==
  Launch(/\ Dense(c) /\ NAligned(c) /\ c.k % 128 = 0
         /\ c.b >= Weights(c) /\ ScalesPer(c, 128), DenseGrid(c))

gemm_fp8_block128_grouped_mma(c) ==
  Launch(/\ Dense(c) /\ NAligned(c) /\ c.k % 128 = 0
         /\ c.b >= Weights(c) /\ ScalesPer(c, 128), DenseGrid(c))

-----------------------------------------------------------------------------
(* The wrappers that choose a kernel.                                      *)

pick_v1_or_v2(n) == n < 4096

gemm_bf16_grouped_sparse_auto(c) ==
  IF NAligned(c) /\ c.k % 16 = 0 THEN gemm_bf16_grouped_mma_sparse(c)
                                 ELSE gemm_bf16_grouped_sparse(c)

gemm_bf16_grouped_auto(c) ==
  IF NAligned(c) /\ c.k % 16 = 0 THEN gemm_bf16_grouped_mma(c)
                                 ELSE gemm_bf16_grouped(c)

gemm_fp8_block128_grouped_mma_auto(c) ==
  IF pick_v1_or_v2(c.n) THEN gemm_fp8_block128_grouped_mma_v2(c)
                        ELSE gemm_fp8_block128_grouped_mma(c)

gemm_mxfp8_grouped_mma_auto(c) ==
  IF pick_v1_or_v2(c.n) THEN gemm_mxfp8_grouped_mma_v2(c)
                        ELSE gemm_mxfp8_grouped_mma(c)

gemm_fp8_grouped_mma_auto(c) ==
  IF pick_v1_or_v2(c.n) THEN gemm_fp8_grouped_mma_v2(c)
                        ELSE gemm_fp8_grouped_mma(c)

gemm_mxfp4_grouped_mma_auto(c) ==
  IF pick_v1_or_v2(c.n) THEN gemm_mxfp4_grouped_mma_v2(c)
                        ELSE gemm_mxfp4_grouped_mma(c)

gemm_nvfp4_fp8scale_grouped_mma_auto(c) ==
  IF pick_v1_or_v2(c.n) THEN gemm_nvfp4_fp8scale_grouped_mma_v2(c)
                        ELSE gemm_nvfp4_fp8scale_grouped_mma(c)

gemm_fp8_block128_grouped_auto(c) ==
  IF NAligned(c) THEN gemm_fp8_block128_grouped_mma(c)
                 ELSE gemm_fp8_block128_grouped(c)

-----------------------------------------------------------------------------
(* Each format: what its choosing wrapper does with a call, and what each  *)
(* kernel of the format does.                                              *)

Formats == {"bf16", "bf16_sparse", "fp8_block128", "fp8_block128_mma", "mxfp8",
            "fp8", "mxfp4", "nvfp4_fp8scale", "nvfp4", "w8a16"}

Chosen(format, c) ==
  CASE format = "bf16"             -> gemm_bf16_grouped_auto(c)
    [] format = "bf16_sparse"      -> gemm_bf16_grouped_sparse_auto(c)
    [] format = "fp8_block128"     -> gemm_fp8_block128_grouped_auto(c)
    [] format = "fp8_block128_mma" -> gemm_fp8_block128_grouped_mma_auto(c)
    [] format = "mxfp8"            -> gemm_mxfp8_grouped_mma_auto(c)
    [] format = "fp8"              -> gemm_fp8_grouped_mma_auto(c)
    [] format = "mxfp4"            -> gemm_mxfp4_grouped_mma_auto(c)
    [] format = "nvfp4_fp8scale"   -> gemm_nvfp4_fp8scale_grouped_mma_auto(c)
    [] format = "nvfp4"            -> gemm_nvfp4_grouped_mma(c)
    [] format = "w8a16"            -> gemm_w8a16_grouped_mma(c)

Kernels(format, c) ==
  CASE format = "bf16"             -> {gemm_bf16_grouped(c), gemm_bf16_grouped_mma(c)}
    [] format = "bf16_sparse"      -> {gemm_bf16_grouped_sparse(c), gemm_bf16_grouped_mma_sparse(c)}
    [] format = "fp8_block128"     -> {gemm_fp8_block128_grouped(c), gemm_fp8_block128_grouped_mma(c)}
    [] format = "fp8_block128_mma" -> {gemm_fp8_block128_grouped_mma(c), gemm_fp8_block128_grouped_mma_v2(c)}
    [] format = "mxfp8"            -> {gemm_mxfp8_grouped_mma(c), gemm_mxfp8_grouped_mma_v2(c)}
    [] format = "fp8"              -> {gemm_fp8_grouped_mma(c), gemm_fp8_grouped_mma_v2(c)}
    [] format = "mxfp4"            -> {gemm_mxfp4_grouped_mma(c), gemm_mxfp4_grouped_mma_v2(c)}
    [] format = "nvfp4_fp8scale"   -> {gemm_nvfp4_fp8scale_grouped_mma(c), gemm_nvfp4_fp8scale_grouped_mma_v2(c)}
    [] OTHER -> {Chosen(format, c)}
=============================================================================
