# A TLA+ verification of sm121-kernels

sm121-kernels is a library of CUDA kernels for one GPU family (SM121, DGX
Spark) and the Rust host layer that loads and launches them. The kernels are
PTX files that `build.rs` assembles and embeds; the host layer looks them up,
caches them and launches them on the caller's streams. Most of the code is
arithmetic behind argument checks. The part that a model checker can say
something about is the rest: caches shared by threads, contexts that come and
go, work enqueued now and run later, ranks that exchange messages, counters
and cursors that thousands of threads add to, and index arithmetic at its
edges.

All paths below are relative to `src/`; `crates/sm121-kernels/src/` is
abbreviated to `host/`.

## 1. Inventory

| Component | State | Operations | Hard behaviour |
|---|---|---|---|
| **Kernel function caches** `host/module.rs` | `FUNCTION_CACHE`, `FUNCTION_CACHE_RAW` (an `Option<HashMap>` each behind a `RwLock`), `CONTEXT_GENERATIONS`, `NEXT_GENERATION`, temporary files | `load_kernel`, `load_kernel_raw`, `register_context` | double-checked locking, contexts destroyed and created again at the same address, bare handles that outlive their owner, errors under the lock, files in a shared directory |
| **Device initialisation** `host/device.rs` | the primary context | `init_device`, `is_sm121` | stamps a context it may share with others |
| **Distributed ring attention** `host/distributed/` | per rank: two pairs of K and V buffers, partial outputs, the stream; NCCL messages between ranks | `ring_attention_bf16_distributed`, `send_recv_bf16` | host and stream run apart, ranks run apart, untagged messages, errors half way |
| **Single-GPU ring attention** `host/distributed/ring_attention.rs` | partial buffers | `ring_attention_bf16` | split arithmetic |
| **Split-K GEMV** `host/gemm/mod.rs`, `ptx/gemm/` | f32 accumulator or staging buffer, the determinism flag | `gemv_bf16_split_k*`, `f32_shard_reduce_to_bf16` | shards summed by atomics in any order, unsigned shard lengths, a flag read once |
| **GEMM kernels** `ptx/gemm/` | shared-memory stages, mbarriers | TMA producer, MMA consumers | pipelines with phases |
| **MoE dispatch** `host/moe/mod.rs`, `ptx/moe/` | histogram, offsets, cursors, permutation and its inverse, active-expert list; for one token the slots' sums | routing, histogram, offsets, permute, compaction, grouped products, unpermute; device exchange; decode products | atomic cursors, a row cap, twin kernels behind choosing wrappers, shards added in any order |
| **KV cache** `host/kv_cache/mod.rs`, `ptx/kv_cache/` | contiguous, strided and paged caches, device-resident positions | appends at a host or a device position, paged writes | positions read when the kernel runs, rows of tokens taken back, wrapping size checks |
| **Attention host layer** `host/attention/mod.rs` | none | launch wrappers, split heuristics, split and combine pairs | broken tiles, causal bounds, empty splits, sequences packed next to one another |
| **Attention kernels** `ptx/attention/` | shared-memory stages, mbarriers | TMA producer, computing warps; chunk loops | pipelines with phases, values handed between warps |
| **Linear attention** `host/linear_attention/mod.rs`, `ptx/linear_attention/` | convolution windows, recurrent states that outlive a call | calls of one token, of many, of a chunk, of a batch | sequences cut into calls at any place, warps of a block that run apart between two `bar.sync`s |
| **Sampling** `host/sampling/mod.rs` | none | argmax, top-k, top-p | ties, empty sets |
| **Quantization** `host/quantization/mod.rs`, `ptx/quantization/` | none | FP8, NVFP4 conversions and packing | rounding, packing |
| **Norms, activations, RoPE, embedding** | none | element-wise kernels | none that is discrete |
| **C and Python bindings** `host/ffi/`, `python/` | none | conversions around the calls above | none of their own |
| **Build and registries** `crates/sm121-kernels/build.rs` | two registries keyed by file stem | discovery, preprocessing, `ptxas` | stems must be unique |

How they interact. Every wrapper calls `load_kernel` or `load_kernel_raw` with
the caller's `Arc<CudaContext>` and then launches on the caller's stream; the
caches are the only state the wrappers share. `init_device` stamps the context
whose generation `load_kernel_raw` keys by. Ring attention launches the
split-KV kernel and the combine kernel of the attention layer and calls the
transport between them. A decoding step appends to the KV cache and then attends, both
read what is on the device when they run. The MoE and split-K operations are sequences
of launches whose buffers the caller allocates, zeroes and passes from one to the next;
MoE decoding uses split-K products.
There is no crash recovery in the system, and nothing persistent but temporary
files.

What makes each part correct:

* caches: no caller ever gets a function of a destroyed context or of another
  kernel; one cold load per slot; no entry is lost to a race; every load returns;
  files of concurrent loads do not meet and do not stay behind;
* ring: each partial is computed from the chunk whose place it takes, K and V
  alike; every key is attended; the ring does not wait on itself;
* split-K: the shards partition K; the deterministic paths have one summation
  order; a second call does not see the first one's sums;
* MoE: the permutation is a bijection onto each expert's segment and its inverse
  undoes it, whatever order the cursors are taken in; no token is dropped;
* attention: each row of the output is stored once and attends the keys its mask leaves it, in
  its own sequence and head, and at most the padding of a last tile besides, whatever the
  tiles, bounds and splits;
* KV cache: a step attends K and V of exactly the tokens the host meant when it asked;
* linear attention: a state absorbs each token once and in order, however the sequence
  is cut into calls; an output is made of its own token;
* pipelines: a stage is read only after it is full and refilled only after it
  was read, for every number of tiles; no warp waits for a phase that has passed.

The hazards behind these, each at its line, are in `PROJECT.json`.

## 2. Modules

| Module | Models |
|---|---|
| `KernelCache` | `host/module.rs`, `host/device.rs`: both loaders, the registry of generations, the contexts |
| `OnceLoader` | what the caches promise: the abstract loader that `KernelCache` implements |
| `KernelCacheProofs` | theorems about `KernelCache`, and that it implements `OnceLoader` |
| `KvSplits` | the range of KV blocks of one split |
| `RingAttention` | the ring over several ranks, with `KvSplits` |
| `RingAttentionProofs` | theorems about it |
| `SplitK`, `SplitKProofs` | the range of one shard; what all of them cover |
| `GemvSplitK` | the managed split-K wrappers: atomic and staged reduction, the determinism flag |
| `GemvSplitKProofs` | theorems about it |
| `GroupedGemm` | the 26 wrappers of a grouped product: what each accepts, its grid |
| `MoeDispatch` | a mixture-of-experts layer for a batch, with `GroupedGemm` |
| `MoeDecode` | the layer for one token, with `SplitK` |
| `MoeProofs` | theorems about both layers |
| `AttnLaunch`, `AttnDecode` | the wrappers of forward attention: what each accepts, its launch |
| `AttnRows` | what the blocks of a launch store and read |
| `AttnForward` | one call: launches, splits, combine |
| `KvCache` | the appends, and decoding sessions that compose them with `AttnDecode` and `AttnRows` |
| `LinearAttention` | convolution, delta rule, Mamba2 and chunk kernels in sessions of calls |
| `AttnProofs` | theorems about attention, decoding sessions and linear attention |
| `TileStream` | what a pipelined kernel promises: an abstract bounded buffer with several readers |
| `SmemStages`, `TmaPipeline`, `MlaChunks` | shared memory with its mbarriers; the loading and computing warps; the MLA chunk loop |
| `TmaKernels` | all of them as one specification, which implements `TileStream` |
| `TmaKernelsProofs` | theorems about it |
| `Induction` | induction over the naturals and over finite sets, and lemmas on division, for the proofs |
| `MC*` | instances for TLC |

What is proved, what is only checked and what of the code is left out, and why, is in
section 10.

## 3. KernelCache

### State and code

| Variables | Code |
|---|---|
| `live`, `born`, `where` | the primary context: the instance alive (0 for none), how many were created, the address of the latest |
| `reg`, `nextGen` | `CONTEXT_GENERATIONS` (0 where an address has no entry), `NEXT_GENERATION` |
| `ready`, `cache` | per cache: the `Option` and its map. A slot is cache, generation and key; `load_kernel` has no generation and uses 0 |
| `writer`, `readers` | the `RwLock` of each cache |
| `file` | the temporary files: absent, partly written, whole |
| `pc`, `path`, `key`, `gen`, `ret` | a thread: where it is, in which loader, for which key, the generation it read, what it returned |
| `hold` | how the `Arc<CudaContext>` it holds came to be: by `init_device`, or otherwise ("foreign") |
| `stampedFor`, `loads` | history: the instance a generation was drawn for, cold loads per slot |

Threads interleave between any two of these steps: retain the context, query it,
draw a generation, store it (`register_context` draws before it takes the mutex);
look at the map under the read lock and create it under the write lock
(`ensure_cache`); read the generation; look up under the read lock; look again
under the write lock; write the cubin, load it; write the PTX, load it; get the
function and insert it. Each of them may fail where the code can. Outside the
loaders a thread may drop its context or clone another thread's `Arc` at any time.
The context dies with its last holder; a `CudaFunction` in the `load_kernel` cache
is a holder, a bare `CUfunction` in the other is not. A new context may be given
the address of a dead one.

`CudaContext`, `Arc`, the driver and the file system are external: they are
modelled by what the code relies on. Assumptions: handle values are not used again
by the driver, so that `cuFuncGetAttribute` tells live handles from dead ones; the
program holds one GPU and runs a load with its context current (a wrong current
context is one of the load's failures); `fetch_add` hands out each number once;
no other process uses this process's file names (they carry its pid).

### Properties

`NoStaleHandle` is the purpose of the generations, the probe and the ownership of
`CudaFunction`: what a load returned is the function it was asked for in the
context its caller holds, now and as long as the caller holds it. It is promised
to `load_kernel` callers, to holders of an `init_device` context and to those who
looked up generation 0. The `load_kernel_raw` callers it leaves out are the
subject of the first finding.

`EntriesOutliveRaces` (an action property), `LoadedOnce` and `UnwrapFindsMap` are
about the two races of double-checked creation: of the map and of an entry.
`LoadKernelIsOnceLoader` and `LoadKernelRawIsOnceLoader` say it all at once: each
loader implements `OnceLoader`, where a call looks up or loads in one step, so every
caller of a key gets the function of the first load that completed. For the raw
loader the generation `Watched` is arbitrary and a call begins where it reads the
generation. `FnEntriesPinContext` is why `load_kernel` may key by the ordinal alone.
`LoadReadsWholeFile` and `OnlyFailedJitLeavesFile` are about the temporary files: the
two loaders hold different locks and use different names; the one exit that leaves
a file behind is a failed JIT in `load_kernel`. `EveryLoadReturns` is the absence of
deadlock and of a lock kept by a failing exit.

### Runs

| Run | Instance | Shows |
|---|---|---|
| `kernel_cache_raw` | 2 threads, 1 key, raw loader, 2 contexts at 1 address, 2 generations | `NoStaleHandle`, `EntriesOutliveRaces`, the refinement, that `IInv` holds, and under `FairSpec` `EveryLoadReturns` |
| `kernel_cache_both` | 2 threads, both loaders, a kernel and a name in no registry, 2 contexts, 1 generation | `TypeOK`, `LoadedOnce`, `UnwrapFindsMap`, pinning, files, the refinement of `load_kernel` |
| `kernel_cache_foreign` | as raw | the finding below |

Bounds: `MaxInst` contexts are created and `MaxGen` generations drawn. Two contexts
at one address are the least with a dead and a living one; two generations the least
with an old and a new stamp of one context; two threads the least for each race, and
every one of the guarded races involves two. The theorems remove the bounds.

Fairness: strong fairness of each thread's load step. `parking_lot`'s `RwLock` starves
neither side, files and driver calls return. Nothing is assumed of the program: it
need not call, drop or share.

### Finding and notes

*A foreign context can be served a dead handle.* `host/module.rs:149` says contexts
created outside `init_device` "map to generation 0 and are covered by the liveness
probe". The registry never forgets an address: a context made with
`CudaContext::new` at the address of a destroyed `init_device` context has that
one's generation, and the hit is not probed.

Notes, without a run: each `init_device` and `is_sm121` on a live context draws a new
generation, so each kernel is loaded into it again, and that "the cold load path runs once per
kernel per device" (`host/module.rs:187`) is true of a generation only. A `CUfunction` is not owned
"for the process lifetime" (`host/module.rs:131`): the map keeps handles of destroyed
contexts, which the generations keep from being used. When an entry point is missing
after `cuModuleLoad` succeeded (`host/module.rs:293`) the module is never unloaded.

### Proofs

`KernelCacheProofs` proves, for any sets of threads, keys and addresses and any bounds,
that `IInv` is inductive and, from it, `TypeOK`, `NoStaleHandle`, `LoadedOnce`,
`FnEntriesPinContext`, `UnwrapFindsMap` and `EntriesOutliveRaces`; with `FilesOwned` it proves
`LoadReadsWholeFile` and `OnlyFailedJitLeavesFile`; and that both loaders implement `OnceLoader`. The assumptions are `ConstantsOK` and
`ResultsDistinct` of `KernelCache`, which TLC evaluates in every run.

`NoStaleHandle` alone is not inductive: an entry filed under a generation must be of the
context that generation was drawn for (`Stamped`), which needs that a generation in use
was drawn at all (`Drawn`: a fresh number is in no registry, load or slot), that a
context lives exactly while someone holds it (`Ownership`), that a thread inserting holds
the write lock and found its slot empty (`Locking`), that creating the map cannot
empty it (`Mapped`), and that `load_kernel`'s entries pin the context (`Keyed`). Two
`init_device` calls that store in the opposite order are harmless because both numbers
were drawn for the context both hold. The refinement rests on one lemma, `LoadOutcome`:
each step of a load either goes on and leaves the table alone or answers in one of the
three ways `OnceLoader` knows.

The files have an invariant of their own, `FilesOwned`: a whole temporary file belongs to a
load that is about to read it, a PTX of `load_kernel` excepted, which a failed JIT leaves.
It rests on `IInv` for one load per cache being past the write lock, so that nobody else
truncates or removes the file between its write and its read.

Only model-checked: `EveryLoadReturns` (liveness).

## 4. RingAttention

Per rank: the host thread (`at`, `step`, `role`: which of two buffers is `k_send` and
`v_send`), the stream as a queue of the work enqueued, the buffers, the partial places,
the merged output. A chunk is named by the rank it started on; buffers hold chunk names,
a partial is the pair of chunks its K and V came from and the KV blocks it covers.
Host actions append to the stream and may fail; stream actions take its head. An
exchange is a group: the send posts its message on the link to the next rank, the
receive takes the oldest message from the previous one, the group ends when both are
done. With `Eager` a message may wait on the link after its group has ended; without,
the sender waits until it is taken.

`PartialsAreOwners` relates the label the host computes ahead of time with what the
buffer holds when the launch runs. `CombineFindsAllPlaces`: no place is merged that was
not written. `RingCompletes`: without failures every rank gets its output, whether or not the
transport buffers. The fairness is one weak condition on all hosts and streams together:
while one of them can go on, one of them does (an enqueued kernel runs, a host thread is
scheduled). That is less than fairness of each, and enough, since none can go on for ever.

| Run | Instance | Shows |
|---|---|---|
| `ring_attention` | 3 ranks under `FairSpec`; a buffering transport where one enqueue may fail (`MaxFailures`), or rendezvous without failures | `TypeOK`, `PartialsAreOwners`, `CombineFindsAllPlaces`, `RingCompletes` |
| `ring_attention_whole` | 2 ranks of 2 blocks | the finding below |

Three ranks are the least where the next and the previous rank differ and a rank can be
two exchanges ahead of another.

Finding: *distributed ring attention attends only 1/world_size of the keys.* The
orchestrator passes the local length together with `num_splits = world_size` and
`split_idx = owner`; the kernel divides the length it is given by `num_splits`, so of the
chunk of rank o only its o-th share is attended (`host/distributed/ring_attention_distributed.rs:156`,
`ptx/attention/fa_bf16_v3_split_kv.ptx:374`). `crates/sm121-kernels/examples/nccl_ring_attention_sanity.rs:17`
expects the output of single-node attention. The single-GPU orchestrator passes the
whole sequence and is right. With one rank, the self-test the example can run on one GPU, both agree.

The orchestrator on one GPU, `ring_attention_bf16`, is in `AttnDecode` (section 7).

`RingAttentionProofs` proves `TypeOK`, `PartialsAreOwners` and `CombineFindsAllPlaces` for every
number of ranks and KV blocks, either transport and any failure, from `RingOK`. A rank's
stream runs the same 3 * `WorldSize` jobs in every call, but no variable says how many it
has done: nobody in the program knows. `IInv` says that for each rank there is such a
number with which everything agrees: what the host has yet to enqueue (`Host`), what is
queued (`Queue`), which messages of the previous rank are on the link and which chunk
each carries (`Wire`), which chunks the buffers hold (`Buffers`), which places are written
(`Places`). A history variable would do the same; the quantifier leaves the model as it is.
TLC checked `IInv` as an invariant for one and two ranks (2990 states) and three
(430 430 states) before the proof. `RingCompletes` is liveness and stays with TLC.

Not modelled: `LoopbackTransport`, which ignores ranks and is for tests; the NCCL group
that a failing send or receive leaves open on the thread. Nothing says that a call can be
retried, and with one half of an exchange missing a retry could not be right.

## 5. GemvSplitK

A caller makes calls one after another with one scratch buffer on one stream. A call
(`made`) becomes the list of kernels its wrapper enqueues (`todo`): clear, accumulate,
convert; or stage, reduce; or, in `gemv_bf16_split_k_managed` with a small scratch, the
plain `gemv_bf16`. Each is enqueued after the checks of the function that launches it
(`Accepts`) and may fail, which ends the call and leaves the stream as it is. The stream
runs its kernels in order; within a split kernel `ran` holds the threads that have run,
in any order, a thread being a shard and 8 columns. A number is the list of partial
sums added up to it, each with the products it covers, its column and its call: two
lists of the same summands in another order are the same real number and another f32.
`SplitK` has the host's `k_shard` and the kernel's range, with the wrap of its registers.

`ExactSums` is what both ways promise: each product once, of this call and column only.
`StagedReproducible` compares two equal calls, `BatchedRowsMatch` a batched call with a
single one, both with the flag set (without it the single call uses atomics, although the
comment at `gemm/mod.rs:1458` claims the equality for that case too); they take into account that f32 addition commutes but does not associate, so a
difference needs three shards.

| Run | Instance | Shows |
|---|---|---|
| `gemv_split_k` | flag set or not, 11 requests of all wrappers, some of which must be refused, two calls, any launch may fail | `TypeOK`, `ExactSums`, `StagedReproducible`, `BatchedRowsMatch` |
| `gemv_overshot` | 5 products among 4 shards | the finding below |

Two calls are enough for what one leaves to the next, since every way through a call
either clears or overwrites what it reads; 3 shards are the least for the order to
matter and 5 products the least that 3 shards divide unevenly.

Finding: *more shards than fill up*. With `ceil(K / S) * (S - 1) > K` the last shard
starts behind K and its length wraps (`gemv_bf16_split_k.ptx:60-64`).

Note, without a run: the flag is not honoured everywhere. `gemm/mod.rs:9` speaks of the
process; the wrappers at 1244, 1611 and 1680 never look at it, those at 857 and 1097 not
when the scratch buffer is small. `StagedReproducible` and `BatchedRowsMatch` are stated
for the wrappers that do.

Proved: `ShardsPartition` (`SplitKProofs`), for every K and S outside that case the shards
partition the products; and in `GemvSplitKProofs`, for any requests, scratch buffer, number of
calls and failures, `TypeOK`, `StagedReproducible`, `BatchedRowsMatch` and, for requests outside
that case (`AllFit`, which the finding shows to be needed), `ExactSums`. The assumption on
the constants is `SplitKOK`.

What the scratch buffer holds in general cannot be said: a call that failed half-way, or one
whose kernels are still queued, may have left anything. `IInv` speaks only of the kernel at
the head of the stream: one that relies on the buffer comes directly after the kernel of
its own call that leaves it so (`Follows`), hence finds what it needs (`Ready`: each cell holds the
parts of the threads that have run, each once), and was enqueued by a wrapper that
checked the sizes (`Granted`). The two kernels of a call are next to each other in the
stream because calls are, which is what `&mut` on the buffer is for. The rounding theorems
need that the staged sum is the list of parts in shard order, which rests on what
`FlattenSeq` computes (`FlattenSingletons`). TLC checked `IInv` in both runs' instances (479 404
and 245 states).

Assumed: inputs and weights have the sizes the checks ask for; a scratch buffer given to
`gemv_bf16_split_k_v4_managed`, which checks none, holds n cells; calls with one scratch
buffer are ordered, as `&mut` and the stream order make them.

## 6. MoeDispatch, MoeDecode, GroupedGemm

A row of activations is the token it belongs to, a computed row the token and the expert
that computed it, a weight the entry (token and place among its experts) it was drawn
for. What is checked is who gets what from whom, not the numbers.

*For a batch* (`MoeDispatch`), as the tests call the wrappers on one stream:

| `stage` | Kernel and wrapper | Steps |
|---|---|---|
| `route` | `moe_routing` | an argmax pass of one token |
| `histogram` | `moe_histogram`, `moe_device_counts` | a thread counts its entry |
| `offsets` | `moe_expert_offsets`, `moe_device_offsets` | one iteration of thread 0 |
| `permute` | `moe_permute`, `moe_device_permute` | a block claims a row with its atomic cursor; it copies the row |
| `compact` | `moe_active_experts_compact` | a lane takes the next slot |
| `product` | one of the grouped products | the block of a row tile and a `z` coordinate |
| `unpermute` | `moe_unpermute` | the block of a row adds its weighted result |

Blocks and threads of a kernel run in any order, a kernel starts when the one before it
has ended. On the device path entries are counted by division and placed by table, rows
travel to the device of their segment and come back (`Exchange`). `GroupedGemm` has what
each of the 26 product wrappers accepts and its grid, and the seven wrappers that choose
between two kernels.

*For one token* (`MoeDecode`): routing on the device, then gate and up in one launch or
two, then down, each slot's product divided among shards that add in any order.

`RowsDisjoint` relates cursors, offsets, the inverse and the permutation while blocks race
for rows. `LayerExact`: each token ends with exactly its own contributions, each computed by
the right expert and weighted with the right weight; it fails if a tile, a row or the
inverse is off anywhere. `RoutingIsTopK` compares the passes with a reference, ties and
-inf included. `ChoiceLosesNothing`: whichever kernel a choosing wrapper takes, the call is
refused only if all refuse it, and the grid is the same. `DecodeExact` is `LayerExact` for one
token.

Run `moe_layer`: two tokens, three experts on two devices, two experts per token, tiles of
two rows (an expert can have none, one tile, a broken tile), five rows of logits (equal,
strict, masked, all but one, all masked); for one token two slots and zero to three
shards. Calls of every format with aligned and broken dimensions and with buffers that fit
or not. Two tokens are the least that meet in one segment, three experts the least with
one left out between two.

`MoeProofs` proves every property of both layers, for any number of tokens, experts,
devices and shards, any `TopK`, tile height and logits, from `MoeOK`, `TileOK`, `PlacementOK` and
`DecodeOK`. For the batch `IInv` says, for every interleaving of blocks: the histogram counts the
entries done (`HistExact`), an offset is the number of entries of lower groups (`OffsetsExact`), a
cursor the number of its group's entries that have a row (`CursorExact`), a claimed row
leads back to its entry and lies below the cursor in its segment (`Placed`), and what
lies in rows and sums follows from the entries done (`ComputedExact`, `OutExact`). `RowsDisjoint`
follows because two entries lead back from their rows to different entries; `LayerExact`
needs in addition that every row is claimed in the end, a counting argument
(`Entries` injected into itself), and that the launch covers each segment (`Launched`).
The argmax with its ties is correct since a finite set of keys has a greatest
value and a set of indices with that value a least element (lemmas of `Induction`).
For one token `DecodeInv` says that a sum consists of parts of different shards and that a
product is whole before the next one starts; `ShardsPartition` does the rest. TLC checked
both over the run's instance (50 893 states).

Assumed, since the code leaves it to the caller: the placement table is the division by
`experts_per_node` (`PlacementOK`); `top_k` does not exceed `n_routed` in
`moe_route_decode_full`, and no shard starts behind the end (`DecodeOK`); `m_max` is at least
the rows of the fullest expert (the doc's "typical" average would leave rows out,
`host/moe/mod.rs:497`); the outputs that are added to, counters and cursors are zeroed.

## 7. Attention and the KV cache

### One call

A call carries the wrapper's name, its dimensions and the lengths of its buffers.
`AttnLaunch` and `AttnDecode` translate each of 93 wrappers of `host/attention/mod.rs` and
`ring_attention_bf16` into what it refuses and the launch it makes: grid, tile sizes, how
keys are fetched, mask, layout, splits, where the position comes from. `AttnRows` translates
the kernels' index arithmetic: the query tiles of a block, the tiles of keys it goes
through, the mask, the row of K fetched for a key, the row of O stored. `AttnForward` runs
the launches of a call, one per split or all splits at once, and the combine. Blocks share
nothing but the output, so a launch is one step that records every row stored and the
keys it attended.

`RowsWrittenOnce` and `KeysExact` are the whole of what tiling, bounds and splits can get wrong.
`KeysExact` is stated at every length. Most kernels do not look where the sequence ends inside
their last tile of keys: a kernel without a mask attends all the rest of that tile, a causal one
as much of it as the mask leaves rows that lie behind the last key. That rest is `Padding`; with
it and `ReferenceKeys`, the keys the wrapper's mask leaves the row, `KeysExact` says what a row
attends to the key: these, once, the wanted ones from their own sequence and head. Nothing
is asked of a call but that a kernel which reads one position for the batch gets a batch that
has one (`OnePosition`). Whether there is padding depends on the kernel's own tile, 32, 64 or 128 keys,
and there the code parts from its documentation (below). `Isolation` says what the padding is:
a tile that runs past the end of a sequence reads zeros, never a neighbour's rows; it leaves out
kernels that load by descriptor, whose zeros begin behind the tensor. `InBounds` is about the
42 wrappers that measure their buffers.

What no wrapper checks and its callers answer for is `Callable`, assumed of every call
(`CallsOK`): the ends of packed sequences ascend to the totals and no sequence is longer than
`max_seqlen_q`, a page table has a page for every key, and the few wrappers without any check
(`UncheckedFns`) get dimensions that divide.

### A session

`KvCache` composes the nine appends with the decode wrappers above: for each token the
host puts on the stream a copy of the positions, the appends of K and V and, once the keys
make up whole tiles for a kernel that does not mask the last one, the attention. The host is up to `MaxAhead`
operations ahead and may take tokens back (`TakeBack`: a rejected draft, a slot given to
another request), so that the cache holds stale rows behind every position. The
device-position appends read the position when they run.

A session's append and attention are any pair that agrees on where the keys are and how many
(`Coupled`, assumed of `Chains`): contiguous or paged, by length, by one position or by one per
sequence, a window only with an attention that takes one. The pages of a sequence are
interleaved with those of the others, none of them shared.

`StepExact`: an attention reads K and V of exactly the tokens that the host had when it asked,
in the rows of its own sequence and head. It takes an append, a copy and an attention, each
with its own idea of the position, to violate it.

### Runs

`attention` checks 2 747 calls, 124 shapes for the wrappers they suit, 20 kinds of sessions, and the
sessions of section 8. The sizes of tiles are constants of the code; the run scales them
(`Tile` = 4 for 64, `KvChunk` = 2, groups of 2 heads, `NumSMs` = 2 for 48), keeping what the
code derives from them, and takes lengths with no, one, two and three tiles, whole and broken,
several sequences, groups of heads, windows, pages, splits without a tile, buffers a row too
short, zero dimensions. Sessions have up to five tokens in four places, one or two sequences,
three operations ahead. Five tokens in four places are the least that come to a full cache
after tokens were taken back. `attention_documented` takes the same calls.

### Proofs

`AttnProofs` proves the five properties of a call for all calls of all wrappers, from `AttnOK`,
`DecodeAttnOK` and `CallsOK`, and `StepExact` for all sessions, from `SessionOK` and `ChainsOK`.

*A call.* A wrapper's arithmetic ends in a launch record, so the first half of the argument is
by wrapper: `ChosenSound` says of each of them that what it accepts is `Shaped` as the kernels
take for granted: a tile of rows for every row, whole groups of heads, strides that hold the
rows, a mask that fits the offset. Where a wrapper measures its buffers they are `Roomy`. From
there on only the shape counts. Query rows and places in O are one to one (`OutRowIn`,
`OutRowOnce`, `OutRowOf`, for packed sequences by `TokenOf` and `TokenOnce`), a row falls to one tile of
one block, persistent and grouped blocks included (`TileHas`, `TileOnly`, `HeadsCovered`). The
ranges of `KvSplits` are a partition for every number of tiles and splits (`SplitHas`, `SplitOnce`),
the loop's bound and the mask leave a row the keys of the reference and the padding (`LeftAre`), each fetched from
its own place (`KeyFetched`): together `RowKeys`. The invariant itself, `WrittenInv`, is short:
the launch is the wrapper's, a partial output is what its split stores, O holds after a launch
without splits or after the merge one row for each query row, with the keys of all splits.

*A session.* The tokens in the cache are not what the host has: it is ahead, and takes back.
`SessionInv` speaks of what will be. `Will` says that the device will find a token in its place when
it comes to an operation of the stream: the last append to that place in front of the operation
brings it, or there is none and the cache holds it already; `PosIs` says the same of the
positions. For each append the positions will be its own, for each attention there are
sequences that will be in the cache and that it is due (`OpsOK`), and the host's sequences will
be there at the end of the stream (`Agreed`). An operation that has run moves from the stream to
the cache (`OpsDropped`); a token taken back leaves less to agree on; a new one overwrites only
places behind every sequence (`TokenPut`). That an append writes its token's place and no other
is `AppendIs` with `PlaceOnce`: sequence, head and position give a row of their own, in
contiguous caches and in pages. That an attention reads these places is `AttendRead`, from
`RowKeys`: the theorem about one call is what the session rests on.

### Findings and notes

* `attention_documented`: `ExactAsDocumented` is what `docs/CORRECTNESS.md:99-109` says of the end of the
  sequence, and both halves fail. The causal kernels "mask correctly at any length": they compare a key with the
  row's position only (`ptx/attention/fa_bf16_d128_causal.ptx:908`), and with more rows than keys the rows
  behind the last key attend the rest of the last tile; that is what TLC comes to first. The non-causal kernels go
  through the keys "in 64-row tiles" and want `seq_kv` "as a multiple of 64": `v17`, `v18` and `v20` have
  tiles of 128 keys (`ptx/attention/fa_bf16_v18_4warp.ptx:346`) and none masks the last one, so that at 64
  modulo 128 their rows attend 64 keys that are not there. `KeysExact` says to the key what each kernel does.
* Without a run: `host/attention/mod.rs:9692` says "The kernel indexes pos_ptr[blockIdx.z]"; the
  `*_pos_dev` decode kernels read `*pos_ptr` once for the whole batch
  (`ptx/attention/fa_bf16_decode_d256_gqa_pos_dev.ptx:68`). A batch of different positions is what
  `OnePosition` leaves out of `KeysExact`.
* Without a run: three sizes are trusted: `gemv_bf16_split_k_v4` (section 5); the products of `u32` dimensions
  that the appends compare with buffer lengths may wrap (`host/kv_cache/mod.rs:409`); the
  dispatch of `flash_attn_fp8_v12c_vt` alone checks the padded stride of V^T that
  `host/attention/mod.rs:3845` gives as the contract and calls enforced. The model's dimensions stay below any wrap,
  and it takes each wrapper's own stride.

## 8. LinearAttention

A session feeds a sequence to the calls of one family, in any order and in pieces of any
size: the convolution (one token, one row of a larger buffer, a chunk, one token of each of
several sequences), the gated delta rule (decode and prefill, with `SPARK_GDN_HF` set or not),
its decode by TMA with its own FP32 state, Mamba2 (decode and prefill), and the chunk
kernels. A state is the list of the tokens it has absorbed and under which rule; a window is
three cells per channel at the places the code computes; an output is the list of what it
was made of. Within a block each warp goes its own way between two `bar.sync`s; shared memory
has one place per warp for its part of `q` and `k` and for its sum.

`SequenceExact` has three parts: `WindowExact` (each convolution output is made of its token
and the three before it, whichever calls the tokens came in), `StateIsHistory` (between calls
each row of a state has absorbed each token once, in order, under the decay rule if the flag is
set, as `docs/CORRECTNESS.md` asks of a prefill followed by decodes), and `OutputsOfOwnToken`
(an output is made of the state up to its token and its own token's `q`, however the warps
run).

Run `attention` includes these sessions: two warps, two channels, two sequences, chunks of two
tokens, five tokens. Two warps suffice for a race; a window of three tokens is left by five.

Finding (`gdn_prefill_race`): *prefill of the delta rule mixes two tokens.* The loop of
`gdn_prefill.ptx` has no `bar.sync` between a token's reads of `q` in shared memory and the
stores of the next token's: a warp that goes on overwrites what a slower one still reads. The
state is not touched by it (`StateIsHistory` holds), the outputs are. `gdn_prefill_hf.ptx` has the
same loop; Mamba2's prefill has the `bar.sync` (the mutant that takes it away breaks
`SequenceExact`).

Note: `linear_attn_chunk_prefill` already adds its chunk to the state; calling
`linear_attn_state_update_mma` on the same chunk as well would absorb it twice. The sessions call
one or the other for a chunk. Chunks are whole; the kernels have no length.

Assumed: a call's output state is the next call's input state, or the same buffer.

### Proofs

`AttnProofs` proves `SequenceExact` for any set of warps with thread 0's among them, any
numbers of channels, sequences and rows, any chunk length and any bound on the tokens; it
assumes `LinearOK` alone.

`StateIsHistory` and `OutputsOfOwnToken` are not inductive: between two `bar.sync`s the warps are
at different places. `RowsInv` describes them by rounds. `RoundOf` gives for a place of a
kernel and a token how many `bar.sync`s are behind a warp that is there, `ScanOK` says that
this number is the same for all warps (`Round(v) = Round(w)`), and four predicates say what a warp
at a place has left: that its place and token are of its kernel (`LaneOK`), and what its rows,
its part of shared memory and its rows in global memory hold (`RowOK`, `SharedOK`, `StateOK`),
always as a history of so many tokens (`Hist`). From the reader's place and the common number
follows where every other warp can be, and so what the reader finds. `gdn_prefill`'s read of `q`
is the one step where this does not suffice: a warp in the same round may be at the next token
already, which is the race above. There is a lemma for each step of a warp; those that read
what others wrote (`GdnAbsorbOK`, `GdnReadOK`, `MambaSumOK`, `ChunkScanOK`, `ChunkMergeOK`, and
`GdnSaveOK` for the TMA decode) are the ones that need the rounds.

`WindowExact` rests on `ConvOK`: in a session of convolutions the buffer holds at `Tap(s, tap, c)` token
`fed[s] + tap - 3` of sequence `s`. `TapIndex` and `IndexTap` show that the kernel's index is
invertible, `SlidIs` by induction that `m` tokens move the window by `m`, and `ConvolveIs` what a
call of any length stores. For the provers `:>` and `@@` are written out as `Only` and `Written`. `LinearInductive` is that `RowsInv` and `ConvOK` are
invariants.

## 9. The TMA pipelines

`SmemStages` has one thread block's shared memory: an mbarrier as phase, pending arrivals and
expected copies, a `try_wait` that sees the parity of the phase, copies that land one by one in
any order, `bar.sync`. These are the hardware's and modelled from how the kernels use them.
`TmaPipeline` has the loading warp and the computing warps of five kernels, which differ in
stages (one, two, three), operands, the transposition of V by the computing warps, the initial
parity (a GEMM's loading warp starts at 1 and flips it in the iterations that do not wait),
and in whether a block computes several tiles and re-initialises its mbarriers between two
`bar.sync`s (v12). `MlaChunks` has the MLA decode loop, where thread 0 prefetches two chunks
ahead and warp 0 hands the weights and at the end the sums to the others.

`ImplementsStream`: every one of them implements `TileStream`, where a block lands at most
`depth` ahead of the slowest reader and a reader uses blocks in order, each after all its
operands are there. `ReadsOwnBlock` is the same at each read. `HandedOverWhole` is about values
handed between warps, `PhasesNeverAlias` about one parity bit being enough,
`QuietBetweenTiles` about re-initialisation and about what is under way at the end, and `EveryWarpLeaves` about the two sides that
each compute the last block for themselves: nobody waits for ever.

A thread block may have nothing to do: the MLA kernel's wrapper accepts more splits than there are chunks
for, and a packed sequence may be without keys. The kernels load block 0 before they look
(`DmaIssues`; `fa_bf16_mla_decode_mma_tma_split.ptx:275`, `fa_bf16_v21.ptx.in:1167`), nobody waits for it, and the thread block ends
with the copies under way into its shared memory. `QuietBetweenTiles` says so: a launch that has a
block leaves no copy behind, one that has none at most those of block 0. What the hardware makes of
such a copy the code does not say. The comment at
`fa_bf16_mla_decode_mma_tma_split.ptx:254` has the prefetches "gate on chunks_in_split"; only that of chunk 1 does.

Run `tma_kernels`: twelve pipelines, two computing warps and a loading one. Every number of
stages is filled at least three times, so that a parity returns to a value it had; one
pipeline has a single block, two have none (attention and MLA), one has a causal bound that leaves blocks out (5 of 8), one a
bound that does not, one two tiles.

`TmaKernelsProofs` proves all of it but `EveryWarpLeaves`, for any number of computing warps, blocks
and tiles, with or without a causal bound, from `PipesOK` alone: one to three stages, for the MLA loop two stages and one tile, as its kernels
have, and no block only where a launch can be without one: in attention with two stages and one tile and
in the MLA loop, for the wrappers refuse an empty K and an empty product. None of the properties is
inductive; `IInv` is, and it counts. `Loaded` blocks of a tile have been issued, `Passed` ones are
behind a warp, `Fills(n, s)` of the first `n` blocks go into stage `s`:

* a stage's load mbarrier is in the phase `Fills(Loaded, s)`, or one earlier while copies are under way
  into it (`LoadBar`); DONE is in the phase of the slowest warp, and exactly the warps in that phase
  are still to arrive (`DoneBar`); a parity bit is such a count modulo 2 (`Parities`);
* no warp is ahead of the loads and no load further than the stages ahead of any warp (`Window`,
  `Ahead`), so that two neighbouring phases are all there can be, and the bit tells them apart;
* what is under way into a stage is its latest block, which nobody is behind (`InFlight`), a stage holds
  its latest block or the copies of it are under way (`Filled`), and a wait that ended found none
  (`Granted`): that is `ReadsOwnBlock`;
* all warps have gone through equally many `bar.sync`s (`InStep`), by which the values that are handed over are
  of the reader's block (`Transposed`, `Handed`), and a tile's initialisation finds
  everybody between its two `bar.sync`s.

Between a tile's end and the next initialisation the mbarriers are those of the tile before, so `IInv`
says nothing of them there; `TypeOK`'s bounds on them are carried over those steps
separately (`BoundsStep`). `StreamCorrect` maps each step to one of `TileStream` or a stutter: a copy is `Land` if it
is the last of its block, the arrival at DONE (the MLA loop's second `bar.sync`) is `Use`. TLC
checked `IInv` on the pipelines of the run and an empty causal one (184 245 states).

Fairness: weak fairness of each warp, of the copies and of `bar.sync`. The warps of a resident
block are scheduled independently and a copy that was issued completes; a `try_wait` that
fails is tried again.

The ordering
between generic and asynchronous accesses to shared memory is not modelled. `v13` and the other
MLA variants were compared with the ones named and have the same protocol.

## 10. Proved, only checked, not modelled

Proved by TLAPS: the theorems of sections 3 to 9, for every value of the constants that the
named assumptions admit. All properties of the runs that pass are among them, liveness
excepted.

The induction theorems of the prover's library take an operator as a parameter, which the
installed provers cannot instantiate. `Induction` gets round this: there the things of which
something holds are a set, and that the strict subsets of a finite set are well-founded
gives induction over finite sets and over the naturals. `FlattenSeq`, `Greatest` and the
counting lemmas are proved with it.

Only model-checked, within the bounds given:

* `EveryLoadReturns`, `RingCompletes`, `EveryWarpLeaves`: the prover does not handle fairness;
* the runs that expect a violation: the findings.

Not modelled:

* floating-point results: attention, GEMM, norms, activations, RoPE and quantization
  arithmetic, thresholds of top-p; TLC has no reals. Sampling's argmax with ties is the one of
  `MoeDispatch`'s routing; packing nibbles is all that is discrete in quantization;
* the backward passes of attention (`host/attention/mod.rs:102-926`) and linear attention: one
  launch each over fresh gradients; the paged scatter needs pages that are not shared
  (`host/attention/mod.rs:719`);
* the selection helpers of sparse attention, the draft heads, `mma_qk`, the microkernel and the two layout permutations:
  arithmetic on one tile;
* `kv_cache_nvfp4_write`, which nothing in the crate reads; the NVFP4 split-K pair and the
  unmanaged entry points of split-K called on their own; `linear_attn_y_inter_mma`, which changes
  no state; per-token scalars and norms of linear attention;
* the GEMM kernels without TMA, whose loads and multiplications alternate between `bar.sync`s;
* the wording of errors, logging, the OOM diagnosis, build-time assembly, and the bindings,
  which add no state.
