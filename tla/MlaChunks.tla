------------------------------- MODULE MlaChunks -------------------------------
(***************************************************************************)
(* The chunk loop of the MLA decode kernels:                               *)
(*   ptx/attention/fa_bf16_mla_decode_mma_tma_split.ptx                    *)
(* No warp of its own loads.  Warp 0 computes a chunk's weights and hands  *)
(* them to the others through shared memory; bar.sync keeps the stages     *)
(* and that place apart, and thread 0 prefetches two chunks ahead.         *)
(***************************************************************************)
EXTENDS SmemStages

Chunks == pipe.style = "chunks"

\* Chunk 0, then chunk 1 if there is one; Q is in shared memory by now.
PrefetchFirst ==
  /\ Chunks /\ At(Leader, "start")
  /\ Load("kv", 0, 0)
  /\ Goto(Leader, "second")
  /\ UNCHANGED pipe

PrefetchSecond ==
  /\ At(Leader, "second")
  /\ IF Blocks > 1 THEN Load("kv", 1, 1) ELSE UNCHANGED memVars
  /\ Goto(Leader, "loop")
  /\ UNCHANGED pipe

SkipPrefetch(c) ==
  /\ Chunks /\ At(c, "start") /\ c # Leader
  /\ Goto(c, "loop")
  /\ UNCHANGED <<pipe, memVars>>

ChunkLoop(c) ==
  /\ Chunks /\ At(c, "loop") /\ warp[c].block < Blocks
  /\ Goto(c, "wait")
  /\ UNCHANGED <<pipe, memVars>>

\* Warp 0 goes on to the scores, the others to the first bar.sync.
WaitChunk(c) ==
  /\ Chunks /\ At(c, "wait")
  /\ TryWaitParity(mbar[<<"kv", Stage(c)>>], warp[c].parity[Stage(c)])
  /\ warp' = [warp EXCEPT
       ![c].parity = Flip(@, Stage(c)),
       ![c].at = IF c = Leader THEN "score" ELSE "bar",
       ![c].to = "read"]
  /\ UNCHANGED <<pipe, memVars>>

ScoreChunk ==
  /\ At(Leader, "score")
  /\ bcast' = Number(Leader)
  /\ SyncThen(Leader, "read")
  /\ UNCHANGED <<pipe, mbar, flight, smem, vt, issued>>

\* Mutant: no bar.sync between the reads and the prefetch.
ReadChunkUnsynced(c) ==
  /\ Chunks /\ At(c, "read")
  /\ Goto(c, "prefetch")
  /\ UNCHANGED <<pipe, memVars>>

\* Every warp scales by the weights and adds its part of P V.
ReadChunk(c) ==
  /\ Chunks /\ At(c, "read")
  /\ SyncThen(c, "prefetch")
  /\ UNCHANGED <<pipe, memVars>>

PrefetchNext(c) ==
  /\ Chunks /\ At(c, "prefetch")
  /\ IF c = Leader /\ warp[c].block + 2 < Blocks
     THEN Load("kv", Stage(c), Number(c) + 2)
     ELSE UNCHANGED memVars
  /\ warp' = [warp EXCEPT ![c].at = "loop", ![c].block = @ + 1]
  /\ UNCHANGED pipe

\* The sums go through the place the weights went through.
LastChunkDone(c) ==
  /\ Chunks /\ At(c, "loop") /\ warp[c].block >= Blocks
  /\ bcast' = IF c = Leader THEN Sums ELSE bcast
  /\ SyncThen(c, "normalize")
  /\ UNCHANGED <<pipe, mbar, flight, smem, vt, issued>>

Normalize(c) ==
  /\ At(c, "normalize")
  /\ Goto(c, "exit")
  /\ UNCHANGED <<pipe, memVars>>

ChunkNext(c) ==
  \/ SkipPrefetch(c) \/ ChunkLoop(c) \/ WaitChunk(c) \/ ReadChunk(c)
  \/ PrefetchNext(c) \/ LastChunkDone(c) \/ Normalize(c)
  \/ c = Leader /\ (PrefetchFirst \/ PrefetchSecond \/ ScoreChunk)

=============================================================================
