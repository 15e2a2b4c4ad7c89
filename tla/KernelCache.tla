----------------------------- MODULE KernelCache -----------------------------
(***************************************************************************)
(* The two process-wide kernel caches of the Rust host layer and the       *)
(* context generations that guard one of them:                             *)
(*   crates/sm121-kernels/src/module.rs  load_kernel, load_kernel_raw,     *)
(*                                       register_context                  *)
(*   crates/sm121-kernels/src/device.rs  init_device, is_sm121             *)
(*                                                                         *)
(* Host threads obtain the device's primary CUDA context, look kernels up, *)
(* and drop the context again; all of them share the caches, the           *)
(* generation registry and the temporary directory.                        *)
(*                                                                         *)
(* A cache is named by its path: "fn" is FUNCTION_CACHE (load_kernel),     *)
(* "raw" is FUNCTION_CACHE_RAW (load_kernel_raw).  A key is the            *)
(* "kernel::entry" string; the device ordinal is that of the one GPU.      *)
(* A handle is the function of a key in one instance of the primary        *)
(* context.  Instances are numbered as the driver creates them, so two     *)
(* instances differ even when the driver gives them the same address.      *)
(***************************************************************************)
EXTENDS Naturals, FiniteSets

CONSTANTS
  Threads,       \* host threads
  Keys,          \* "kernel::entry" strings the program asks for
  Stems,         \* PTX file stems, the kernel names
  Stem,          \* Stem[k] is the kernel name of key k
  Registry,      \* stems in KERNEL_REGISTRY
  PtxRegistry,   \* stems in KERNEL_PTX_REGISTRY
  Addrs,         \* addresses the driver can give a CUcontext
  Paths,         \* the loaders the program calls, a subset of Caches
  MaxInst,       \* bound: contexts the driver creates
  MaxGen,        \* bound: generations stamped
  Watched,       \* the generation LoadKernelRaw is about
  NoThread, NoHandle, Err

Caches == {"fn", "raw"}

ASSUME ConstantsOK ==
  /\ Keys # {}
  /\ Stem \in [Keys -> Stems]
  /\ Registry \subseteq Stems
  /\ PtxRegistry \subseteq Stems
  /\ Paths \subseteq Caches
  /\ Addrs # {}
  /\ MaxInst \in Nat
  /\ MaxGen \in Nat
  /\ Watched \in 1 .. MaxGen
  /\ NoThread \notin Threads

Gens == 0 .. MaxGen
Insts == 0 .. MaxInst
Handle == [inst : Insts \ {0}, key : Keys]

ASSUME ResultsDistinct ==
  /\ NoHandle \notin Handle
  /\ Err \notin Handle
  /\ Err # NoHandle

VARIABLES
  live,        \* instance of the primary context now alive, 0 for none
  born,        \* contexts created so far
  where,       \* address of the latest instance
  reg,         \* CONTEXT_GENERATIONS, 0 where the address has no entry
  nextGen,     \* NEXT_GENERATION
  stampedFor,  \* history: the instance a generation was drawn for
  ready,       \* the cache's Option is Some
  cache,       \* its map, keyed by <<cache, generation, key>>
  loads,       \* history: cold loads completed for that slot
  writer,      \* holder of the cache's write lock
  readers,     \* holders of its read lock
  file,        \* the temporary files
  pc,          \* what each thread executes next
  hold,        \* how the Arc<CudaContext> a thread holds was obtained
  path, key,   \* the loader a thread is in and the key it asked for
  gen,         \* the generation a thread has read or drawn
  ret          \* what its last load returned

ctxVars == <<live, born, where>>
genVars == <<reg, nextGen, stampedFor>>
cacheVars == <<ready, cache, loads>>
lockVars == <<writer, readers>>
callVars == <<path, key>>
vars == <<ctxVars, genVars, cacheVars, lockVars, file, pc, hold, callVars, gen, ret>>

Slot == Caches \X Gens \X Keys

\* Mutant: one temporary file for both loaders.
SharedTempPath(p, ext, s) == <<"spark", ext, s>>

\* The names differ between the caches, so their locks need not exclude each other.
TempPath(p, ext, s) == <<p, ext, s>>
TempFiles == {TempPath(p, e, s) : p \in Caches, e \in {"cubin", "ptx"}, s \in Stems}

InInit == {"query", "bump", "stamp"}                       \* inside init_device
Locked == {"recheck", "embed", "load", "jit", "loadPtx", "getfn"} \* under the write lock
InCall == {"ensure", "create", "lookup", "fast", "probe", "slow"} \cup Locked

Init ==
  /\ live = 0 /\ born = 0 /\ where \in Addrs
  /\ reg = [a \in Addrs |-> 0]
  /\ nextGen = 1
  /\ stampedFor = [g \in Gens |-> 0]
  /\ ready = [p \in Caches |-> FALSE]
  /\ cache = [s \in Slot |-> NoHandle]
  /\ loads = [s \in Slot |-> 0]
  /\ writer = [p \in Caches |-> NoThread]
  /\ readers = [p \in Caches |-> {}]
  /\ file = [f \in TempFiles |-> "absent"]
  /\ pc = [t \in Threads |-> "out"]
  /\ hold = [t \in Threads |-> "none"]
  /\ path \in [Threads -> {"fn"}]
  /\ key \in [Threads -> {CHOOSE k \in Keys : TRUE}]
  /\ gen = [t \in Threads |-> 0]
  /\ ret = [t \in Threads |-> NoHandle]

-----------------------------------------------------------------------------
(* The primary context: created by the first CudaContext::new, shared by    *)
(* the ones that follow, destroyed when the last owner goes.  A cached      *)
(* CudaFunction owns its context; a cached CUfunction does not.             *)

\* Mutant: load_kernel caches bare CUfunctions, as load_kernel_raw does.
NothingPinned == FALSE

PinnedByCache == \E k \in Keys : cache[<<"fn", 0, k>>] # NoHandle

\* MaxGen bounds the init_device calls under way and done.
MayInit == nextGen + Cardinality({u \in Threads : pc[u] \in InInit}) <= MaxGen

NewContext(t, how) ==
  /\ pc[t] = "out"
  /\ how = "init" => MayInit
  /\ \/ /\ live # 0
        /\ UNCHANGED ctxVars
     \/ /\ live = 0 /\ born < MaxInst
        /\ live' = born + 1
        /\ born' = born + 1
        /\ where' \in Addrs
  /\ hold' = [hold EXCEPT ![t] = how]
  /\ pc' = [pc EXCEPT ![t] = IF how = "init" THEN "query" ELSE "have"]
  /\ UNCHANGED <<genVars, cacheVars, lockVars, file, callVars, gen, ret>>

\* The driver has no memory for a context: nothing is left behind.
NewContextFail(t) == pc[t] = "out" /\ UNCHANGED vars

StillOwned(t) == PinnedByCache \/ \E u \in Threads \ {t} : hold[u] # "none"

ReleaseContext(t) ==
  /\ hold' = [hold EXCEPT ![t] = "none"]
  /\ live' = IF StillOwned(t) THEN live ELSE 0
  /\ UNCHANGED <<born, where>>

\* Mutant: the context is reset whoever else holds it.
ResetContext(t) ==
  /\ pc[t] = "have"
  /\ hold' = [hold EXCEPT ![t] = "none"]
  /\ live' = 0
  /\ pc' = [pc EXCEPT ![t] = "out"]
  /\ ret' = [ret EXCEPT ![t] = NoHandle]
  /\ UNCHANGED <<born, where, genVars, cacheVars, lockVars, file, callVars, gen>>

\* The owner lets go of a context it may use, and of what it loaded with it.
DropContext(t) ==
  /\ pc[t] = "have"
  /\ ReleaseContext(t)
  /\ pc' = [pc EXCEPT ![t] = "out"]
  /\ ret' = [ret EXCEPT ![t] = NoHandle]
  /\ UNCHANGED <<genVars, cacheVars, lockVars, file, callVars, gen>>

\* An Arc<CudaContext> is cloned into another thread.
ShareContext(t, u) ==
  /\ pc[t] = "out"
  /\ pc[u] \in InCall \cup {"have"}
  /\ hold' = [hold EXCEPT ![t] = hold[u]]
  /\ pc' = [pc EXCEPT ![t] = "have"]
  /\ UNCHANGED <<ctxVars, genVars, cacheVars, lockVars, file, callVars, gen, ret>>

-----------------------------------------------------------------------------
(* init_device, after CudaContext::new.  is_sm121 is init_device followed   *)
(* by DropContext.                                                          *)

\* A failed attribute query or the wrong architecture drops the new Arc.
InitDeviceFail(t) ==
  /\ pc[t] = "query"
  /\ ReleaseContext(t)
  /\ pc' = [pc EXCEPT ![t] = "out"]
  /\ UNCHANGED <<genVars, cacheVars, lockVars, file, callVars, gen, ret>>

InitDeviceIsSm121(t) ==
  /\ pc[t] = "query"
  /\ pc' = [pc EXCEPT ![t] = "bump"]
  /\ UNCHANGED <<ctxVars, genVars, cacheVars, lockVars, file, hold, callVars, gen, ret>>

\* register_context draws the generation first and stores it under the mutex
\* in a second step; another thread may come in between.
DrawGeneration(t) ==
  /\ pc[t] = "bump" /\ nextGen <= MaxGen
  /\ gen' = [gen EXCEPT ![t] = nextGen]
  /\ nextGen' = nextGen + 1
  /\ stampedFor' = [stampedFor EXCEPT ![nextGen] = live]
  /\ pc' = [pc EXCEPT ![t] = "stamp"]
  /\ UNCHANGED <<ctxVars, reg, cacheVars, lockVars, file, hold, callVars, ret>>

\* Mutant: an address that has a generation keeps it.
StoreIfAbsent(t) ==
  /\ pc[t] = "stamp"
  /\ reg' = IF reg[where] = 0 THEN [reg EXCEPT ![where] = gen[t]] ELSE reg
  /\ pc' = [pc EXCEPT ![t] = "have"]
  /\ UNCHANGED <<ctxVars, nextGen, stampedFor, cacheVars, lockVars, file, hold, callVars, gen, ret>>

StoreGeneration(t) ==
  /\ pc[t] = "stamp"
  /\ reg' = [reg EXCEPT ![where] = gen[t]]
  /\ pc' = [pc EXCEPT ![t] = "have"]
  /\ UNCHANGED <<ctxVars, nextGen, stampedFor, cacheVars, lockVars, file, hold, callVars, gen, ret>>

-----------------------------------------------------------------------------
(* The loaders.                                                            *)

MySlot(t) == <<path[t], gen[t], key[t]>>
MyFile(t, ext) == TempPath(path[t], ext, Stem[key[t]])

\* cuFuncGetAttribute succeeds exactly on functions of a context still alive.
FuncIsLive(h) == h.inst = live

\* Mutant: no probe.
AnyHit(t) == cache[MySlot(t)] # NoHandle

\* A cached handle is served without a probe unless it was loaded under
\* generation 0 of the raw cache.
Hit(t) ==
  LET h == cache[MySlot(t)] IN
    /\ h # NoHandle
    /\ path[t] = "fn" \/ gen[t] # 0 \/ FuncIsLive(h)

Return(t, r) ==
  /\ ret' = [ret EXCEPT ![t] = r]
  /\ pc' = [pc EXCEPT ![t] = "have"]

Goto(t, l) ==
  /\ pc' = [pc EXCEPT ![t] = l]
  /\ UNCHANGED ret

UnlockWrite(t) ==
  /\ writer' = [writer EXCEPT ![path[t]] = NoThread]
  /\ UNCHANGED readers

Call(t, p, k) ==
  /\ pc[t] = "have"
  /\ path' = [path EXCEPT ![t] = p]
  /\ key' = [key EXCEPT ![t] = k]
  /\ gen' = [gen EXCEPT ![t] = 0]
  /\ ret' = [ret EXCEPT ![t] = NoHandle]
  /\ pc' = [pc EXCEPT ![t] = "ensure"]
  /\ UNCHANGED <<ctxVars, genVars, cacheVars, lockVars, file, hold>>

AfterEnsure(t) == IF path[t] = "raw" THEN "lookup" ELSE "fast"

EnsureNext(t) == IF ready[path[t]] THEN AfterEnsure(t) ELSE "create"

\* Mutant: the read guard lives on while the write lock is asked for.
EnsureReadKeepsGuard(t) ==
  /\ pc[t] = "ensure" /\ writer[path[t]] = NoThread
  /\ Goto(t, EnsureNext(t))
  /\ readers' = IF ready[path[t]] THEN readers
                ELSE [readers EXCEPT ![path[t]] = @ \cup {t}]
  /\ UNCHANGED <<ctxVars, genVars, cacheVars, writer, file, hold, callVars, gen>>

\* ensure_cache: look under the read lock, drop it, then take the write lock.
EnsureRead(t) ==
  /\ pc[t] = "ensure" /\ writer[path[t]] = NoThread
  /\ Goto(t, EnsureNext(t))
  /\ UNCHANGED <<ctxVars, genVars, cacheVars, lockVars, file, hold, callVars, gen>>

EmptyMap(p) == [s \in Slot |-> IF s[1] = p THEN NoHandle ELSE cache[s]]

\* Another thread may have created, and filled, the map in between.
MapCreated(p) == IF ready[p] THEN cache ELSE EmptyMap(p)

EnsureWrite(t) ==
  /\ pc[t] = "create" /\ writer[path[t]] = NoThread /\ readers[path[t]] = {}
  /\ ready' = [ready EXCEPT ![path[t]] = TRUE]
  /\ cache' = MapCreated(path[t])
  /\ Goto(t, AfterEnsure(t))
  /\ UNCHANGED <<ctxVars, genVars, loads, lockVars, file, hold, callVars, gen>>

\* load_kernel_raw reads the generation before it takes either lock.
ContextGeneration(t) ==
  /\ pc[t] = "lookup"
  /\ gen' = [gen EXCEPT ![t] = reg[where]]
  /\ Goto(t, "fast")
  /\ UNCHANGED <<ctxVars, genVars, cacheVars, lockVars, file, hold, callVars>>

LockRead(t) ==
  /\ pc[t] = "fast" /\ writer[path[t]] = NoThread
  /\ readers' = [readers EXCEPT ![path[t]] = @ \cup {t}]
  /\ Goto(t, "probe")
  /\ UNCHANGED <<ctxVars, genVars, cacheVars, writer, file, hold, callVars, gen>>

FastPath(t) ==
  /\ pc[t] = "probe"
  /\ readers' = [readers EXCEPT ![path[t]] = @ \ {t}]
  /\ \/ Hit(t) /\ Return(t, cache[MySlot(t)])
     \/ ~Hit(t) /\ Goto(t, "slow")
  /\ UNCHANGED <<ctxVars, genVars, cacheVars, writer, file, hold, callVars, gen>>

LockWrite(t) ==
  /\ pc[t] = "slow" /\ writer[path[t]] = NoThread /\ readers[path[t]] = {}
  /\ writer' = [writer EXCEPT ![path[t]] = t]
  /\ Goto(t, "recheck")
  /\ UNCHANGED <<ctxVars, genVars, cacheVars, readers, file, hold, callVars, gen>>

\* Mutant: no second look.
NoRecheck(t) ==
  /\ pc[t] = "recheck"
  /\ Goto(t, "embed")
  /\ UNCHANGED <<ctxVars, genVars, cacheVars, lockVars, file, hold, callVars, gen>>

\* The second look, under the write lock; a dead generation-0 entry is removed.
Recheck(t) ==
  /\ pc[t] = "recheck"
  /\ \/ Hit(t) /\ Return(t, cache[MySlot(t)]) /\ UnlockWrite(t) /\ UNCHANGED cache
     \/ /\ ~Hit(t)
        /\ cache' = [cache EXCEPT ![MySlot(t)] = NoHandle]
        /\ Goto(t, "embed")
        /\ UNCHANGED lockVars
  /\ UNCHANGED <<ctxVars, genVars, ready, loads, file, hold, callVars, gen>>

\* An error returns to the caller and drops the write guard.
Fail(t) == Return(t, Err) /\ UnlockWrite(t)

\* Mutant: the file is forgotten.
Kept(f) == file

Removed(f) == [file EXCEPT ![f] = "absent"]

\* std::fs::write: the whole file, or a failure that may leave part of one.
WriteFile(t, ext, next) ==
  \/ /\ file' = [file EXCEPT ![MyFile(t, ext)] = "whole"]
     /\ Goto(t, next)
     /\ UNCHANGED lockVars
  \/ /\ file' \in {file, [file EXCEPT ![MyFile(t, ext)] = "partial"]}
     /\ Fail(t)

WriteCubin(t) ==
  /\ pc[t] = "embed"
  /\ \/ Stem[key[t]] \in Registry /\ WriteFile(t, "cubin", "load")
     \/ Stem[key[t]] \notin Registry /\ Fail(t) /\ UNCHANGED file
  /\ UNCHANGED <<ctxVars, genVars, cacheVars, hold, callVars, gen>>

\* The driver takes the cubin or rejects it; the file goes either way.
LoadCubin(t) ==
  /\ pc[t] = "load"
  /\ \/ file[MyFile(t, "cubin")] = "whole" /\ Goto(t, "getfn")
     \/ Goto(t, "jit")
  /\ file' = Removed(MyFile(t, "cubin"))
  /\ UNCHANGED <<ctxVars, genVars, cacheVars, lockVars, hold, callVars, gen>>

WritePtx(t) ==
  /\ pc[t] = "jit"
  /\ \/ Stem[key[t]] \in PtxRegistry /\ WriteFile(t, "ptx", "loadPtx")
     \/ Stem[key[t]] \notin PtxRegistry /\ Fail(t) /\ UNCHANGED file
  /\ UNCHANGED <<ctxVars, genVars, cacheVars, hold, callVars, gen>>

\* load_kernel returns from a failed JIT before it removes the file;
\* load_kernel_raw removes the file first.
LoadPtx(t) ==
  /\ pc[t] = "loadPtx"
  /\ \/ /\ file[MyFile(t, "ptx")] = "whole"
        /\ file' = Removed(MyFile(t, "ptx"))
        /\ Goto(t, "getfn")
        /\ UNCHANGED lockVars
     \/ /\ file' = IF path[t] = "raw"
                   THEN Removed(MyFile(t, "ptx")) ELSE file
        /\ Fail(t)
  /\ UNCHANGED <<ctxVars, genVars, cacheVars, hold, callVars, gen>>

\* The module is loaded in the caller's context; its function is cached and
\* returned, or the entry point is missing.
GetFunction(t) ==
  /\ pc[t] = "getfn"
  /\ \/ LET h == [inst |-> live, key |-> key[t]] IN
        /\ cache' = [cache EXCEPT ![MySlot(t)] = h]
        /\ loads' = [loads EXCEPT ![MySlot(t)] = @ + 1]
        /\ Return(t, h)
        /\ UnlockWrite(t)
     \/ Fail(t) /\ UNCHANGED <<cache, loads>>
  /\ UNCHANGED <<ctxVars, genVars, ready, file, hold, callVars, gen>>

-----------------------------------------------------------------------------

LoadStep(t) ==
  \/ EnsureRead(t) \/ EnsureWrite(t) \/ ContextGeneration(t)
  \/ LockRead(t) \/ FastPath(t) \/ LockWrite(t) \/ Recheck(t)
  \/ WriteCubin(t) \/ LoadCubin(t) \/ WritePtx(t) \/ LoadPtx(t) \/ GetFunction(t)

InitDeviceStep(t) ==
  \/ InitDeviceFail(t) \/ InitDeviceIsSm121(t) \/ DrawGeneration(t) \/ StoreGeneration(t)

ProgramStep(t) ==
  \/ \E how \in {"init", "foreign"} : NewContext(t, how)
  \/ NewContextFail(t)
  \/ DropContext(t)
  \/ \E u \in Threads : ShareContext(t, u)
  \/ \E p \in Paths, k \in Keys : Call(t, p, k)

Next == \E t \in Threads : ProgramStep(t) \/ InitDeviceStep(t) \/ LoadStep(t)

Spec == Init /\ [][Next]_vars

\* parking_lot's RwLock starves neither readers nor writers, and driver calls
\* return: a load in progress that can go on again and again does go on.
\* Nothing makes the program call, share or drop.
Fairness == \A t \in Threads : SF_vars(LoadStep(t))
FairSpec == Spec /\ Fairness

-----------------------------------------------------------------------------
(* Properties.                                                             *)

\* The variables have their types; no generation beyond the last one is stamped.
TypeOK ==
  /\ live \in Insts /\ born \in Insts /\ where \in Addrs
  /\ reg \in [Addrs -> Gens]
  /\ nextGen \in 1 .. MaxGen + 1
  /\ stampedFor \in [Gens -> Insts]
  /\ ready \in [Caches -> BOOLEAN]
  /\ cache \in [Slot -> Handle \cup {NoHandle}]
  /\ loads \in [Slot -> Nat]
  /\ writer \in [Caches -> Threads \cup {NoThread}]
  /\ readers \in [Caches -> SUBSET Threads]
  /\ file \in [TempFiles -> {"absent", "partial", "whole"}]
  /\ pc \in [Threads -> {"out", "have"} \cup InInit \cup InCall]
  /\ hold \in [Threads -> {"none", "init", "foreign"}]
  /\ path \in [Threads -> Caches]
  /\ key \in [Threads -> Keys]
  /\ gen \in [Threads -> Gens]
  /\ ret \in [Threads -> Handle \cup {NoHandle, Err}]

\* What thread t got back is the function it asked for, in the context it holds.
Usable(t) == ret[t] \in Handle => ret[t] = [inst |-> live, key |-> key[t]]

\* A load never hands back a function of a destroyed context, nor of another
\* kernel: through load_kernel always, through load_kernel_raw to whoever
\* holds a context made by init_device (its generation is fresh) and to
\* whoever looked up generation 0 (the hit is probed).  It stays usable for
\* as long as the thread keeps its context.
NoStaleHandle ==
  \A t \in Threads :
    hold[t] = "init" \/ path[t] = "fn" \/ gen[t] = 0 => Usable(t)

\* "Concurrent cold loads to the same key are deduplicated by the re-check
\* under write lock": a slot is loaded once, unless its key is probed.
Probed(s) == s[1] = "raw" /\ s[2] = 0
LoadedOnce == \A s \in Slot : ~Probed(s) => loads[s] <= 1

\* A cached CudaFunction keeps its context alive, so load_kernel can key by
\* the ordinal alone.
FnEntriesPinContext ==
  \A k \in Keys : LET h == cache[<<"fn", 0, k>>] IN h # NoHandle => h.inst = live

\* An entry goes away or changes only when it is a probed one found dead; in
\* particular two threads creating the map never empty it.
EntriesOutliveRaces ==
  [][\A s \in Slot : cache[s] # NoHandle /\ cache'[s] # cache[s]
       => Probed(s) /\ cache[s].inst # live]_vars

\* The driver reads the file its caller wrote, untouched by any other load
\* of that kernel through either loader.
LoadReadsWholeFile ==
  \A t \in Threads : /\ pc[t] = "load" => file[MyFile(t, "cubin")] = "whole"
                     /\ pc[t] = "loadPtx" => file[MyFile(t, "ptx")] = "whole"

\* When no load is under way, a kernel left whole in the temporary directory
\* is the PTX of a load_kernel whose JIT failed.
OnlyFailedJitLeavesFile ==
  \A p \in Caches, e \in {"cubin", "ptx"}, s \in Stems :
    file[TempPath(p, e, s)] = "whole" /\ writer[p] = NoThread => p = "fn" /\ e = "ptx"

\* The map is there when it is unwrapped under the write lock.
UnwrapFindsMap == \A t \in Threads : pc[t] \in Locked => ready[path[t]]

\* load_kernel implements the one-step loader: its table is the map, and a call
\* takes effect where it finds or inserts the entry under the lock.
LoadKernel == INSTANCE OnceLoader WITH
  Clients <- Threads, Names <- Keys, Functions <- Handle, None <- NoHandle, Error <- Err,
  table <- [k \in Keys |-> cache[<<"fn", 0, k>>]],
  busy <- {t \in Threads : path[t] = "fn" /\ pc[t] \in InCall},
  wants <- key,
  answer <- [t \in Threads |-> IF path[t] = "fn" THEN ret[t] ELSE NoHandle]
LoadKernelIsOnceLoader == LoadKernel!Spec

\* So does load_kernel_raw for the callers that read the generation Watched,
\* from the moment they read it.
LoadKernelRaw == INSTANCE OnceLoader WITH
  Clients <- Threads, Names <- Keys, Functions <- Handle, None <- NoHandle, Error <- Err,
  table <- [k \in Keys |-> cache[<<"raw", Watched, k>>]],
  busy <- {t \in Threads : path[t] = "raw" /\ gen[t] = Watched /\ pc[t] \in InCall},
  wants <- key,
  answer <- [t \in Threads |-> IF path[t] = "raw" /\ gen[t] = Watched THEN ret[t] ELSE NoHandle]
LoadKernelRawIsOnceLoader == LoadKernelRaw!Spec

\* Every load returns, an error or a handle, whatever other loads do.
EveryLoadReturns == \A t \in Threads : pc[t] \in InCall ~> pc[t] = "have"

-----------------------------------------------------------------------------
(* Why they hold: the parts of the inductive invariant IInv.               *)

AfterLookup == InCall \ {"ensure", "create", "lookup"}

\* Holding an Arc, and only that, keeps the context alive.
Ownership ==
  /\ live <= born
  /\ \A t \in Threads :
       /\ hold[t] = "none" <=> pc[t] = "out"
       /\ hold[t] # "none" => live # 0
       /\ pc[t] \in InInit => hold[t] = "init"

\* Who is past the write lock holds it, and its slot is empty after the second look.
Locking ==
  \A t \in Threads :
    /\ pc[t] \in Locked => writer[path[t]] = t
    /\ pc[t] \in Locked \ {"recheck"} => cache[MySlot(t)] = NoHandle

\* A map that is not there has no entries; it is there once a load looks.
Mapped ==
  /\ \A s \in Slot : ~ready[s[1]] => cache[s] = NoHandle
  /\ \A t \in Threads : pc[t] \in InCall \ {"ensure", "create"} => ready[path[t]]

\* Entries sit under their own key; a CudaFunction is of the context alive.
Keyed ==
  \A s \in Slot : cache[s] # NoHandle =>
    cache[s].key = s[3] /\ (s[1] = "fn" => cache[s].inst = live)

\* Generations in use have been drawn, each for one instance.
Drawn ==
  /\ \A a \in Addrs : reg[a] < nextGen
  /\ \A g \in Gens : stampedFor[g] <= born
  /\ \A s \in Slot : cache[s] # NoHandle => s[2] < nextGen /\ (s[1] = "fn" => s[2] = 0)
  /\ \A t \in Threads :
       /\ gen[t] < nextGen
       /\ path[t] = "fn" /\ pc[t] \in InCall => gen[t] = 0 /\ pc[t] # "lookup"
       /\ pc[t] \in {"ensure", "create", "lookup"} => gen[t] = 0
       /\ pc[t] = "stamp" => gen[t] # 0 /\ stampedFor[gen[t]] = live

\* An init_device context carries, and its loads have read, a generation drawn
\* for it; what is filed under that generation is of that context.
Stamped ==
  /\ \A t \in Threads : hold[t] = "init" =>
       /\ pc[t] \notin InInit => reg[where] # 0 /\ stampedFor[reg[where]] = live
       /\ path[t] = "raw" /\ pc[t] \in AfterLookup =>
            gen[t] # 0 /\ stampedFor[gen[t]] = live
  /\ \A s \in Slot :
       cache[s] # NoHandle /\ live # 0 /\ s[1] = "raw" /\ s[2] # 0 /\ stampedFor[s[2]] = live
         => cache[s].inst = live

Answered ==
  /\ \A t \in Threads : ret[t] # NoHandle => pc[t] = "have"
  /\ NoStaleHandle

Counted ==
  \A s \in Slot : ~Probed(s) => loads[s] = IF cache[s] = NoHandle THEN 0 ELSE 1

\* Inductive: every step of the specification preserves the whole of it.
IInv ==
  /\ TypeOK /\ Ownership /\ Locking /\ Mapped /\ Keyed
  /\ Drawn /\ Stamped /\ Answered /\ Counted

-----------------------------------------------------------------------------
(* What the comments of module.rs say of load_kernel_raw and the code does  *)
(* not do.                                                                 *)

\* "Contexts created outside init_device map to generation 0 and are covered
\* by the liveness probe": the address may still carry the generation of a
\* destroyed context, and the hit is then served without a probe.
ForeignContextsCovered == \A t \in Threads : hold[t] = "foreign" => Usable(t)

=============================================================================
