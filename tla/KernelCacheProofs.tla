-------------------------- MODULE KernelCacheProofs --------------------------
(***************************************************************************)
(* What KernelCache keeps for any number of threads, keys, addresses and   *)
(* generations.  IInv is inductive: one lemma per action shows that the    *)
(* action preserves it, its nine parts one by one; the properties follow.  *)
(***************************************************************************)
EXTENDS KernelCache, TLAPS

\* The slot a load looks up is a slot, of the load's cache, generation and key.
LEMMA SlotFacts ==
  ASSUME TypeOK, NEW t \in Threads
  PROVE  /\ MySlot(t) \in Slot
         /\ MySlot(t)[1] = path[t] /\ MySlot(t)[2] = gen[t] /\ MySlot(t)[3] = key[t]
  BY DEF TypeOK, MySlot, Slot

\* What a slot consists of, and which slots are load_kernel's.
LEMMA SlotParts ==
  /\ \A s \in Slot : s[1] \in Caches /\ s[2] \in Gens /\ s[3] \in Keys
  /\ \A k \in Keys : <<"fn", 0, k>> \in Slot
  /\ \A s \in Slot : s[1] = "fn" /\ s[2] = 0 => s = <<"fn", 0, s[3]>>
  BY ConstantsOK DEF Slot, Caches, Gens

\* An error return of a load under the write lock preserves the invariant: it gives
\* the lock back and leaves the map alone.
LEMMA FailStep ==
  ASSUME IInv, NEW t \in Threads, pc[t] \in Locked \ {"recheck"}, Fail(t),
         file' \in [TempFiles -> {"absent", "partial", "whole"}],
         UNCHANGED <<ctxVars, genVars, cacheVars, hold, callVars, gen>>
  PROVE  IInv'
<1>a. /\ MySlot(t) \in Slot
      /\ MySlot(t)[1] = path[t] /\ MySlot(t)[2] = gen[t] /\ MySlot(t)[3] = key[t]
  BY SlotFacts DEF IInv
<1>1. TypeOK'
  BY DEF IInv, TypeOK, Fail, Return, UnlockWrite, ctxVars, genVars, cacheVars, callVars
<1>2. Ownership'
  BY DEF IInv, Ownership, InInit, Locked, Fail, Return, ctxVars
<1>3. Locking'
  BY <1>a DEF IInv, TypeOK, Locking, MySlot, Locked, Fail, Return, UnlockWrite, cacheVars, callVars
<1>4. Mapped'
  BY DEF IInv, Mapped, InCall, Locked, Fail, Return, cacheVars, callVars
<1>5. Keyed'
  BY DEF IInv, Keyed, ctxVars, cacheVars
<1>6. Drawn'
  BY DEF IInv, Drawn, InCall, Fail, Return, ctxVars, genVars, cacheVars, callVars
<1>7. Stamped'
  BY <1>a, SlotParts, ConstantsOK, ResultsDistinct DEF IInv, TypeOK, Ownership, Drawn, Stamped,
     AfterLookup, Gens, Insts, Handle, InInit, InCall, Locked, Fail, Return, UnlockWrite, ctxVars,
     genVars, cacheVars, lockVars, callVars
<1>8. Answered'
  BY ResultsDistinct DEF IInv, TypeOK, Answered, NoStaleHandle, Usable, Fail, Return, ctxVars,
     callVars
<1>9. Counted'
  BY DEF IInv, Counted, cacheVars
<1> QED BY <1>1, <1>2, <1>3, <1>4, <1>5, <1>6, <1>7, <1>8, <1>9 DEF IInv

\* Going on from one stage of a cold load to the next preserves the invariant.
LEMMA AdvanceStep ==
  ASSUME IInv, NEW t \in Threads, pc[t] \in Locked \ {"recheck"},
         NEW l \in Locked \ {"recheck"}, Goto(t, l),
         file' \in [TempFiles -> {"absent", "partial", "whole"}],
         UNCHANGED <<ctxVars, genVars, cacheVars, lockVars, hold, callVars, gen>>
  PROVE  IInv'
<1>a. /\ MySlot(t) \in Slot
      /\ MySlot(t)[1] = path[t] /\ MySlot(t)[2] = gen[t] /\ MySlot(t)[3] = key[t]
  BY SlotFacts DEF IInv
<1>1. TypeOK'
  BY DEF IInv, TypeOK, InCall, Goto, ctxVars, genVars, cacheVars, lockVars, callVars
<1>2. Ownership'
  BY DEF IInv, Ownership, InInit, Locked, Goto, ctxVars
<1>3. Locking'
  BY DEF IInv, Locking, MySlot, Goto, cacheVars, lockVars, callVars
<1>4. Mapped'
  BY DEF IInv, Mapped, InCall, Locked, Goto, cacheVars, callVars
<1>5. Keyed'
  BY DEF IInv, Keyed, ctxVars, cacheVars
<1>6. Drawn'
  BY DEF IInv, Drawn, InCall, Locked, Goto, ctxVars, genVars, cacheVars, callVars
<1>7. Stamped'
  <2>1. ASSUME NEW u \in Threads
        PROVE  /\ pc'[u] \in InInit <=> pc[u] \in InInit
               /\ pc'[u] \in AfterLookup => pc[u] \in AfterLookup
    BY DEF IInv, TypeOK, Goto, AfterLookup, InInit, InCall, Locked
  <2> QED BY <2>1 DEF IInv, Stamped, Goto, ctxVars, genVars, cacheVars, callVars
<1>8. Answered'
  BY DEF IInv, Answered, NoStaleHandle, Usable, Locked, Goto, ctxVars, callVars
<1>9. Counted'
  BY DEF IInv, Counted, cacheVars
<1> QED BY <1>1, <1>2, <1>3, <1>4, <1>5, <1>6, <1>7, <1>8, <1>9 DEF IInv

\* Answering with a cached function preserves the invariant, on the fast path and
\* under the write lock: a hit is of the caller's context whenever it has to be.
LEMMA HitStep ==
  ASSUME IInv, NEW t \in Threads, pc[t] \in {"probe", "recheck"}, Hit(t),
         Return(t, cache[MySlot(t)]),
         readers' \in [Caches -> SUBSET Threads],
         \/ writer' = writer /\ pc[t] = "probe"
         \/ UnlockWrite(t) /\ pc[t] = "recheck",
         UNCHANGED <<ctxVars, genVars, cacheVars, file, hold, callVars, gen>>
  PROVE  IInv'
<1>a. /\ MySlot(t) \in Slot
      /\ MySlot(t)[1] = path[t] /\ MySlot(t)[2] = gen[t] /\ MySlot(t)[3] = key[t]
  BY SlotFacts DEF IInv
<1>1. TypeOK'
  BY <1>a DEF IInv, TypeOK, Return, UnlockWrite, ctxVars, genVars, cacheVars, callVars
<1>2. Ownership'
  BY DEF IInv, Ownership, InInit, Return, ctxVars
<1>3. Locking'
  BY DEF IInv, TypeOK, Locking, MySlot, Locked, Return, UnlockWrite, cacheVars, callVars
<1>4. Mapped'
  BY DEF IInv, Mapped, InCall, Locked, Return, cacheVars, callVars
<1>5. Keyed'
  BY DEF IInv, Keyed, ctxVars, cacheVars
<1>6. Drawn'
  BY DEF IInv, Drawn, InCall, Locked, Return, ctxVars, genVars, cacheVars, callVars
<1>7. Stamped'
  BY <1>a, SlotParts, ConstantsOK, ResultsDistinct DEF IInv, TypeOK, Ownership, Drawn, Stamped,
     AfterLookup, Gens, Insts, Handle, InInit, InCall, Locked, Hit, FuncIsLive, Return, UnlockWrite,
     ctxVars, genVars, cacheVars, lockVars, callVars
<1>8. Answered'
  <2>1. ASSUME NEW u \in Threads, ret'[u] # NoHandle
        PROVE  pc'[u] = "have"
    BY <2>1 DEF IInv, TypeOK, Answered, Return
  <2>2. ASSUME NEW u \in Threads, u # t,
               hold'[u] = "init" \/ path'[u] = "fn" \/ gen'[u] = 0, ret'[u] \in Handle
        PROVE  ret'[u] = [inst |-> live', key |-> key'[u]]
    BY <2>2 DEF IInv, Answered, NoStaleHandle, Usable, Return, ctxVars, callVars
  <2>3. ASSUME hold'[t] = "init" \/ path'[t] = "fn" \/ gen'[t] = 0, ret'[t] \in Handle
        PROVE  ret'[t] = [inst |-> live', key |-> key'[t]]
    <3>1. cache[MySlot(t)] # NoHandle /\ cache[MySlot(t)].key = key[t]
      BY <1>a DEF IInv, Keyed, Hit
    <3>2. cache[MySlot(t)].inst = live
      <4>1. CASE path[t] = "fn"
        BY <4>1, <1>a, <3>1 DEF IInv, Keyed
      <4>2. CASE path[t] # "fn" /\ gen[t] = 0
        BY <4>2 DEF Hit, FuncIsLive
      <4>3. CASE path[t] = "raw" /\ gen[t] # 0
        BY <4>3, <2>3, <1>a, <3>1 DEF IInv, Stamped, Ownership, AfterLookup, InCall, Locked,
           callVars
      <4> QED BY <4>1, <4>2, <4>3 DEF IInv, TypeOK, Caches
    <3> QED BY <1>a, <3>1, <3>2 DEF IInv, TypeOK, Return, Handle, ctxVars, callVars
  <2> QED BY <2>1, <2>2, <2>3 DEF Answered, NoStaleHandle, Usable, Handle, Insts
<1>9. Counted'
  BY DEF IInv, Counted, cacheVars
<1> QED BY <1>1, <1>2, <1>3, <1>4, <1>5, <1>6, <1>7, <1>8, <1>9 DEF IInv

\* Letting go of an Arc<CudaContext> destroys the context only if nobody else holds
\* one and no CudaFunction is cached.
LEMMA ReleaseFacts ==
  ASSUME IInv, NEW t \in Threads, hold[t] # "none", ReleaseContext(t)
  PROVE  /\ live' \in {0, live} /\ live # 0 /\ born' = born /\ where' = where
         /\ \A u \in Threads \ {t} : hold[u] # "none" => live' = live
         /\ (\E s \in Slot : s[1] = "fn" /\ cache[s] # NoHandle) => live' = live
         /\ hold' = [hold EXCEPT ![t] = "none"]
<1>1. ASSUME NEW s \in Slot, s[1] = "fn", cache[s] # NoHandle
      PROVE  PinnedByCache
  BY <1>1, SlotParts DEF IInv, Drawn, PinnedByCache
<1>2. live # 0
  BY DEF IInv, Ownership
<1> QED BY <1>1, <1>2 DEF ReleaseContext, StillOwned

\* CudaContext::new, on a live primary context or creating one, preserves the invariant:
\* no generation in use was drawn for the new instance.
LEMMA NewContextStep ==
  ASSUME IInv, NEW t \in Threads, NEW how \in {"init", "foreign"}, NewContext(t, how)
  PROVE  IInv'
<1>a. /\ MySlot(t) \in Slot
      /\ MySlot(t)[1] = path[t] /\ MySlot(t)[2] = gen[t] /\ MySlot(t)[3] = key[t]
  BY SlotFacts DEF IInv
<1>b. /\ live' \in Insts \ {0} /\ born' \in Insts /\ where' \in Addrs
      /\ live' <= born' /\ born <= born'
      /\ \/ live' = live /\ where' = where
         \/ live' > born /\ live = 0
      /\ \A u \in Threads : hold[u] # "none" => live' = live /\ where' = where
  BY ConstantsOK DEF IInv, TypeOK, Ownership, NewContext, Insts, ctxVars
<1>1. TypeOK'
  BY <1>b DEF IInv, TypeOK, InInit, NewContext, genVars, cacheVars, lockVars, callVars
<1>2. Ownership'
  BY DEF IInv, TypeOK, Ownership, Insts, InInit, NewContext, ctxVars
<1>3. Locking'
  BY DEF IInv, Locking, MySlot, Locked, NewContext, cacheVars, lockVars, callVars
<1>4. Mapped'
  BY DEF IInv, Mapped, InCall, Locked, NewContext, cacheVars, callVars
<1>5. Keyed'
  BY DEF IInv, TypeOK, Keyed, Handle, NewContext, ctxVars, cacheVars
<1>6. Drawn'
  <2>1. \A a \in Addrs : reg'[a] < nextGen'
    BY DEF IInv, Drawn, NewContext, genVars
  <2>2. \A g \in Gens : stampedFor'[g] <= born'
    BY DEF IInv, TypeOK, Drawn, Insts, NewContext, ctxVars, genVars
  <2>3. \A s \in Slot : cache'[s] # NoHandle => s[2] < nextGen' /\ (s[1] = "fn" => s[2] = 0)
    BY DEF IInv, Drawn, NewContext, genVars, cacheVars
  <2>4. ASSUME NEW u \in Threads
        PROVE  /\ gen'[u] < nextGen'
               /\ path'[u] = "fn" /\ pc'[u] \in InCall => gen'[u] = 0 /\ pc'[u] # "lookup"
               /\ pc'[u] \in {"ensure", "create", "lookup"} => gen'[u] = 0
    BY DEF IInv, Drawn, InCall, Locked, NewContext, genVars, callVars
  <2>5. ASSUME NEW u \in Threads, pc'[u] = "stamp"
        PROVE  gen'[u] # 0 /\ stampedFor'[gen'[u]] = live'
    BY <2>5 DEF IInv, Ownership, Drawn, NewContext, ctxVars, genVars
  <2> QED BY <2>1, <2>2, <2>3, <2>4, <2>5 DEF Drawn
<1>7. Stamped'
  <2>1. ASSUME NEW u \in Threads, hold'[u] = "init", pc'[u] \notin InInit
        PROVE  reg'[where'] # 0 /\ stampedFor'[reg'[where']] = live'
    BY <2>1, <1>b DEF IInv, TypeOK, Stamped, AfterLookup, InInit, InCall, Locked, NewContext,
       ctxVars, genVars, cacheVars, callVars
  <2>2. ASSUME NEW u \in Threads, hold'[u] = "init", path'[u] = "raw", pc'[u] \in AfterLookup
        PROVE  gen'[u] # 0 /\ stampedFor'[gen'[u]] = live'
    BY <2>2, <1>b DEF IInv, TypeOK, Stamped, AfterLookup, InInit, InCall, Locked, NewContext,
       ctxVars, genVars, cacheVars, callVars
  <2>3. ASSUME NEW s \in Slot, cache'[s] # NoHandle, live' # 0, s[1] = "raw", s[2] # 0,
               stampedFor'[s[2]] = live'
        PROVE  cache'[s].inst = live'
    <3>1. cache[s] # NoHandle /\ stampedFor[s[2]] = live' /\ stampedFor[s[2]] <= born
      BY <2>3, SlotParts DEF IInv, Drawn, NewContext, cacheVars, genVars
    <3>2. live' = live
      BY <1>b, <3>1, SlotParts DEF IInv, TypeOK, Insts
    <3> QED BY <2>3, <3>1, <3>2 DEF IInv, Stamped, NewContext, cacheVars
  <2> QED BY <2>1, <2>2, <2>3 DEF Stamped
<1>8. Answered'
  BY ResultsDistinct DEF IInv, Ownership, Answered, NoStaleHandle, Usable, NewContext, ctxVars,
     callVars
<1>9. Counted'
  BY DEF IInv, Counted, NewContext, cacheVars
<1> QED BY <1>1, <1>2, <1>3, <1>4, <1>5, <1>6, <1>7, <1>8, <1>9 DEF IInv

\* Dropping a context preserves the invariant: if it dies, nobody is left to use
\* what is cached for it.
LEMMA DropContextStep ==
  ASSUME IInv, NEW t \in Threads, DropContext(t)
  PROVE  IInv'
<1>a. /\ MySlot(t) \in Slot
      /\ MySlot(t)[1] = path[t] /\ MySlot(t)[2] = gen[t] /\ MySlot(t)[3] = key[t]
  BY SlotFacts DEF IInv
<1>b. /\ live' \in {0, live} /\ live # 0 /\ born' = born /\ where' = where
      /\ \A u \in Threads \ {t} : hold[u] # "none" => live' = live
      /\ (\E s \in Slot : s[1] = "fn" /\ cache[s] # NoHandle) => live' = live
      /\ hold' = [hold EXCEPT ![t] = "none"]
  BY ReleaseFacts DEF IInv, Ownership, DropContext
<1>1. TypeOK'
  <2>1. /\ live' \in Insts /\ pc' \in [Threads -> {"out", "have"} \cup InInit \cup InCall]
        /\ hold' \in [Threads -> {"none", "init", "foreign"}]
        /\ ret' \in [Threads -> Handle \cup {NoHandle, Err}]
    BY <1>b, ConstantsOK DEF IInv, TypeOK, Insts, DropContext
  <2> QED BY <2>1, <1>b DEF IInv, TypeOK, DropContext, genVars, cacheVars, lockVars, callVars
<1>2. Ownership'
  BY <1>b DEF IInv, TypeOK, Ownership, Insts, InInit, DropContext
<1>3. Locking'
  BY DEF IInv, TypeOK, Locking, MySlot, Locked, DropContext, cacheVars, lockVars, callVars
<1>4. Mapped'
  BY DEF IInv, Mapped, InCall, Locked, DropContext, cacheVars, callVars
<1>5. Keyed'
  BY <1>b DEF IInv, Keyed, DropContext, ctxVars, cacheVars
<1>6. Drawn'
  BY <1>b DEF IInv, Ownership, Drawn, InCall, Locked, DropContext, genVars, cacheVars, callVars
<1>7. Stamped'
  <2>1. ASSUME NEW u \in Threads, hold'[u] = "init", pc'[u] \notin InInit
        PROVE  reg'[where'] # 0 /\ stampedFor'[reg'[where']] = live'
    BY <2>1, <1>b DEF IInv, TypeOK, Stamped, AfterLookup, InInit, InCall, Locked, DropContext,
       ctxVars, genVars, cacheVars, callVars
  <2>2. ASSUME NEW u \in Threads, hold'[u] = "init", path'[u] = "raw", pc'[u] \in AfterLookup
        PROVE  gen'[u] # 0 /\ stampedFor'[gen'[u]] = live'
    BY <2>2, <1>b DEF IInv, TypeOK, Stamped, AfterLookup, InInit, InCall, Locked, DropContext,
       ctxVars, genVars, cacheVars, callVars
  <2>3. ASSUME NEW s \in Slot, cache'[s] # NoHandle, live' # 0, s[1] = "raw", s[2] # 0,
               stampedFor'[s[2]] = live'
        PROVE  cache'[s].inst = live'
    BY <2>3, <1>b DEF IInv, TypeOK, Stamped, AfterLookup, InInit, InCall, Locked, DropContext,
       ctxVars, genVars, cacheVars, callVars
  <2> QED BY <2>1, <2>2, <2>3 DEF Stamped
<1>8. Answered'
  <2>1. ASSUME NEW u \in Threads, ret'[u] # NoHandle
        PROVE  pc'[u] = "have"
    BY <2>1, <1>a DEF IInv, TypeOK, Ownership, Answered, NoStaleHandle, Usable, InCall, Locked,
       DropContext, ctxVars, callVars
  <2>2. ASSUME NEW u \in Threads, u # t,
               hold'[u] = "init" \/ path'[u] = "fn" \/ gen'[u] = 0, ret'[u] \in Handle
        PROVE  ret'[u] = [inst |-> live', key |-> key'[u]]
    <3>1. ret[u] \in Handle /\ ret[u] # NoHandle /\ hold'[u] = hold[u] /\ path'[u] = path[u]
          /\ gen'[u] = gen[u] /\ key'[u] = key[u] /\ ret'[u] = ret[u]
      BY <2>2, <1>b, ResultsDistinct DEF IInv, TypeOK, DropContext, callVars
    <3>2. live' = live
      BY <2>2, <1>b, <3>1 DEF IInv, Answered, Ownership
    <3> QED BY <2>2, <3>1, <3>2 DEF IInv, Answered, NoStaleHandle, Usable
  <2>3. ASSUME hold'[t] = "init" \/ path'[t] = "fn" \/ gen'[t] = 0, ret'[t] \in Handle
        PROVE  ret'[t] = [inst |-> live', key |-> key'[t]]
    BY <2>3, ResultsDistinct DEF IInv, TypeOK, DropContext
  <2> QED BY <2>1, <2>2, <2>3 DEF Answered, NoStaleHandle, Usable, Handle, Insts
<1>9. Counted'
  BY DEF IInv, Counted, DropContext, cacheVars
<1> QED BY <1>1, <1>2, <1>3, <1>4, <1>5, <1>6, <1>7, <1>8, <1>9 DEF IInv

\* init_device on the wrong device drops its Arc and preserves the invariant.
LEMMA InitDeviceFailStep ==
  ASSUME IInv, NEW t \in Threads, InitDeviceFail(t)
  PROVE  IInv'
<1>a. /\ MySlot(t) \in Slot
      /\ MySlot(t)[1] = path[t] /\ MySlot(t)[2] = gen[t] /\ MySlot(t)[3] = key[t]
  BY SlotFacts DEF IInv
<1>b. /\ live' \in {0, live} /\ live # 0 /\ born' = born /\ where' = where
      /\ \A u \in Threads \ {t} : hold[u] # "none" => live' = live
      /\ (\E s \in Slot : s[1] = "fn" /\ cache[s] # NoHandle) => live' = live
      /\ hold' = [hold EXCEPT ![t] = "none"]
  BY ReleaseFacts DEF IInv, Ownership, InitDeviceFail, InInit
<1>1. TypeOK'
  <2>1. /\ live' \in Insts /\ pc' \in [Threads -> {"out", "have"} \cup InInit \cup InCall]
        /\ hold' \in [Threads -> {"none", "init", "foreign"}]
        /\ ret' \in [Threads -> Handle \cup {NoHandle, Err}]
    BY <1>b, ConstantsOK DEF IInv, TypeOK, Insts, InitDeviceFail
  <2> QED BY <2>1, <1>b DEF IInv, TypeOK, InitDeviceFail, genVars, cacheVars, lockVars, callVars
<1>2. Ownership'
  BY <1>b DEF IInv, TypeOK, Ownership, Insts, InInit, InitDeviceFail
<1>3. Locking'
  BY DEF IInv, TypeOK, Locking, MySlot, Locked, InitDeviceFail, cacheVars, lockVars, callVars
<1>4. Mapped'
  BY DEF IInv, Mapped, InCall, Locked, InitDeviceFail, cacheVars, callVars
<1>5. Keyed'
  BY <1>b DEF IInv, Keyed, InitDeviceFail, ctxVars, cacheVars
<1>6. Drawn'
  BY <1>b DEF IInv, Ownership, Drawn, InCall, Locked, InitDeviceFail, genVars, cacheVars, callVars
<1>7. Stamped'
  <2>1. ASSUME NEW u \in Threads, hold'[u] = "init", pc'[u] \notin InInit
        PROVE  reg'[where'] # 0 /\ stampedFor'[reg'[where']] = live'
    BY <2>1, <1>b DEF IInv, TypeOK, Stamped, AfterLookup, InInit, InCall, Locked, InitDeviceFail,
       ctxVars, genVars, cacheVars, callVars
  <2>2. ASSUME NEW u \in Threads, hold'[u] = "init", path'[u] = "raw", pc'[u] \in AfterLookup
        PROVE  gen'[u] # 0 /\ stampedFor'[gen'[u]] = live'
    BY <2>2, <1>b DEF IInv, TypeOK, Stamped, AfterLookup, InInit, InCall, Locked, InitDeviceFail,
       ctxVars, genVars, cacheVars, callVars
  <2>3. ASSUME NEW s \in Slot, cache'[s] # NoHandle, live' # 0, s[1] = "raw", s[2] # 0,
               stampedFor'[s[2]] = live'
        PROVE  cache'[s].inst = live'
    BY <2>3, <1>b DEF IInv, TypeOK, Stamped, AfterLookup, InInit, InCall, Locked, InitDeviceFail,
       ctxVars, genVars, cacheVars, callVars
  <2> QED BY <2>1, <2>2, <2>3 DEF Stamped
<1>8. Answered'
  <2>1. ASSUME NEW u \in Threads, ret'[u] # NoHandle
        PROVE  pc'[u] = "have"
    BY <2>1 DEF IInv, Ownership, Answered, NoStaleHandle, Usable, InCall, Locked, InitDeviceFail,
       ctxVars, callVars
  <2>2. ASSUME NEW u \in Threads, u # t,
               hold'[u] = "init" \/ path'[u] = "fn" \/ gen'[u] = 0, ret'[u] \in Handle
        PROVE  ret'[u] = [inst |-> live', key |-> key'[u]]
    <3>1. ret[u] \in Handle /\ ret[u] # NoHandle /\ hold'[u] = hold[u] /\ path'[u] = path[u]
          /\ gen'[u] = gen[u] /\ key'[u] = key[u] /\ ret'[u] = ret[u]
      BY <2>2, <1>b, ResultsDistinct DEF IInv, TypeOK, InitDeviceFail, callVars
    <3>2. live' = live
      BY <2>2, <1>b, <3>1 DEF IInv, Answered, Ownership
    <3> QED BY <2>2, <3>1, <3>2 DEF IInv, Answered, NoStaleHandle, Usable
  <2>3. ASSUME hold'[t] = "init" \/ path'[t] = "fn" \/ gen'[t] = 0, ret'[t] \in Handle
        PROVE  ret'[t] = [inst |-> live', key |-> key'[t]]
    BY <2>3, ResultsDistinct DEF IInv, Ownership, Answered, NoStaleHandle, Usable, InCall, Locked,
       InitDeviceFail, ctxVars, callVars
  <2> QED BY <2>1, <2>2, <2>3 DEF Answered, NoStaleHandle, Usable, Handle, Insts
<1>9. Counted'
  BY DEF IInv, Counted, InitDeviceFail, cacheVars
<1> QED BY <1>1, <1>2, <1>3, <1>4, <1>5, <1>6, <1>7, <1>8, <1>9 DEF IInv

\* Cloning an Arc into another thread preserves the invariant.
LEMMA ShareContextStep ==
  ASSUME IInv, NEW t \in Threads, NEW u \in Threads, ShareContext(t, u)
  PROVE  IInv'
<1>a. /\ MySlot(t) \in Slot
      /\ MySlot(t)[1] = path[t] /\ MySlot(t)[2] = gen[t] /\ MySlot(t)[3] = key[t]
  BY SlotFacts DEF IInv
<1>1. TypeOK'
  BY DEF IInv, TypeOK, ShareContext, ctxVars, genVars, cacheVars, lockVars, callVars
<1>2. Ownership'
  BY <1>a DEF IInv, TypeOK, Ownership, InInit, InCall, Locked, ShareContext, ctxVars
<1>3. Locking'
  BY DEF IInv, TypeOK, Locking, MySlot, Locked, ShareContext, cacheVars, lockVars, callVars
<1>4. Mapped'
  BY DEF IInv, Mapped, InCall, Locked, ShareContext, cacheVars, callVars
<1>5. Keyed'
  BY DEF IInv, Keyed, ShareContext, ctxVars, cacheVars
<1>6. Drawn'
  BY DEF IInv, TypeOK, Drawn, InCall, Locked, ShareContext, ctxVars, genVars, cacheVars, callVars
<1>7. Stamped'
  <2>1. ASSUME NEW w \in Threads, hold'[w] = "init", pc'[w] \notin InInit
        PROVE  reg'[where'] # 0 /\ stampedFor'[reg'[where']] = live'
    BY <2>1 DEF IInv, TypeOK, Stamped, AfterLookup, InInit, InCall, Locked, ShareContext, ctxVars,
       genVars, cacheVars, callVars
  <2>2. ASSUME NEW w \in Threads, hold'[w] = "init", path'[w] = "raw", pc'[w] \in AfterLookup
        PROVE  gen'[w] # 0 /\ stampedFor'[gen'[w]] = live'
    BY <2>2 DEF IInv, TypeOK, Stamped, AfterLookup, InInit, InCall, Locked, ShareContext, ctxVars,
       genVars, cacheVars, callVars
  <2>3. ASSUME NEW s \in Slot, cache'[s] # NoHandle, live' # 0, s[1] = "raw", s[2] # 0,
               stampedFor'[s[2]] = live'
        PROVE  cache'[s].inst = live'
    BY <2>3 DEF IInv, TypeOK, Stamped, AfterLookup, InInit, InCall, Locked, ShareContext, ctxVars,
       genVars, cacheVars, callVars
  <2> QED BY <2>1, <2>2, <2>3 DEF Stamped
<1>8. Answered'
  BY ResultsDistinct DEF IInv, Ownership, Answered, NoStaleHandle, Usable, InCall, Locked,
     ShareContext, ctxVars, callVars
<1>9. Counted'
  BY DEF IInv, Counted, ShareContext, cacheVars
<1> QED BY <1>1, <1>2, <1>3, <1>4, <1>5, <1>6, <1>7, <1>8, <1>9 DEF IInv

\* Entering a loader preserves the invariant.
LEMMA CallStep ==
  ASSUME IInv, NEW t \in Threads, NEW p \in Paths, NEW k \in Keys, Call(t, p, k)
  PROVE  IInv'
<1>a. /\ MySlot(t) \in Slot
      /\ MySlot(t)[1] = path[t] /\ MySlot(t)[2] = gen[t] /\ MySlot(t)[3] = key[t]
  BY SlotFacts DEF IInv
<1>1. TypeOK'
  BY SlotParts, ConstantsOK DEF IInv, TypeOK, InCall, Call, ctxVars, genVars, cacheVars, lockVars
<1>2. Ownership'
  BY DEF IInv, Ownership, InInit, InCall, Locked, Call, ctxVars
<1>3. Locking'
  BY DEF IInv, TypeOK, Locking, MySlot, Locked, Call, cacheVars, lockVars, callVars
<1>4. Mapped'
  BY DEF IInv, Mapped, InCall, Locked, Call, cacheVars, callVars
<1>5. Keyed'
  BY DEF IInv, Keyed, Call, ctxVars, cacheVars
<1>6. Drawn'
  BY DEF IInv, TypeOK, Drawn, InCall, Locked, Call, ctxVars, genVars, cacheVars, callVars
<1>7. Stamped'
  BY DEF IInv, TypeOK, Stamped, AfterLookup, InInit, InCall, Locked, Call, ctxVars, genVars,
     cacheVars, callVars
<1>8. Answered'
  BY ResultsDistinct DEF IInv, TypeOK, Answered, NoStaleHandle, Usable, Call, ctxVars
<1>9. Counted'
  BY DEF IInv, Counted, Call, cacheVars
<1> QED BY <1>1, <1>2, <1>3, <1>4, <1>5, <1>6, <1>7, <1>8, <1>9 DEF IInv

\* The checks of init_device preserve the invariant.
LEMMA InitDeviceIsSm121Step ==
  ASSUME IInv, NEW t \in Threads, InitDeviceIsSm121(t)
  PROVE  IInv'
<1>a. /\ MySlot(t) \in Slot
      /\ MySlot(t)[1] = path[t] /\ MySlot(t)[2] = gen[t] /\ MySlot(t)[3] = key[t]
  BY SlotFacts DEF IInv
<1>1. TypeOK'
  BY DEF IInv, TypeOK, InInit, InitDeviceIsSm121, ctxVars, genVars, cacheVars, lockVars, callVars
<1>2. Ownership'
  BY DEF IInv, Ownership, InInit, InCall, Locked, InitDeviceIsSm121, ctxVars
<1>3. Locking'
  BY DEF IInv, TypeOK, Locking, MySlot, Locked, InitDeviceIsSm121, cacheVars, lockVars, callVars
<1>4. Mapped'
  BY DEF IInv, Mapped, InCall, Locked, InitDeviceIsSm121, cacheVars, callVars
<1>5. Keyed'
  BY DEF IInv, Keyed, InitDeviceIsSm121, ctxVars, cacheVars
<1>6. Drawn'
  BY DEF IInv, TypeOK, Drawn, InCall, Locked, InitDeviceIsSm121, ctxVars, genVars, cacheVars,
     callVars
<1>7. Stamped'
  BY DEF IInv, TypeOK, Stamped, AfterLookup, InInit, InCall, Locked, InitDeviceIsSm121, ctxVars,
     genVars, cacheVars, callVars
<1>8. Answered'
  BY DEF IInv, Ownership, Answered, NoStaleHandle, Usable, InCall, Locked, InitDeviceIsSm121,
     ctxVars, callVars
<1>9. Counted'
  BY DEF IInv, Counted, InitDeviceIsSm121, cacheVars
<1> QED BY <1>1, <1>2, <1>3, <1>4, <1>5, <1>6, <1>7, <1>8, <1>9 DEF IInv

\* Drawing a generation for the context preserves the invariant: the new number is
\* not yet in the registry, in the map or in a load.
LEMMA DrawGenerationStep ==
  ASSUME IInv, NEW t \in Threads, DrawGeneration(t)
  PROVE  IInv'
<1>a. /\ MySlot(t) \in Slot
      /\ MySlot(t)[1] = path[t] /\ MySlot(t)[2] = gen[t] /\ MySlot(t)[3] = key[t]
  BY SlotFacts DEF IInv
<1>b. /\ nextGen \in Nat \ {0} /\ nextGen' = nextGen + 1
      /\ gen' = [gen EXCEPT ![t] = nextGen] /\ cache' = cache /\ live' = live
      /\ \A g \in Gens : g # nextGen => stampedFor'[g] = stampedFor[g]
  BY ConstantsOK DEF IInv, TypeOK, DrawGeneration, cacheVars, ctxVars
<1>1. TypeOK'
  <2>1. /\ nextGen \in Gens /\ nextGen' \in 1 .. MaxGen + 1
        /\ gen' \in [Threads -> Gens] /\ stampedFor' \in [Gens -> Insts]
        /\ pc' \in [Threads -> {"out", "have"} \cup InInit \cup InCall]
    BY ConstantsOK DEF IInv, TypeOK, Gens, InInit, DrawGeneration
  <2> QED BY <2>1 DEF IInv, TypeOK, DrawGeneration, ctxVars, cacheVars, lockVars, callVars
<1>2. Ownership'
  BY DEF IInv, Ownership, InInit, InCall, Locked, DrawGeneration, ctxVars
<1>3. Locking'
  BY DEF IInv, TypeOK, Locking, MySlot, Locked, DrawGeneration, cacheVars, lockVars, callVars
<1>4. Mapped'
  BY DEF IInv, Mapped, InCall, Locked, DrawGeneration, cacheVars, callVars
<1>5. Keyed'
  BY DEF IInv, Keyed, DrawGeneration, ctxVars, cacheVars
<1>6. Drawn'
  <2>1. \A a \in Addrs : reg'[a] < nextGen'
    BY DEF IInv, TypeOK, Drawn, Gens, DrawGeneration
  <2>2. \A g \in Gens : stampedFor'[g] <= born'
    BY DEF IInv, Ownership, Drawn, DrawGeneration, ctxVars
  <2>3. \A s \in Slot : cache'[s] # NoHandle => s[2] < nextGen' /\ (s[1] = "fn" => s[2] = 0)
    BY <1>b, SlotParts DEF IInv, Drawn, Gens
  <2>4. ASSUME NEW u \in Threads
        PROVE  /\ gen'[u] < nextGen'
               /\ path'[u] = "fn" /\ pc'[u] \in InCall => gen'[u] = 0 /\ pc'[u] # "lookup"
               /\ pc'[u] \in {"ensure", "create", "lookup"} => gen'[u] = 0
    <3>1. gen[u] \in Nat /\ gen[u] < nextGen
      BY DEF IInv, TypeOK, Drawn, Gens
    <3>2. gen'[u] < nextGen'
      BY <1>b, <3>1 DEF IInv, TypeOK
    <3>3. pc'[u] \in InCall => u # t /\ pc'[u] = pc[u]
      BY DEF IInv, TypeOK, DrawGeneration, InCall, Locked
    <3> QED BY <1>b, <3>2, <3>3 DEF IInv, TypeOK, Drawn, DrawGeneration, callVars
  <2>5. ASSUME NEW u \in Threads, pc'[u] = "stamp"
        PROVE  gen'[u] # 0 /\ stampedFor'[gen'[u]] = live'
    <3>1. /\ nextGen \in Gens /\ nextGen # 0 /\ live' = live
          /\ stampedFor' = [stampedFor EXCEPT ![nextGen] = live]
      BY ConstantsOK DEF IInv, TypeOK, Gens, DrawGeneration, ctxVars
    <3>2. CASE u = t
      <4>1. gen'[t] = nextGen
        BY DEF IInv, TypeOK, DrawGeneration
      <4> QED BY <3>1, <3>2, <4>1 DEF IInv, TypeOK
    <3>3. CASE u # t
      <4>1. gen'[u] = gen[u] /\ pc[u] = "stamp"
        BY <2>5, <3>3 DEF IInv, TypeOK, DrawGeneration
      <4>2. gen[u] # 0 /\ stampedFor[gen[u]] = live /\ gen[u] \in Gens /\ gen[u] # nextGen
        <5>1. gen[u] \in Nat /\ nextGen \in Nat /\ gen[u] < nextGen
          BY DEF IInv, TypeOK, Drawn, Gens
        <5> QED BY <4>1, <5>1 DEF IInv, TypeOK, Drawn
      <4> QED BY <3>1, <4>1, <4>2 DEF IInv, TypeOK
    <3> QED BY <3>2, <3>3
  <2> QED BY <2>1, <2>2, <2>3, <2>4, <2>5 DEF Drawn
<1>7. Stamped'
  <2>1. ASSUME NEW u \in Threads, hold'[u] = "init", pc'[u] \notin InInit
        PROVE  reg'[where'] # 0 /\ stampedFor'[reg'[where']] = live'
    BY <2>1 DEF IInv, TypeOK, Stamped, AfterLookup, InInit, InCall, Locked, DrawGeneration, ctxVars,
       genVars, cacheVars, callVars
  <2>2. ASSUME NEW u \in Threads, hold'[u] = "init", path'[u] = "raw", pc'[u] \in AfterLookup
        PROVE  gen'[u] # 0 /\ stampedFor'[gen'[u]] = live'
    BY <2>2 DEF IInv, TypeOK, Stamped, AfterLookup, InInit, InCall, Locked, DrawGeneration, ctxVars,
       genVars, cacheVars, callVars
  <2>3. ASSUME NEW s \in Slot, cache'[s] # NoHandle, live' # 0, s[1] = "raw", s[2] # 0,
               stampedFor'[s[2]] = live'
        PROVE  cache'[s].inst = live'
    BY <2>3, <1>b, SlotParts DEF IInv, Drawn, Stamped
  <2> QED BY <2>1, <2>2, <2>3 DEF Stamped
<1>8. Answered'
  BY ResultsDistinct DEF IInv, Ownership, Answered, NoStaleHandle, Usable, InCall, Locked,
     DrawGeneration, ctxVars, callVars
<1>9. Counted'
  BY DEF IInv, Counted, DrawGeneration, cacheVars
<1> QED BY <1>1, <1>2, <1>3, <1>4, <1>5, <1>6, <1>7, <1>8, <1>9 DEF IInv

\* Storing the generation preserves the invariant, whichever of two init_device calls
\* stores last: both numbers were drawn for the context alive.
LEMMA StoreGenerationStep ==
  ASSUME IInv, NEW t \in Threads, StoreGeneration(t)
  PROVE  IInv'
<1>a. /\ MySlot(t) \in Slot
      /\ MySlot(t)[1] = path[t] /\ MySlot(t)[2] = gen[t] /\ MySlot(t)[3] = key[t]
  BY SlotFacts DEF IInv
<1>1. TypeOK'
  BY DEF IInv, TypeOK, StoreGeneration, ctxVars, cacheVars, lockVars, callVars
<1>2. Ownership'
  BY DEF IInv, Ownership, InInit, InCall, Locked, StoreGeneration, ctxVars
<1>3. Locking'
  BY DEF IInv, TypeOK, Locking, MySlot, Locked, StoreGeneration, cacheVars, lockVars, callVars
<1>4. Mapped'
  BY DEF IInv, Mapped, InCall, Locked, StoreGeneration, cacheVars, callVars
<1>5. Keyed'
  BY DEF IInv, Keyed, StoreGeneration, ctxVars, cacheVars
<1>6. Drawn'
  BY DEF IInv, TypeOK, Drawn, InCall, Locked, StoreGeneration, ctxVars, genVars, cacheVars, callVars
<1>7. Stamped'
  BY <1>a, SlotParts, ConstantsOK, ResultsDistinct DEF IInv, TypeOK, Ownership, Drawn, Stamped,
     AfterLookup, Gens, Insts, Handle, InInit, InCall, Locked, StoreGeneration, ctxVars, genVars,
     cacheVars, lockVars, callVars
<1>8. Answered'
  BY DEF IInv, Ownership, Answered, NoStaleHandle, Usable, InCall, Locked, StoreGeneration, ctxVars,
     callVars
<1>9. Counted'
  BY DEF IInv, Counted, StoreGeneration, cacheVars
<1> QED BY <1>1, <1>2, <1>3, <1>4, <1>5, <1>6, <1>7, <1>8, <1>9 DEF IInv

\* The first look of ensure_cache preserves the invariant.
LEMMA EnsureReadStep ==
  ASSUME IInv, NEW t \in Threads, EnsureRead(t)
  PROVE  IInv'
<1>a. /\ MySlot(t) \in Slot
      /\ MySlot(t)[1] = path[t] /\ MySlot(t)[2] = gen[t] /\ MySlot(t)[3] = key[t]
  BY SlotFacts DEF IInv
<1>1. TypeOK'
  BY DEF IInv, TypeOK, InCall, EnsureRead, EnsureNext, AfterEnsure, Goto, ctxVars, genVars,
     cacheVars, lockVars, callVars
<1>2. Ownership'
  BY DEF IInv, Ownership, InInit, InCall, Locked, EnsureRead, EnsureNext, AfterEnsure, Goto, ctxVars
<1>3. Locking'
  BY DEF IInv, TypeOK, Locking, MySlot, Locked, EnsureRead, EnsureNext, AfterEnsure, Goto,
     cacheVars, lockVars, callVars
<1>4. Mapped'
  BY DEF IInv, Mapped, InCall, Locked, EnsureRead, EnsureNext, AfterEnsure, Goto, cacheVars,
     callVars
<1>5. Keyed'
  BY DEF IInv, Keyed, EnsureRead, EnsureNext, AfterEnsure, Goto, ctxVars, cacheVars
<1>6. Drawn'
  BY DEF IInv, TypeOK, Drawn, InCall, Locked, EnsureRead, EnsureNext, AfterEnsure, Goto, ctxVars,
     genVars, cacheVars, callVars
<1>7. Stamped'
  BY DEF IInv, TypeOK, Stamped, AfterLookup, InInit, InCall, Locked, EnsureRead, EnsureNext,
     AfterEnsure, Goto, ctxVars, genVars, cacheVars, callVars
<1>8. Answered'
  BY DEF IInv, Ownership, Answered, NoStaleHandle, Usable, InCall, Locked, EnsureRead, EnsureNext,
     AfterEnsure, Goto, ctxVars, callVars
<1>9. Counted'
  BY DEF IInv, Counted, EnsureRead, EnsureNext, AfterEnsure, Goto, cacheVars
<1> QED BY <1>1, <1>2, <1>3, <1>4, <1>5, <1>6, <1>7, <1>8, <1>9 DEF IInv

\* Creating the map preserves the invariant, also when another thread has created and
\* filled it in between.
LEMMA EnsureWriteStep ==
  ASSUME IInv, NEW t \in Threads, EnsureWrite(t)
  PROVE  IInv'
<1>a. /\ MySlot(t) \in Slot
      /\ MySlot(t)[1] = path[t] /\ MySlot(t)[2] = gen[t] /\ MySlot(t)[3] = key[t]
  BY SlotFacts DEF IInv
<1>1. TypeOK'
  BY DEF IInv, TypeOK, InCall, EnsureWrite, MapCreated, EmptyMap, AfterEnsure, Goto, ctxVars,
     genVars, lockVars, callVars
<1>2. Ownership'
  BY DEF IInv, Ownership, InInit, InCall, Locked, EnsureWrite, MapCreated, EmptyMap, AfterEnsure,
     Goto, ctxVars
<1>3. Locking'
  <2>1. cache' = cache
    BY DEF IInv, TypeOK, Mapped, EnsureWrite, MapCreated, EmptyMap
  <2> QED BY <2>1 DEF IInv, TypeOK, Locking, MySlot, Locked, EnsureWrite, MapCreated, EmptyMap,
             AfterEnsure, Goto, cacheVars, lockVars, callVars
<1>4. Mapped'
  BY <1>a DEF IInv, TypeOK, Mapped, InCall, Locked, EnsureWrite, MapCreated, EmptyMap, AfterEnsure,
     Goto, cacheVars, callVars
<1>5. Keyed'
  BY DEF IInv, Keyed, EnsureWrite, MapCreated, EmptyMap, AfterEnsure, Goto, ctxVars, cacheVars
<1>6. Drawn'
  BY DEF IInv, TypeOK, Drawn, InCall, Locked, EnsureWrite, MapCreated, EmptyMap, AfterEnsure, Goto,
     ctxVars, genVars, cacheVars, callVars
<1>7. Stamped'
  <2>1. cache' = cache
    BY DEF IInv, TypeOK, Mapped, EnsureWrite, MapCreated, EmptyMap
  <2>2. ASSUME NEW u \in Threads
        PROVE  /\ pc'[u] \in InInit <=> pc[u] \in InInit
               /\ path[u] = "raw" /\ pc'[u] \in AfterLookup => pc[u] \in AfterLookup
    BY DEF IInv, TypeOK, EnsureWrite, AfterEnsure, Goto, AfterLookup, InInit, InCall, Locked
  <2> QED BY <2>1, <2>2 DEF IInv, Stamped, EnsureWrite, ctxVars, genVars, callVars
<1>8. Answered'
  BY DEF IInv, Ownership, Answered, NoStaleHandle, Usable, InCall, Locked, EnsureWrite, MapCreated,
     EmptyMap, AfterEnsure, Goto, ctxVars, callVars
<1>9. Counted'
  BY DEF IInv, Counted, Mapped, EnsureWrite, MapCreated, EmptyMap
<1> QED BY <1>1, <1>2, <1>3, <1>4, <1>5, <1>6, <1>7, <1>8, <1>9 DEF IInv

\* Reading the generation of the context preserves the invariant: under an init_device
\* context it was drawn for that context.
LEMMA ContextGenerationStep ==
  ASSUME IInv, NEW t \in Threads, ContextGeneration(t)
  PROVE  IInv'
<1>a. /\ MySlot(t) \in Slot
      /\ MySlot(t)[1] = path[t] /\ MySlot(t)[2] = gen[t] /\ MySlot(t)[3] = key[t]
  BY SlotFacts DEF IInv
<1>1. TypeOK'
  BY DEF IInv, TypeOK, InCall, ContextGeneration, Goto, ctxVars, genVars, cacheVars, lockVars,
     callVars
<1>2. Ownership'
  BY DEF IInv, Ownership, InInit, InCall, Locked, ContextGeneration, Goto, ctxVars
<1>3. Locking'
  BY DEF IInv, TypeOK, Locking, MySlot, Locked, ContextGeneration, Goto, cacheVars, lockVars,
     callVars
<1>4. Mapped'
  BY DEF IInv, Mapped, InCall, Locked, ContextGeneration, Goto, cacheVars, callVars
<1>5. Keyed'
  BY DEF IInv, Keyed, ContextGeneration, Goto, ctxVars, cacheVars
<1>6. Drawn'
  <2>1. \A a \in Addrs : reg'[a] < nextGen'
    BY DEF IInv, TypeOK, Drawn, InCall, Locked, ContextGeneration, Goto, ctxVars, genVars,
       cacheVars, callVars
  <2>2. \A g \in Gens : stampedFor'[g] <= born'
    BY DEF IInv, TypeOK, Drawn, InCall, Locked, ContextGeneration, Goto, ctxVars, genVars,
       cacheVars, callVars
  <2>3. \A s \in Slot : cache'[s] # NoHandle => s[2] < nextGen' /\ (s[1] = "fn" => s[2] = 0)
    BY DEF IInv, TypeOK, Drawn, InCall, Locked, ContextGeneration, Goto, ctxVars, genVars,
       cacheVars, callVars
  <2>4. ASSUME NEW u \in Threads
        PROVE  /\ gen'[u] < nextGen'
               /\ path'[u] = "fn" /\ pc'[u] \in InCall => gen'[u] = 0 /\ pc'[u] # "lookup"
               /\ pc'[u] \in {"ensure", "create", "lookup"} => gen'[u] = 0
    BY <2>4 DEF IInv, TypeOK, Drawn, InCall, Locked, ContextGeneration, Goto, ctxVars, genVars,
       cacheVars, callVars
  <2>5. ASSUME NEW u \in Threads, pc'[u] = "stamp"
        PROVE  gen'[u] # 0 /\ stampedFor'[gen'[u]] = live'
    BY <2>5 DEF IInv, TypeOK, Drawn, InCall, Locked, ContextGeneration, Goto, ctxVars, genVars,
       cacheVars, callVars
  <2> QED BY <2>1, <2>2, <2>3, <2>4, <2>5 DEF Drawn
<1>7. Stamped'
  BY DEF IInv, TypeOK, Stamped, AfterLookup, InInit, InCall, Locked, ContextGeneration, Goto,
     ctxVars, genVars, cacheVars, callVars
<1>8. Answered'
  BY ResultsDistinct DEF IInv, Ownership, Answered, NoStaleHandle, Usable, InCall, Locked,
     ContextGeneration, Goto, ctxVars, callVars
<1>9. Counted'
  BY DEF IInv, Counted, ContextGeneration, Goto, cacheVars
<1> QED BY <1>1, <1>2, <1>3, <1>4, <1>5, <1>6, <1>7, <1>8, <1>9 DEF IInv

\* Taking the read lock preserves the invariant.
LEMMA LockReadStep ==
  ASSUME IInv, NEW t \in Threads, LockRead(t)
  PROVE  IInv'
<1>a. /\ MySlot(t) \in Slot
      /\ MySlot(t)[1] = path[t] /\ MySlot(t)[2] = gen[t] /\ MySlot(t)[3] = key[t]
  BY SlotFacts DEF IInv
<1>1. TypeOK'
  BY DEF IInv, TypeOK, InCall, LockRead, Goto, ctxVars, genVars, cacheVars, callVars
<1>2. Ownership'
  BY DEF IInv, Ownership, InInit, InCall, Locked, LockRead, Goto, ctxVars
<1>3. Locking'
  BY DEF IInv, TypeOK, Locking, MySlot, Locked, LockRead, Goto, cacheVars, lockVars, callVars
<1>4. Mapped'
  BY DEF IInv, Mapped, InCall, Locked, LockRead, Goto, cacheVars, callVars
<1>5. Keyed'
  BY DEF IInv, Keyed, LockRead, Goto, ctxVars, cacheVars
<1>6. Drawn'
  BY DEF IInv, TypeOK, Drawn, InCall, Locked, LockRead, Goto, ctxVars, genVars, cacheVars, callVars
<1>7. Stamped'
  <2>1. ASSUME NEW u \in Threads
        PROVE  /\ pc'[u] \in InInit <=> pc[u] \in InInit
               /\ pc'[u] \in AfterLookup => pc[u] \in AfterLookup
    BY DEF IInv, TypeOK, LockRead, Goto, AfterLookup, InInit, InCall, Locked
  <2> QED BY <2>1 DEF IInv, Stamped, LockRead, ctxVars, genVars, cacheVars, callVars
<1>8. Answered'
  BY DEF IInv, Ownership, Answered, NoStaleHandle, Usable, InCall, Locked, LockRead, Goto, ctxVars,
     callVars
<1>9. Counted'
  BY DEF IInv, Counted, LockRead, Goto, cacheVars
<1> QED BY <1>1, <1>2, <1>3, <1>4, <1>5, <1>6, <1>7, <1>8, <1>9 DEF IInv

\* Taking the write lock preserves the invariant.
LEMMA LockWriteStep ==
  ASSUME IInv, NEW t \in Threads, LockWrite(t)
  PROVE  IInv'
<1>a. /\ MySlot(t) \in Slot
      /\ MySlot(t)[1] = path[t] /\ MySlot(t)[2] = gen[t] /\ MySlot(t)[3] = key[t]
  BY SlotFacts DEF IInv
<1>1. TypeOK'
  BY DEF IInv, TypeOK, InCall, Locked, LockWrite, Goto, ctxVars, genVars, cacheVars, callVars
<1>2. Ownership'
  BY DEF IInv, Ownership, InInit, InCall, Locked, LockWrite, Goto, ctxVars
<1>3. Locking'
  BY ConstantsOK DEF IInv, TypeOK, Locking, MySlot, LockWrite, Goto, cacheVars, callVars
<1>4. Mapped'
  BY DEF IInv, Mapped, InCall, Locked, LockWrite, Goto, cacheVars, callVars
<1>5. Keyed'
  BY DEF IInv, Keyed, LockWrite, Goto, ctxVars, cacheVars
<1>6. Drawn'
  BY DEF IInv, TypeOK, Drawn, InCall, Locked, LockWrite, Goto, ctxVars, genVars, cacheVars, callVars
<1>7. Stamped'
  BY DEF IInv, TypeOK, Stamped, AfterLookup, InInit, InCall, Locked, LockWrite, Goto, ctxVars,
     genVars, cacheVars, callVars
<1>8. Answered'
  BY DEF IInv, Ownership, Answered, NoStaleHandle, Usable, InCall, Locked, LockWrite, Goto, ctxVars,
     callVars
<1>9. Counted'
  BY DEF IInv, Counted, LockWrite, Goto, cacheVars
<1> QED BY <1>1, <1>2, <1>3, <1>4, <1>5, <1>6, <1>7, <1>8, <1>9 DEF IInv

\* The look under the read lock preserves the invariant.
LEMMA FastPathStep ==
  ASSUME IInv, NEW t \in Threads, FastPath(t)
  PROVE  IInv'
<1>0. readers' \in [Caches -> SUBSET Threads]
  BY DEF IInv, TypeOK, FastPath
<1>1. CASE Hit(t) /\ Return(t, cache[MySlot(t)])
  BY <1>0, <1>1, HitStep DEF FastPath, cacheVars
<1>2. CASE ~Hit(t) /\ Goto(t, "slow")
  <2>a. /\ MySlot(t) \in Slot
        /\ MySlot(t)[1] = path[t] /\ MySlot(t)[2] = gen[t] /\ MySlot(t)[3] = key[t]
    BY SlotFacts DEF IInv
  <2>1. TypeOK'
    BY <1>2 DEF IInv, TypeOK, InCall, FastPath, Goto, ctxVars, genVars, cacheVars, callVars
  <2>2. Ownership'
    BY <1>2 DEF IInv, Ownership, InInit, FastPath, Goto, ctxVars
  <2>3. Locking'
    BY <1>2 DEF IInv, Locking, MySlot, Locked, FastPath, Goto, cacheVars, callVars
  <2>4. Mapped'
    BY <1>2 DEF IInv, Mapped, InCall, FastPath, Goto, cacheVars, callVars
  <2>5. Keyed'
    BY DEF IInv, Keyed, FastPath, ctxVars, cacheVars
  <2>6. Drawn'
    BY <1>2 DEF IInv, Drawn, InCall, FastPath, Goto, ctxVars, genVars, cacheVars, callVars
  <2>7. Stamped'
    BY <1>2, <2>a, SlotParts, ConstantsOK, ResultsDistinct DEF IInv, TypeOK, Ownership, Drawn,
       Stamped, AfterLookup, Gens, Insts, Handle, InInit, InCall, Locked, FastPath, Goto, ctxVars,
       genVars, cacheVars, lockVars, callVars
  <2>8. Answered'
    BY <1>2 DEF IInv, Answered, NoStaleHandle, Usable, FastPath, Goto, ctxVars, callVars
  <2>9. Counted'
    BY DEF IInv, Counted, FastPath, cacheVars
  <2> QED BY <2>1, <2>2, <2>3, <2>4, <2>5, <2>6, <2>7, <2>8, <2>9 DEF IInv
<1> QED BY <1>1, <1>2 DEF FastPath

\* The second look, under the write lock, preserves the invariant; a removed entry is
\* none of those counted.
LEMMA RecheckStep ==
  ASSUME IInv, NEW t \in Threads, Recheck(t)
  PROVE  IInv'
<1>1. CASE Hit(t) /\ Return(t, cache[MySlot(t)]) /\ UnlockWrite(t) /\ UNCHANGED cache
  BY <1>1, HitStep DEF IInv, TypeOK, Recheck, cacheVars, UnlockWrite
<1>2. CASE /\ ~Hit(t)
          /\ cache' = [cache EXCEPT ![MySlot(t)] = NoHandle]
          /\ Goto(t, "embed")
          /\ UNCHANGED lockVars
  <2>a. /\ MySlot(t) \in Slot
        /\ MySlot(t)[1] = path[t] /\ MySlot(t)[2] = gen[t] /\ MySlot(t)[3] = key[t]
    BY SlotFacts DEF IInv
  <2>b. /\ cache'[MySlot(t)] = NoHandle
        /\ \A s \in Slot : cache'[s] # NoHandle => cache'[s] = cache[s]
        /\ \A s \in Slot : ~Probed(s) => cache'[s] = cache[s]
    BY <1>2, <2>a, SlotParts DEF IInv, TypeOK, Hit, Probed, Caches
  <2>1. TypeOK'
    BY <1>2 DEF IInv, TypeOK, InCall, Locked, Recheck, Goto, ctxVars, genVars, lockVars, callVars
  <2>2. Ownership'
    BY <1>2 DEF IInv, Ownership, InInit, Recheck, Goto, ctxVars
  <2>3. Locking'
    <3>1. \A u \in Threads : MySlot(u)' = MySlot(u) /\ MySlot(u) \in Slot
      BY SlotFacts DEF IInv, Recheck, MySlot, callVars
    <3>2. ASSUME NEW u \in Threads, pc'[u] \in Locked
          PROVE  /\ writer'[path'[u]] = u
                 /\ pc'[u] # "recheck" => cache'[MySlot(u)'] = NoHandle
      BY <1>2, <2>b, <3>1, <3>2 DEF IInv, Locking, Recheck, Goto, Locked, lockVars, callVars
    <3> QED BY <3>2 DEF Locking
  <2>4. Mapped'
    BY <1>2 DEF IInv, Mapped, InCall, Locked, Recheck, Goto, callVars
  <2>5. Keyed'
    BY <1>2 DEF IInv, Keyed, Recheck, ctxVars
  <2>6. Drawn'
    BY <1>2 DEF IInv, Drawn, InCall, Locked, Recheck, Goto, ctxVars, genVars, callVars
  <2>7. Stamped'
    <3>1. ASSUME NEW u \in Threads
          PROVE  /\ pc'[u] \in InInit <=> pc[u] \in InInit
                 /\ pc'[u] \in AfterLookup <=> pc[u] \in AfterLookup
      BY <1>2 DEF IInv, TypeOK, Recheck, Goto, AfterLookup, InInit, InCall, Locked
    <3> QED BY <2>b, <3>1 DEF IInv, Stamped, Recheck, ctxVars, genVars, callVars
  <2>8. Answered'
    BY <1>2 DEF IInv, Answered, NoStaleHandle, Usable, Recheck, Goto, ctxVars, callVars
  <2>9. Counted'
    BY <2>b DEF IInv, Counted, Recheck
  <2> QED BY <2>1, <2>2, <2>3, <2>4, <2>5, <2>6, <2>7, <2>8, <2>9 DEF IInv
<1> QED BY <1>1, <1>2 DEF Recheck

\* Writing the cubin preserves the invariant.
LEMMA WriteCubinStep ==
  ASSUME IInv, NEW t \in Threads, WriteCubin(t)
  PROVE  IInv'
<1>1. file' \in [TempFiles -> {"absent", "partial", "whole"}]
  BY DEF IInv, TypeOK, WriteCubin, WriteFile
<1>2. CASE Fail(t)
  BY <1>1, <1>2, FailStep DEF WriteCubin, Locked
<1>3. CASE Goto(t, "load") /\ UNCHANGED lockVars
  BY <1>1, <1>3, AdvanceStep DEF WriteCubin, Locked
<1> QED BY <1>2, <1>3 DEF WriteCubin, WriteFile

\* Loading the cubin preserves the invariant.
LEMMA LoadCubinStep ==
  ASSUME IInv, NEW t \in Threads, LoadCubin(t)
  PROVE  IInv'
<1>1. file' \in [TempFiles -> {"absent", "partial", "whole"}]
  BY DEF IInv, TypeOK, LoadCubin, Removed
<1>2. PICK l \in {"getfn", "jit"} : Goto(t, l)
  BY DEF LoadCubin
<1> QED BY <1>1, <1>2, AdvanceStep DEF LoadCubin, Locked

\* Writing the PTX preserves the invariant.
LEMMA WritePtxStep ==
  ASSUME IInv, NEW t \in Threads, WritePtx(t)
  PROVE  IInv'
<1>1. file' \in [TempFiles -> {"absent", "partial", "whole"}]
  BY DEF IInv, TypeOK, WritePtx, WriteFile
<1>2. CASE Fail(t)
  BY <1>1, <1>2, FailStep DEF WritePtx, Locked
<1>3. CASE Goto(t, "loadPtx") /\ UNCHANGED lockVars
  BY <1>1, <1>3, AdvanceStep DEF WritePtx, Locked
<1> QED BY <1>2, <1>3 DEF WritePtx, WriteFile

\* The JIT fallback preserves the invariant.
LEMMA LoadPtxStep ==
  ASSUME IInv, NEW t \in Threads, LoadPtx(t)
  PROVE  IInv'
<1>1. file' \in [TempFiles -> {"absent", "partial", "whole"}]
  BY DEF IInv, TypeOK, LoadPtx, Removed
<1>2. CASE Fail(t)
  BY <1>1, <1>2, FailStep DEF LoadPtx, Locked
<1>3. CASE Goto(t, "getfn") /\ UNCHANGED lockVars
  BY <1>1, <1>3, AdvanceStep DEF LoadPtx, Locked
<1> QED BY <1>2, <1>3 DEF LoadPtx

\* Inserting the function of the caller's context preserves the invariant: the slot was
\* empty, and its generation is the context's or zero.
LEMMA GetFunctionStep ==
  ASSUME IInv, NEW t \in Threads, GetFunction(t)
  PROVE  IInv'
<1> DEFINE h == [inst |-> live, key |-> key[t]]
<1>1. CASE Fail(t) /\ UNCHANGED <<cache, loads>>
  <2>1. file' \in [TempFiles -> {"absent", "partial", "whole"}]
    BY DEF IInv, TypeOK, GetFunction
  <2> QED BY <1>1, <2>1, FailStep DEF GetFunction, Locked, cacheVars
<1>2. CASE /\ cache' = [cache EXCEPT ![MySlot(t)] = h]
          /\ loads' = [loads EXCEPT ![MySlot(t)] = @ + 1]
          /\ Return(t, h)
          /\ UnlockWrite(t)
  <2>0. h \in Handle /\ h # NoHandle /\ h.inst = live /\ h.key = key[t]
    BY ResultsDistinct DEF IInv, TypeOK, Ownership, GetFunction, Handle
  <2>a. /\ MySlot(t) \in Slot
        /\ MySlot(t)[1] = path[t] /\ MySlot(t)[2] = gen[t] /\ MySlot(t)[3] = key[t]
    BY SlotFacts DEF IInv
  <2>b. /\ cache'[MySlot(t)] = h
        /\ \A s \in Slot : s # MySlot(t) => cache'[s] = cache[s]
    BY <1>2, <2>a DEF IInv, TypeOK
  <2>1. TypeOK'
    <3>1. /\ cache' \in [Slot -> Handle \cup {NoHandle}] /\ loads' \in [Slot -> Nat]
          /\ ret' \in [Threads -> Handle \cup {NoHandle, Err}]
          /\ pc' \in [Threads -> {"out", "have"} \cup InInit \cup InCall]
          /\ writer' \in [Caches -> Threads \cup {NoThread}] /\ readers' = readers
      BY <1>2, <2>0, <2>a DEF IInv, TypeOK, Return, UnlockWrite
    <3> QED BY <3>1 DEF IInv, TypeOK, GetFunction, ctxVars, genVars, callVars
  <2>2. Ownership'
    BY <1>2 DEF IInv, Ownership, InInit, GetFunction, Return, ctxVars
  <2>3. Locking'
    BY <1>2 DEF IInv, TypeOK, Locking, MySlot, Locked, GetFunction, Return, UnlockWrite, callVars
  <2>4. Mapped'
    BY <1>2, <2>a DEF IInv, Mapped, InCall, Locked, GetFunction, Return, callVars
  <2>5. Keyed'
    BY <1>2, <2>a DEF IInv, Keyed, GetFunction, ctxVars
  <2>6. Drawn'
    BY <1>2, <2>a DEF IInv, Drawn, InCall, Locked, GetFunction, Return, ctxVars, genVars, callVars
  <2>7. Stamped'
    <3>1. ASSUME NEW u \in Threads
          PROVE  /\ pc'[u] \in InInit <=> pc[u] \in InInit
                 /\ pc'[u] \in AfterLookup => pc[u] \in AfterLookup
      BY <1>2 DEF IInv, TypeOK, GetFunction, Return, AfterLookup, InInit, InCall, Locked
    <3>2. \A s \in Slot : cache'[s] # NoHandle => cache'[s] = cache[s] \/ cache'[s].inst = live
      BY <2>0, <2>b
    <3> QED BY <3>1, <3>2 DEF IInv, Stamped, GetFunction, ctxVars, genVars, callVars
  <2>8. Answered'
    BY <1>2 DEF IInv, TypeOK, Answered, NoStaleHandle, Usable, GetFunction, Return, ctxVars,
       callVars
  <2>9. Counted'
    BY <2>0 DEF IInv, TypeOK, Counted, Locking, Locked, GetFunction
  <2> QED BY <2>1, <2>2, <2>3, <2>4, <2>5, <2>6, <2>7, <2>8, <2>9 DEF IInv
<1> QED BY <1>1, <1>2 DEF GetFunction

\* The invariant holds before the first context is created.
LEMMA InitIInv == Init => IInv
<1> SUFFICES ASSUME Init PROVE IInv
  OBVIOUS
<1>1. (CHOOSE k \in Keys : TRUE) \in Keys
  BY ConstantsOK
<1>2. TypeOK
  BY <1>1, ConstantsOK, ResultsDistinct DEF Init, TypeOK, Insts, Gens, Caches
<1>3. Ownership /\ Locking /\ Mapped /\ Keyed
  BY DEF Init, Ownership, Locking, Mapped, Keyed, InInit, InCall, Locked, Insts
<1>4. Drawn
  BY SlotParts, ConstantsOK DEF Init, Drawn, InCall, Locked, Gens
<1>5. Stamped /\ Answered /\ Counted
  BY ResultsDistinct DEF Init, Stamped, Answered, NoStaleHandle, Usable, Counted
<1> QED BY <1>2, <1>3, <1>4, <1>5 DEF IInv

\* The invariant depends on the variables only.
LEMMA StutterStep ==
  ASSUME IInv, UNCHANGED vars
  PROVE  IInv'
<1>1. \A t \in Threads : MySlot(t)' = MySlot(t) /\ Usable(t)' = Usable(t)
  BY DEF vars, ctxVars, callVars, MySlot, Usable
<1>2. TypeOK' /\ Ownership' /\ Mapped' /\ Keyed'
  BY DEF IInv, vars, ctxVars, genVars, cacheVars, lockVars, callVars, TypeOK, Ownership, Mapped,
     Keyed
<1>3. Drawn' /\ Stamped' /\ Counted'
  BY DEF IInv, vars, ctxVars, genVars, cacheVars, lockVars, callVars, Drawn, Stamped, Counted
<1>4. Locking' /\ Answered'
  BY <1>1 DEF IInv, vars, cacheVars, lockVars, callVars, Locking, Answered, NoStaleHandle
<1> QED BY <1>2, <1>3, <1>4 DEF IInv

\* Every step of the caches, the context and their users preserves the invariant.
LEMMA NextStep ==
  ASSUME IInv, [Next]_vars
  PROVE  IInv'
<1>1. CASE UNCHANGED vars
  BY <1>1, StutterStep
<1>2. ASSUME NEW t \in Threads, ProgramStep(t)
      PROVE  IInv'
  <2>1. CASE \E how \in {"init", "foreign"} : NewContext(t, how)
    BY <2>1, NewContextStep
  <2>2. CASE NewContextFail(t)
    BY <2>2, StutterStep DEF NewContextFail
  <2>3. CASE DropContext(t)
    BY <2>3, DropContextStep
  <2>4. CASE \E u \in Threads : ShareContext(t, u)
    BY <2>4, ShareContextStep
  <2>5. CASE \E p \in Paths, k \in Keys : Call(t, p, k)
    BY <2>5, CallStep
  <2> QED BY <1>2, <2>1, <2>2, <2>3, <2>4, <2>5 DEF ProgramStep
<1>3. ASSUME NEW t \in Threads, InitDeviceStep(t)
      PROVE  IInv'
  BY <1>3, InitDeviceFailStep, InitDeviceIsSm121Step, DrawGenerationStep, StoreGenerationStep DEF
     InitDeviceStep
<1>4. ASSUME NEW t \in Threads, LoadStep(t)
      PROVE  IInv'
  BY <1>4, EnsureReadStep, EnsureWriteStep, ContextGenerationStep, LockReadStep, FastPathStep,
     LockWriteStep, RecheckStep, WriteCubinStep, LoadCubinStep, WritePtxStep, LoadPtxStep,
     GetFunctionStep DEF LoadStep
<1> QED BY <1>1, <1>2, <1>3, <1>4 DEF Next

\* The invariant holds in every reachable state, for any number of threads, keys,
\* addresses and generations.
THEOREM Inductive == Spec => []IInv
<1>1. IInv /\ [Next]_vars => IInv'
  BY NextStep
<1> QED BY InitIInv, <1>1, PTL DEF Spec

\* The variables of the caches keep their types.
THEOREM TypeCorrect == Spec => []TypeOK
<1>1. IInv => TypeOK
  BY DEF IInv
<1> QED BY Inductive, <1>1, PTL

\* A load never hands back a function of a destroyed context or of another kernel.
THEOREM HandlesAreLive == Spec => []NoStaleHandle
<1>1. IInv => NoStaleHandle
  BY DEF IInv, Answered
<1> QED BY Inductive, <1>1, PTL

\* Concurrent cold loads of one slot load it once.
THEOREM ColdLoadsDeduplicated == Spec => []LoadedOnce
<1>1. IInv => LoadedOnce
  BY DEF IInv, Counted, LoadedOnce
<1> QED BY Inductive, <1>1, PTL

\* A cached CudaFunction is of the context now alive.
THEOREM CachedFunctionPins == Spec => []FnEntriesPinContext
<1>1. IInv => FnEntriesPinContext
  BY SlotParts DEF IInv, Keyed, FnEntriesPinContext
<1> QED BY Inductive, <1>1, PTL

\* The unwrap of the map under the write lock never panics.
THEOREM MapUnwraps == Spec => []UnwrapFindsMap
<1>1. IInv => UnwrapFindsMap
  BY DEF IInv, Mapped, UnwrapFindsMap, Locked, InCall
<1> QED BY Inductive, <1>1, PTL

\* The write half of ensure_cache never empties a map that has entries.
LEMMA MapNeverEmptied ==
  ASSUME IInv, NEW t \in Threads, EnsureWrite(t)
  PROVE  cache' = cache
BY DEF IInv, TypeOK, Mapped, EnsureWrite, MapCreated, EmptyMap

\* One step removes or changes an entry only if it is a probed one of a dead context.
LEMMA EntriesStep ==
  ASSUME IInv, [Next]_vars, NEW s \in Slot, cache[s] # NoHandle, cache'[s] # cache[s]
  PROVE  Probed(s) /\ cache[s].inst # live
<1>1. ASSUME NEW t \in Threads, Recheck(t)
      PROVE  Probed(s) /\ cache[s].inst # live
  <2>1. ~Hit(t) /\ s = MySlot(t)
    BY <1>1, SlotFacts DEF IInv, TypeOK, Recheck
  <2>2. s[1] = path[t] /\ s[2] = gen[t]
    BY <2>1, SlotFacts DEF IInv
  <2> QED BY <2>1, <2>2 DEF IInv, TypeOK, Hit, FuncIsLive, Probed, Caches
<1>2. ASSUME NEW t \in Threads, GetFunction(t)
      PROVE  FALSE
  <2>1. cache[MySlot(t)] = NoHandle
    BY <1>2 DEF IInv, Locking, GetFunction, Locked
  <2> QED BY <1>2, <2>1 DEF IInv, TypeOK, GetFunction
<1>3. ASSUME NEW t \in Threads, EnsureWrite(t)
      PROVE  FALSE
  BY <1>3, MapNeverEmptied
<1>4. ASSUME NEW t \in Threads, ProgramStep(t) \/ InitDeviceStep(t)
      PROVE  FALSE
  BY <1>4 DEF ProgramStep, InitDeviceStep, NewContext, NewContextFail, DropContext, ShareContext,
     Call, InitDeviceFail, InitDeviceIsSm121, DrawGeneration, StoreGeneration, vars, cacheVars
<1>5. ASSUME NEW t \in Threads, LoadStep(t)
      PROVE  EnsureWrite(t) \/ Recheck(t) \/ GetFunction(t)
  BY <1>5 DEF LoadStep, EnsureRead, ContextGeneration, LockRead, FastPath, LockWrite, WriteCubin,
     LoadCubin, WritePtx, LoadPtx, cacheVars
<1> QED BY <1>1, <1>2, <1>3, <1>4, <1>5 DEF Next, vars, cacheVars

\* No race of creating, looking up and loading loses an entry of a cache.
THEOREM EntriesStay == Spec => EntriesOutliveRaces
<1>1. IInv /\ [Next]_vars =>
        [\A s \in Slot : cache[s] # NoHandle /\ cache'[s] # cache[s]
           => Probed(s) /\ cache[s].inst # live]_vars
  BY EntriesStep
<1> QED BY Inductive, <1>1, PTL DEF Spec, EntriesOutliveRaces

-----------------------------------------------------------------------------
(* The temporary files.                                                    *)

\* A file that is whole is about to be loaded by a load that holds the lock, or is
\* the PTX of a load_kernel whose JIT failed.
FilesOwned ==
  /\ LoadReadsWholeFile
  /\ \A p \in Caches, e \in {"cubin", "ptx"}, s \in Stems :
       file[TempPath(p, e, s)] = "whole" =>
         \/ p = "fn" /\ e = "ptx"
         \/ \E t \in Threads : /\ path[t] = p /\ Stem[key[t]] = s
                               /\ pc[t] = IF e = "cubin" THEN "load" ELSE "loadPtx"

\* One load of a cache at a time is past its write lock.
LEMMA OneHolder ==
  ASSUME IInv, NEW t \in Threads, NEW u \in Threads,
         pc[t] \in Locked, pc[u] \in Locked, path[t] = path[u]
  PROVE  t = u
BY DEF IInv, Locking

LEMMA FileFacts ==
  ASSUME TypeOK, NEW t \in Threads
  PROVE  /\ path[t] \in Caches /\ Stem[key[t]] \in Stems
         /\ MyFile(t, "cubin") \in TempFiles /\ MyFile(t, "ptx") \in TempFiles
  BY ConstantsOK DEF TypeOK, MyFile, TempFiles

\* Before a load writes a file there is no whole one in its place, a PTX that
\* load_kernel has left excepted.
LEMMA NothingInPlace ==
  ASSUME IInv, FilesOwned, NEW t \in Threads, pc[t] \in Locked
  PROVE  /\ file[MyFile(t, "cubin")] = "whole" => pc[t] = "load"
         /\ file[MyFile(t, "ptx")] = "whole" => pc[t] = "loadPtx" \/ path[t] = "fn"
<1>1. path[t] \in Caches /\ Stem[key[t]] \in Stems
  BY FileFacts DEF IInv
<1>2. ASSUME file[MyFile(t, "cubin")] = "whole" PROVE pc[t] = "load"
  <2>1. PICK u \in Threads : path[u] = path[t] /\ pc[u] = "load"
    BY <1>1, <1>2 DEF FilesOwned, MyFile
  <2> QED BY <2>1, OneHolder DEF Locked
<1>3. ASSUME file[MyFile(t, "ptx")] = "whole", path[t] # "fn" PROVE pc[t] = "loadPtx"
  <2>1. PICK u \in Threads : path[u] = path[t] /\ pc[u] = "loadPtx"
    BY <1>1, <1>3 DEF FilesOwned, MyFile
  <2> QED BY <2>1, OneHolder DEF Locked
<1> QED BY <1>2, <1>3

\* A step that touches no file and takes no thread to or from the loading of one.
LEMMA FilesUntouched ==
  ASSUME FilesOwned, file' = file,
         \A u \in Threads : \/ pc'[u] = pc[u] /\ path'[u] = path[u] /\ key'[u] = key[u]
                            \/ pc[u] \notin {"load", "loadPtx"} /\ pc'[u] \notin {"load", "loadPtx"}
  PROVE  FilesOwned'
<1>1. LoadReadsWholeFile'
  BY DEF FilesOwned, LoadReadsWholeFile, MyFile
<1>2. ASSUME NEW p \in Caches, NEW e \in {"cubin", "ptx"}, NEW s \in Stems,
             file'[TempPath(p, e, s)] = "whole", ~(p = "fn" /\ e = "ptx")
      PROVE  \E t \in Threads : /\ path'[t] = p /\ Stem[key'[t]] = s
                                /\ pc'[t] = IF e = "cubin" THEN "load" ELSE "loadPtx"
  <2>1. PICK t \in Threads : /\ path[t] = p /\ Stem[key[t]] = s
                             /\ pc[t] = IF e = "cubin" THEN "load" ELSE "loadPtx"
    BY <1>2 DEF FilesOwned
  <2> QED BY <2>1
<1> QED BY <1>1, <1>2 DEF FilesOwned, TempPath

\* A step of a load that holds the lock and touches its own files only.
LEMMA FilesTouched ==
  ASSUME IInv, FilesOwned, NEW t \in Threads, pc[t] \in Locked,
         NEW l, pc' = [pc EXCEPT ![t] = l], UNCHANGED callVars,
         \A f \in TempFiles : f # MyFile(t, "cubin") /\ f # MyFile(t, "ptx") => file'[f] = file[f],
         l = "load" => file'[MyFile(t, "cubin")] = "whole",
         l = "loadPtx" => file'[MyFile(t, "ptx")] = "whole",
         file'[MyFile(t, "cubin")] = "whole" => l = "load",
         file'[MyFile(t, "ptx")] = "whole" => l = "loadPtx" \/ path[t] = "fn"
  PROVE  FilesOwned'
<1>1. path' = path /\ key' = key /\ \A u \in Threads : pc'[u] = IF u = t THEN l ELSE pc[u]
  BY DEF IInv, TypeOK, callVars
<1>2. ASSUME NEW u \in Threads, u # t, pc[u] \in {"load", "loadPtx"}
      PROVE  \A e \in {"cubin", "ptx"} : file'[MyFile(u, e)] = file[MyFile(u, e)]
  <2>1. path[u] # path[t]
    BY <1>2, OneHolder DEF Locked
  <2>2. \A e \in {"cubin", "ptx"} : MyFile(u, e) \in TempFiles
    BY FileFacts DEF IInv
  <2> QED BY <2>1, <2>2 DEF MyFile, TempPath
<1>3. LoadReadsWholeFile'
  <2> SUFFICES ASSUME NEW u \in Threads
               PROVE  /\ pc'[u] = "load" => file'[MyFile(u, "cubin")] = "whole"
                      /\ pc'[u] = "loadPtx" => file'[MyFile(u, "ptx")] = "whole"
    BY <1>1 DEF LoadReadsWholeFile, MyFile
  <2>1. CASE u = t
    BY <1>1, <2>1
  <2>2. CASE u # t
    BY <1>1, <1>2, <2>2 DEF FilesOwned, LoadReadsWholeFile
  <2> QED BY <2>1, <2>2
<1>4. ASSUME NEW p \in Caches, NEW e \in {"cubin", "ptx"}, NEW s \in Stems,
             file'[TempPath(p, e, s)] = "whole", ~(p = "fn" /\ e = "ptx")
      PROVE  \E u \in Threads : /\ path'[u] = p /\ Stem[key'[u]] = s
                                /\ pc'[u] = IF e = "cubin" THEN "load" ELSE "loadPtx"
  <2>1. CASE p = path[t] /\ s = Stem[key[t]]
    BY <1>1, <1>4, <2>1 DEF MyFile
  <2>2. CASE ~(p = path[t] /\ s = Stem[key[t]])
    <3>1. TempPath(p, e, s) \in TempFiles
      BY DEF TempFiles
    <3>2. file[TempPath(p, e, s)] = "whole"
      BY <1>4, <2>2, <3>1 DEF MyFile, TempPath
    <3>3. PICK u \in Threads : /\ path[u] = p /\ Stem[key[u]] = s
                               /\ pc[u] = IF e = "cubin" THEN "load" ELSE "loadPtx"
      BY <1>4, <3>2 DEF FilesOwned
    <3> QED BY <1>1, <2>2, <3>3
  <2> QED BY <2>1, <2>2
<1> QED BY <1>3, <1>4 DEF FilesOwned, TempPath

LEMMA WriteFileFacts ==
  ASSUME TypeOK, NEW t \in Threads, NEW e \in {"cubin", "ptx"}, NEW next, WriteFile(t, e, next)
  PROVE  /\ \A f \in TempFiles : f # MyFile(t, e) => file'[f] = file[f]
         /\ \/ pc' = [pc EXCEPT ![t] = next] /\ file'[MyFile(t, e)] = "whole"
            \/ /\ pc' = [pc EXCEPT ![t] = "have"]
               /\ file'[MyFile(t, e)] \in {file[MyFile(t, e)], "partial"}
<1>1. MyFile(t, e) \in TempFiles
  BY FileFacts
<1>2. file \in [TempFiles -> {"absent", "partial", "whole"}]
  BY DEF TypeOK
<1>3. CASE file' = [file EXCEPT ![MyFile(t, e)] = "whole"] /\ Goto(t, next)
  BY <1>1, <1>2, <1>3 DEF Goto
<1>4. CASE file' \in {file, [file EXCEPT ![MyFile(t, e)] = "partial"]} /\ Fail(t)
  BY <1>1, <1>2, <1>4 DEF Fail, Return
<1> QED BY <1>3, <1>4 DEF WriteFile

LEMMA FilesStep ==
  ASSUME IInv, FilesOwned, [Next]_vars
  PROVE  FilesOwned'
<1>1. CASE UNCHANGED vars
  BY <1>1, FilesUntouched DEF vars, callVars
<1>2. ASSUME NEW t \in Threads, ProgramStep(t) \/ InitDeviceStep(t) PROVE FilesOwned'
  <2>1. file' = file
    BY <1>2 DEF ProgramStep, InitDeviceStep, NewContext, NewContextFail, DropContext,
       ShareContext, Call, InitDeviceFail, InitDeviceIsSm121, DrawGeneration, StoreGeneration, vars
  <2>2. \A u \in Threads \ {t} : pc'[u] = pc[u] /\ path'[u] = path[u] /\ key'[u] = key[u]
    BY <1>2 DEF IInv, TypeOK, ProgramStep, InitDeviceStep, NewContext, NewContextFail, DropContext,
       ShareContext, Call, InitDeviceFail, InitDeviceIsSm121, DrawGeneration, StoreGeneration, vars,
       callVars
  <2>3. \/ pc[t] \notin {"load", "loadPtx"} /\ pc'[t] \notin {"load", "loadPtx"}
        \/ pc'[t] = pc[t] /\ path'[t] = path[t] /\ key'[t] = key[t]
    <3>1. CASE NewContextFail(t)
      BY <3>1 DEF NewContextFail, vars, callVars
    <3>2. CASE ~NewContextFail(t)
      <4>1. pc[t] \notin {"load", "loadPtx"}
        BY <1>2, <3>2 DEF ProgramStep, InitDeviceStep, NewContext, DropContext, ShareContext,
           Call, InitDeviceFail, InitDeviceIsSm121, DrawGeneration, StoreGeneration
      <4>2. PICK l \in {"out", "have", "query", "bump", "stamp", "ensure"} :
              pc' = [pc EXCEPT ![t] = l]
        BY <1>2, <3>2 DEF ProgramStep, InitDeviceStep, NewContext, DropContext, ShareContext,
           Call, InitDeviceFail, InitDeviceIsSm121, DrawGeneration, StoreGeneration
      <4>3. pc'[t] = l
        BY <4>2 DEF IInv, TypeOK
      <4> QED BY <4>1, <4>3
    <3> QED BY <3>1, <3>2
  <2> QED BY <2>1, <2>2, <2>3, FilesUntouched
<1>3. ASSUME NEW t \in Threads,
             EnsureRead(t) \/ EnsureWrite(t) \/ ContextGeneration(t) \/ LockRead(t) \/ FastPath(t)
               \/ LockWrite(t) \/ Recheck(t) \/ GetFunction(t)
      PROVE  FilesOwned'
  <2>1. file' = file /\ path' = path /\ key' = key
    BY <1>3 DEF EnsureRead, EnsureWrite, ContextGeneration, LockRead, FastPath, LockWrite, Recheck,
       GetFunction, callVars
  <2>2. PICK l \in (InCall \cup {"have"}) \ {"load", "loadPtx"} : pc' = [pc EXCEPT ![t] = l]
    BY <1>3 DEF EnsureRead, EnsureWrite, ContextGeneration, LockRead, FastPath, LockWrite, Recheck,
       GetFunction, EnsureNext, AfterEnsure, Goto, Return, Fail, InCall, Locked
  <2>3. pc[t] \notin {"load", "loadPtx"}
    BY <1>3 DEF EnsureRead, EnsureWrite, ContextGeneration, LockRead, FastPath, LockWrite, Recheck,
       GetFunction
  <2>4. \A u \in Threads : u = t \/ pc'[u] = pc[u]
    BY <2>2 DEF IInv, TypeOK
  <2>5. pc'[t] \notin {"load", "loadPtx"}
    BY <2>2 DEF IInv, TypeOK
  <2> QED BY <2>1, <2>3, <2>4, <2>5, FilesUntouched
<1>4. ASSUME NEW t \in Threads, WriteCubin(t) PROVE FilesOwned'
  <2>1. pc[t] = "embed" /\ pc[t] \in Locked /\ UNCHANGED callVars
    BY <1>4 DEF WriteCubin, Locked
  <2>2. MyFile(t, "cubin") # MyFile(t, "ptx")
    BY DEF MyFile, TempPath
  <2>3. CASE WriteFile(t, "cubin", "load")
    <3>1. file'[MyFile(t, "ptx")] = file[MyFile(t, "ptx")]
      BY <2>2, <2>3, WriteFileFacts, FileFacts DEF IInv
    <3>2. CASE pc' = [pc EXCEPT ![t] = "load"] /\ file'[MyFile(t, "cubin")] = "whole"
      BY <2>1, <2>3, <3>1, <3>2, FilesTouched, NothingInPlace, WriteFileFacts DEF IInv
    <3>3. CASE /\ pc' = [pc EXCEPT ![t] = "have"]
               /\ file'[MyFile(t, "cubin")] \in {file[MyFile(t, "cubin")], "partial"}
      BY <2>1, <2>3, <3>1, <3>3, FilesTouched, NothingInPlace, WriteFileFacts DEF IInv
    <3> QED BY <2>3, <3>2, <3>3, WriteFileFacts DEF IInv
  <2>4. CASE Fail(t) /\ file' = file
    <3>1. pc' = [pc EXCEPT ![t] = "have"]
      BY <2>4 DEF Fail, Return
    <3> QED BY <2>1, <2>4, <3>1, FilesTouched, NothingInPlace
  <2> QED BY <1>4, <2>3, <2>4 DEF WriteCubin
<1>5. ASSUME NEW t \in Threads, WritePtx(t) PROVE FilesOwned'
  <2>1. pc[t] = "jit" /\ pc[t] \in Locked /\ UNCHANGED callVars
    BY <1>5 DEF WritePtx, Locked
  <2>2. MyFile(t, "cubin") # MyFile(t, "ptx")
    BY DEF MyFile, TempPath
  <2>3. CASE WriteFile(t, "ptx", "loadPtx")
    <3>1. file'[MyFile(t, "cubin")] = file[MyFile(t, "cubin")]
      BY <2>2, <2>3, WriteFileFacts, FileFacts DEF IInv
    <3>2. CASE pc' = [pc EXCEPT ![t] = "loadPtx"] /\ file'[MyFile(t, "ptx")] = "whole"
      <4>1. file'[MyFile(t, "cubin")] # "whole"
        BY <2>1, <3>1, NothingInPlace
      <4>2. \A f \in TempFiles : f # MyFile(t, "ptx") => file'[f] = file[f]
        BY <2>3, WriteFileFacts DEF IInv
      <4> QED BY <2>1, <3>2, <4>1, <4>2, FilesTouched
    <3>3. CASE /\ pc' = [pc EXCEPT ![t] = "have"]
               /\ file'[MyFile(t, "ptx")] \in {file[MyFile(t, "ptx")], "partial"}
      BY <2>1, <2>3, <3>1, <3>3, FilesTouched, NothingInPlace, WriteFileFacts DEF IInv
    <3> QED BY <2>3, <3>2, <3>3, WriteFileFacts DEF IInv
  <2>4. CASE Fail(t) /\ file' = file
    <3>1. pc' = [pc EXCEPT ![t] = "have"]
      BY <2>4 DEF Fail, Return
    <3> QED BY <2>1, <2>4, <3>1, FilesTouched, NothingInPlace
  <2> QED BY <1>5, <2>3, <2>4 DEF WritePtx
<1>6. ASSUME NEW t \in Threads, LoadCubin(t) PROVE FilesOwned'
  <2>1. pc[t] = "load" /\ pc[t] \in Locked /\ UNCHANGED callVars
    BY <1>6 DEF LoadCubin, Locked
  <2>2. MyFile(t, "cubin") # MyFile(t, "ptx")
    BY DEF MyFile, TempPath
  <2>3. /\ file'[MyFile(t, "cubin")] = "absent"
        /\ \A f \in TempFiles : f # MyFile(t, "cubin") => file'[f] = file[f]
    BY <1>6, FileFacts DEF IInv, TypeOK, LoadCubin, Removed
  <2>4. PICK l \in {"getfn", "jit"} : pc' = [pc EXCEPT ![t] = l]
    BY <1>6 DEF LoadCubin, Goto
  <2>5. file'[MyFile(t, "ptx")] = file[MyFile(t, "ptx")]
    BY <2>2, <2>3, FileFacts DEF IInv
  <2> QED BY <2>1, <2>3, <2>4, <2>5, FilesTouched, NothingInPlace
<1>7. ASSUME NEW t \in Threads, LoadPtx(t) PROVE FilesOwned'
  <2>1. pc[t] = "loadPtx" /\ pc[t] \in Locked /\ UNCHANGED callVars
    BY <1>7 DEF LoadPtx, Locked
  <2>2. MyFile(t, "cubin") # MyFile(t, "ptx")
    BY DEF MyFile, TempPath
  <2>3. /\ file' \in {file, Removed(MyFile(t, "ptx"))}
        /\ path[t] # "fn" => file' = Removed(MyFile(t, "ptx"))
    BY <1>7 DEF LoadPtx, IInv, TypeOK, Caches
  <2>4. /\ path[t] # "fn" => file'[MyFile(t, "ptx")] = "absent"
        /\ \A f \in TempFiles : f # MyFile(t, "ptx") => file'[f] = file[f]
    BY <2>3, FileFacts DEF IInv, TypeOK, Removed
  <2>5. PICK l \in {"getfn", "have"} : pc' = [pc EXCEPT ![t] = l]
    BY <1>7 DEF LoadPtx, Goto, Fail, Return
  <2>6. file'[MyFile(t, "cubin")] = file[MyFile(t, "cubin")]
    BY <2>2, <2>4, FileFacts DEF IInv
  <2> QED BY <2>1, <2>4, <2>5, <2>6, FilesTouched, NothingInPlace
<1> QED BY <1>1, <1>2, <1>3, <1>4, <1>5, <1>6, <1>7 DEF Next, LoadStep

\* For any number of threads, in every reachable state a whole temporary file is about
\* to be loaded by the load that wrote it, or was left by a failed JIT of load_kernel.
THEOREM FilesInductive == Spec => []FilesOwned
<1>1. Init => FilesOwned
  BY DEF Init, FilesOwned, LoadReadsWholeFile, TempFiles
<1>2. IInv /\ FilesOwned /\ [Next]_vars => FilesOwned'
  BY FilesStep
<1> QED BY <1>1, <1>2, Inductive, PTL DEF Spec

\* The driver reads a file whole, just as the load that holds the lock wrote it.
THEOREM FilesReadWhole == Spec => []LoadReadsWholeFile
<1>1. FilesOwned => LoadReadsWholeFile
  BY DEF FilesOwned
<1> QED BY FilesInductive, <1>1, PTL

\* Of all exits of both loaders only load_kernel's failed JIT leaves a file behind.
THEOREM OnlyFailedJitLeaves == Spec => []OnlyFailedJitLeavesFile
<1>1. IInv /\ FilesOwned => OnlyFailedJitLeavesFile
  <2> SUFFICES ASSUME IInv, FilesOwned, NEW p \in Caches, NEW e \in {"cubin", "ptx"},
                      NEW s \in Stems, file[TempPath(p, e, s)] = "whole",
                      writer[p] = NoThread, ~(p = "fn" /\ e = "ptx")
               PROVE  FALSE
    BY DEF OnlyFailedJitLeavesFile, TempPath
  <2>1. PICK t \in Threads : /\ path[t] = p
                             /\ pc[t] = IF e = "cubin" THEN "load" ELSE "loadPtx"
    BY DEF FilesOwned
  <2>2. writer[p] = t
    BY <2>1 DEF IInv, Locking, Locked
  <2> QED BY <2>2, ConstantsOK
<1> QED BY Inductive, FilesInductive, <1>1, PTL

-----------------------------------------------------------------------------
(* load_kernel and load_kernel_raw implement OnceLoader.  Every step of a  *)
(* load goes on, answers with what it found, files a function in an empty  *)
(* slot and answers with it, or fails (LoadOutcome); the last three are    *)
(* the steps of the one-step loader, everything else leaves its state      *)
(* alone.                                                                  *)

\* What a step of a load does: it goes on, or it answers with what it found,
\* with a function it filed in the empty slot, or with an error.
GoesOn(t) ==
  /\ \E l \in InCall : pc' = [pc EXCEPT ![t] = l]
  /\ ret' = ret
  /\ \A s \in Slot : ~Probed(s) => cache'[s] = cache[s]

Answers(t, r) ==
  /\ pc' = [pc EXCEPT ![t] = "have"]
  /\ ret' = [ret EXCEPT ![t] = r]

Finds(t) == Answers(t, cache[MySlot(t)]) /\ cache[MySlot(t)] # NoHandle /\ cache' = cache
Fails(t) == Answers(t, Err) /\ cache[MySlot(t)] = NoHandle /\ cache' = cache
Files(t, f) ==
  /\ Answers(t, f)
  /\ cache[MySlot(t)] = NoHandle
  /\ cache' = [cache EXCEPT ![MySlot(t)] = f]

\* What one step of a load can do.
LEMMA LoadOutcome ==
  ASSUME IInv, NEW t \in Threads, LoadStep(t)
  PROVE  /\ pc[t] \in InCall /\ UNCHANGED callVars
         /\ GoesOn(t) \/ Finds(t) \/ Fails(t) \/ \E f \in Handle : Files(t, f)
         /\ gen' = IF pc[t] = "lookup" THEN [gen EXCEPT ![t] = reg[where]] ELSE gen
         /\ pc[t] = "lookup" => GoesOn(t)
<1>1. CASE EnsureRead(t) \/ LockRead(t) \/ LockWrite(t) \/ ContextGeneration(t)
  BY <1>1 DEF EnsureRead, LockRead, LockWrite, ContextGeneration, EnsureNext, AfterEnsure, Goto, GoesOn,
     InCall, Locked, cacheVars, callVars
<1>2. CASE EnsureWrite(t)
  <2>1. cache' = cache
    BY <1>2, MapNeverEmptied
  <2> QED BY <1>2, <2>1 DEF EnsureWrite, AfterEnsure, Goto, GoesOn, InCall, Locked, callVars
<1>3. CASE FastPath(t)
  BY <1>3 DEF FastPath, Hit, Return, Goto, GoesOn, Finds, Answers, InCall, Locked, cacheVars, callVars
<1>4. CASE Recheck(t)
  <2>1. CASE Hit(t) /\ Return(t, cache[MySlot(t)]) /\ UNCHANGED cache
    BY <1>4, <2>1 DEF Recheck, Hit, Return, Finds, Answers, InCall, Locked, callVars
  <2>2. CASE /\ ~Hit(t)
             /\ cache' = [cache EXCEPT ![MySlot(t)] = NoHandle]
             /\ Goto(t, "embed")
    <3>1. \A s \in Slot : ~Probed(s) => cache'[s] = cache[s]
      BY <2>2, SlotFacts DEF IInv, TypeOK, Hit, Probed, Caches
    <3> QED BY <1>4, <2>2, <3>1 DEF Recheck, Goto, GoesOn, InCall, Locked, callVars
  <2> QED BY <1>4, <2>1, <2>2 DEF Recheck
<1>5. CASE WriteCubin(t) \/ WritePtx(t) \/ LoadCubin(t) \/ LoadPtx(t)
  <2>1. pc[t] \in Locked \ {"recheck"} /\ cache[MySlot(t)] = NoHandle
    BY <1>5 DEF IInv, Locking, WriteCubin, WritePtx, LoadCubin, LoadPtx, Locked
  <2>2. (\E l \in Locked : Goto(t, l)) \/ Fail(t)
    BY <1>5 DEF WriteCubin, WritePtx, LoadCubin, LoadPtx, WriteFile, Locked
  <2>3. UNCHANGED <<cacheVars, callVars, gen>>
    BY <1>5 DEF WriteCubin, WritePtx, LoadCubin, LoadPtx
  <2> QED BY <2>1, <2>2, <2>3 DEF Goto, Fail, Return, GoesOn, Fails, Answers, InCall, Locked, cacheVars, callVars
<1>6. CASE GetFunction(t)
  <2>1. cache[MySlot(t)] = NoHandle
    BY <1>6 DEF IInv, Locking, GetFunction, Locked
  <2>2. [inst |-> live, key |-> key[t]] \in Handle
    BY <1>6 DEF IInv, TypeOK, Ownership, Handle, GetFunction
  <2> QED BY <1>6, <2>1, <2>2 DEF GetFunction, Fail, Return, Fails, Files, Answers, InCall, Locked, callVars
<1> QED BY <1>1, <1>2, <1>3, <1>4, <1>5, <1>6 DEF LoadStep

\* The variables of the one-step loader, as load_kernel implements them.
FnTable == [k \in Keys |-> cache[<<"fn", 0, k>>]]
FnBusy == {t \in Threads : path[t] = "fn" /\ pc[t] \in InCall}
FnAnswer == [t \in Threads |-> IF path[t] = "fn" THEN ret[t] ELSE NoHandle]

\* A step of a load is a step of load_kernel's one-step loader or leaves it alone.
LEMMA FnLoadRefines ==
  ASSUME IInv, NEW t \in Threads, LoadStep(t)
  PROVE  [LoadKernel!Next]_(LoadKernel!vars)
<1>1. /\ pc[t] \in InCall /\ path' = path /\ key' = key
      /\ GoesOn(t) \/ Finds(t) \/ Fails(t) \/ \E f \in Handle : Files(t, f)
  BY LoadOutcome DEF callVars
<1>2. MySlot(t) \in Slot /\ MySlot(t)[1] = path[t] /\ MySlot(t) = <<path[t], gen[t], key[t]>>
  BY SlotFacts DEF IInv, MySlot
<1>3. \A k \in Keys : <<"fn", 0, k>> \in Slot /\ ~Probed(<<"fn", 0, k>>)
  BY SlotParts DEF Probed
<1>4. key[t] \in Keys
  BY DEF IInv, TypeOK
<1>5. CASE path[t] = "raw" \/ GoesOn(t)
  <2>1. FnTable' = FnTable
    <3>1. \A k \in Keys : cache'[<<"fn", 0, k>>] = cache[<<"fn", 0, k>>]
      <4>1. ASSUME NEW k \in Keys, path[t] = "raw"
            PROVE  <<"fn", 0, k>> # MySlot(t)
        BY <4>1, <1>2
      <4> QED BY <1>1, <1>3, <1>5, <4>1 DEF IInv, TypeOK, GoesOn, Finds, Fails, Files
    <3> QED BY <3>1 DEF FnTable
  <2>2. FnBusy' = FnBusy
    BY <1>1, <1>5 DEF IInv, TypeOK, GoesOn, Finds, Fails, Files, Answers, FnBusy
  <2>3. FnAnswer' = FnAnswer
    BY <1>1, <1>5 DEF IInv, TypeOK, GoesOn, Finds, Fails, Files, Answers, FnAnswer
  <2> QED BY <1>1, <2>1, <2>2, <2>3 DEF LoadKernel!vars, FnTable, FnBusy, FnAnswer
<1>6. CASE path[t] = "fn" /\ ~GoesOn(t)
  <2>1. MySlot(t) = <<"fn", 0, key[t]>> /\ FnTable[key[t]] = cache[MySlot(t)]
    BY <1>1, <1>2, <1>4, <1>6 DEF IInv, Drawn, FnTable
  <2>2. t \in FnBusy /\ (\A r : Answers(t, r) => FnBusy' = FnBusy \ {t})
    BY <1>1, <1>6 DEF IInv, TypeOK, FnBusy, Answers, InCall, Locked
  <2>3. \A r : Answers(t, r) => FnAnswer' = [FnAnswer EXCEPT ![t] = r]
    BY <1>1, <1>6 DEF IInv, TypeOK, FnAnswer, Answers
  <2>4. CASE Finds(t)
    <3>1. FnTable' = FnTable
      BY <2>4 DEF Finds, FnTable
    <3>2. LoadKernel!Found(t)
      BY <1>1, <2>1, <2>2, <2>3, <2>4, <3>1 DEF Finds, LoadKernel!Found, FnTable, FnBusy, FnAnswer
    <3> QED BY <3>2 DEF LoadKernel!Next
  <2>5. CASE Fails(t)
    <3>1. FnTable' = FnTable
      BY <2>5 DEF Fails, FnTable
    <3>2. LoadKernel!Failed(t)
      BY <1>1, <2>1, <2>2, <2>3, <2>5, <3>1 DEF Fails, LoadKernel!Failed, FnTable, FnBusy, FnAnswer
    <3> QED BY <3>2 DEF LoadKernel!Next
  <2>6. ASSUME NEW f \in Handle, Files(t, f)
        PROVE  LoadKernel!Next
    <3>1. FnTable' = [FnTable EXCEPT ![key[t]] = f]
      <4>1. \A k \in Keys : <<"fn", 0, k>> = MySlot(t) <=> k = key[t]
        BY <2>1
      <4>2. \A k \in Keys : cache'[<<"fn", 0, k>>] = IF k = key[t] THEN f ELSE cache[<<"fn", 0, k>>]
        BY <1>3, <2>6, <4>1 DEF IInv, TypeOK, Files
      <4> QED BY <4>2 DEF FnTable
    <3>2. LoadKernel!Loaded(t, f)
      BY <1>1, <2>1, <2>2, <2>3, <2>6, <3>1 DEF Files, LoadKernel!Loaded, FnTable, FnBusy, FnAnswer
    <3> QED BY <3>2 DEF LoadKernel!Next
  <2> QED BY <1>1, <1>6, <2>4, <2>5, <2>6
<1> QED BY <1>5, <1>6 DEF IInv, TypeOK, Caches

\* So is a step of the program or of init_device.
LEMMA FnProgramRefines ==
  ASSUME IInv, NEW t \in Threads, ProgramStep(t) \/ InitDeviceStep(t)
  PROVE  [LoadKernel!Next]_(LoadKernel!vars)
<1>1. ASSUME NEW k \in Keys, pc[t] \notin InCall, pc'[t] \notin InCall \/ path'[t] # "fn",
             cache' = cache, key' = [key EXCEPT ![t] = k],
             \A u \in Threads : u # t => pc'[u] = pc[u] /\ path'[u] = path[u] /\ ret'[u] = ret[u],
             path' \in [Threads -> Caches], ret'[t] = NoHandle
      PROVE  LoadKernel!Next
  <2>1. FnBusy' = FnBusy /\ t \notin FnBusy
    BY <1>1 DEF FnBusy
  <2>2. FnAnswer' = [FnAnswer EXCEPT ![t] = NoHandle]
    BY <1>1 DEF FnAnswer
  <2>3. LoadKernel!Forget(t)
    BY <1>1, <2>1, <2>2 DEF LoadKernel!Forget, FnBusy, FnAnswer
  <2> QED BY <2>3 DEF LoadKernel!Next
<1>2. CASE DropContext(t)
  <2>1. key[t] \in Keys /\ key' = [key EXCEPT ![t] = key[t]]
    BY <1>2 DEF IInv, TypeOK, DropContext, callVars
  <2>2. LoadKernel!Next
    BY <1>1, <1>2, <2>1 DEF IInv, TypeOK, DropContext, InCall, Locked, cacheVars, callVars
  <2> QED BY <2>2
<1>3. ASSUME NEW p \in Paths, NEW k \in Keys, Call(t, p, k)
      PROVE  LoadKernel!Next
  <2>0. p \in Caches
    BY ConstantsOK
  <2>1. CASE p = "raw"
    BY <1>1, <1>3, <2>0, <2>1 DEF IInv, TypeOK, Call, InCall, Locked, cacheVars
  <2>2. CASE p = "fn"
    <3>1. FnBusy' = FnBusy \cup {t} /\ t \notin FnBusy
      BY <1>3, <2>2 DEF IInv, TypeOK, Call, FnBusy, InCall, Locked
    <3>2. FnAnswer' = [FnAnswer EXCEPT ![t] = NoHandle]
      BY <1>3, <2>2 DEF IInv, TypeOK, Call, FnAnswer
    <3>3. LoadKernel!Ask(t, k)
      BY <1>3, <3>1, <3>2 DEF LoadKernel!Ask, Call, cacheVars, FnBusy, FnAnswer
    <3> QED BY <3>3 DEF LoadKernel!Next
  <2> QED BY <2>0, <2>1, <2>2 DEF Caches
<1>4. ASSUME \/ InitDeviceStep(t) \/ NewContextFail(t)
             \/ \E how \in {"init", "foreign"} : NewContext(t, how)
             \/ \E u \in Threads : ShareContext(t, u)
      PROVE  UNCHANGED LoadKernel!vars
  <2>1. UNCHANGED <<cache, path, key, ret>>
    BY <1>4 DEF InitDeviceStep, InitDeviceFail, InitDeviceIsSm121, DrawGeneration, StoreGeneration,
       NewContextFail, NewContext, ShareContext, vars, cacheVars, callVars
  <2>2. \A u \in Threads : pc'[u] \in InCall <=> pc[u] \in InCall
    BY <1>4 DEF IInv, TypeOK, InitDeviceStep, InitDeviceFail, InitDeviceIsSm121, DrawGeneration,
       StoreGeneration, NewContextFail, NewContext, ShareContext, vars, InCall, Locked
  <2>3. FnBusy' = FnBusy
    BY <2>1, <2>2 DEF FnBusy
  <2> QED BY <2>1, <2>3 DEF LoadKernel!vars, FnBusy
<1> QED BY <1>2, <1>3, <1>4 DEF ProgramStep

\* load_kernel implements the one-step loader: its double-checked locking, files and
\* fallback look to its callers like one atomic look-up or load.
THEOREM LoadKernelRefines == Spec => LoadKernelIsOnceLoader
<1>1. Init => LoadKernel!Init
  <2> SUFFICES ASSUME Init PROVE LoadKernel!Init
    OBVIOUS
  <2>1. IInv
    BY InitIInv
  <2>2. FnTable = [k \in Keys |-> NoHandle]
    BY SlotParts DEF Init, FnTable
  <2>3. FnBusy = {} /\ FnAnswer = [t \in Threads |-> NoHandle]
    BY DEF Init, FnBusy, FnAnswer, InCall, Locked
  <2>4. key \in [Threads -> Keys]
    BY <2>1 DEF IInv, TypeOK
  <2> QED BY <2>2, <2>3, <2>4 DEF LoadKernel!Init, FnTable, FnBusy, FnAnswer
<1>2. IInv /\ [Next]_vars => [LoadKernel!Next]_(LoadKernel!vars)
  <2> SUFFICES ASSUME IInv, [Next]_vars PROVE [LoadKernel!Next]_(LoadKernel!vars)
    OBVIOUS
  <2>1. CASE UNCHANGED vars
    BY <2>1 DEF vars, cacheVars, callVars, LoadKernel!vars
  <2> QED BY <2>1, FnProgramRefines, FnLoadRefines DEF Next
<1> QED BY Inductive, <1>1, <1>2, PTL DEF Spec, LoadKernelIsOnceLoader, LoadKernel!Spec
\* The variables of the one-step loader, as load_kernel_raw implements them for
\* the callers that read the generation Watched.
RawTable == [k \in Keys |-> cache[<<"raw", Watched, k>>]]
RawBusy == {t \in Threads : path[t] = "raw" /\ gen[t] = Watched /\ pc[t] \in InCall}
RawAnswer == [t \in Threads |-> IF path[t] = "raw" /\ gen[t] = Watched THEN ret[t] ELSE NoHandle]

\* The slots of the generation Watched are slots, and none of them is probed.
LEMMA WatchedFacts ==
  /\ Watched # 0
  /\ \A k \in Keys : <<"raw", Watched, k>> \in Slot /\ ~Probed(<<"raw", Watched, k>>)
BY ConstantsOK DEF Slot, Caches, Gens, Probed

\* Reading the generation Watched is where a call of load_kernel_raw begins.
LEMMA RawLookupRefines ==
  ASSUME IInv, NEW t \in Threads, LoadStep(t), pc[t] = "lookup"
  PROVE  [LoadKernelRaw!Next]_(LoadKernelRaw!vars)
<1>1. /\ pc[t] \in InCall /\ path' = path /\ key' = key /\ GoesOn(t)
      /\ gen' = [gen EXCEPT ![t] = reg[where]]
  BY LoadOutcome DEF callVars
<1>2. path[t] = "raw" /\ gen[t] = 0 /\ ret[t] = NoHandle /\ key[t] \in Keys
  BY <1>1 DEF IInv, TypeOK, Drawn, Answered, Caches
<1>3. RawTable' = RawTable
  BY <1>1, WatchedFacts DEF GoesOn, RawTable
<1>4. RawAnswer' = RawAnswer /\ RawAnswer = [RawAnswer EXCEPT ![t] = NoHandle]
  BY <1>1, <1>2 DEF IInv, TypeOK, GoesOn, RawAnswer
<1>5. CASE reg[where] = Watched
  <2>1. RawBusy' = RawBusy \cup {t} /\ t \notin RawBusy
    BY <1>1, <1>2, <1>5, WatchedFacts DEF IInv, TypeOK, GoesOn, RawBusy
  <2>2. PICK k \in Keys : k = key[t]
    BY <1>2
  <2>3. key' = [key EXCEPT ![t] = k]
    BY <1>1, <2>2 DEF IInv, TypeOK
  <2>4. LoadKernelRaw!Ask(t, k)
    BY <1>3, <1>4, <2>1, <2>3 DEF LoadKernelRaw!Ask, RawTable, RawBusy, RawAnswer
  <2> QED BY <2>4 DEF LoadKernelRaw!Next
<1>6. CASE reg[where] # Watched
  <2>1. RawBusy' = RawBusy
    BY <1>1, <1>2, <1>6, WatchedFacts DEF IInv, TypeOK, GoesOn, RawBusy
  <2> QED BY <1>1, <1>3, <1>4, <2>1 DEF LoadKernelRaw!vars, RawTable, RawBusy, RawAnswer
<1> QED BY <1>5, <1>6

\* Every later step of a load is a step of load_kernel_raw's one-step loader or leaves
\* it alone.
LEMMA RawLoadRefines ==
  ASSUME IInv, NEW t \in Threads, LoadStep(t), pc[t] # "lookup"
  PROVE  [LoadKernelRaw!Next]_(LoadKernelRaw!vars)
<1>1. /\ pc[t] \in InCall /\ path' = path /\ key' = key /\ gen' = gen
      /\ GoesOn(t) \/ Finds(t) \/ Fails(t) \/ \E f \in Handle : Files(t, f)
  BY LoadOutcome DEF callVars
<1>2. MySlot(t) \in Slot /\ MySlot(t) = <<path[t], gen[t], key[t]>> /\ key[t] \in Keys
  BY SlotFacts DEF IInv, TypeOK, MySlot
<1>3. CASE ~(path[t] = "raw" /\ gen[t] = Watched) \/ GoesOn(t)
  <2>1. RawTable' = RawTable
    <3>1. \A k \in Keys : cache'[<<"raw", Watched, k>>] = cache[<<"raw", Watched, k>>]
      <4>1. ASSUME NEW k \in Keys, ~(path[t] = "raw" /\ gen[t] = Watched)
            PROVE  <<"raw", Watched, k>> # MySlot(t)
        BY <4>1, <1>2
      <4> QED BY <1>1, <1>3, <4>1, WatchedFacts DEF IInv, TypeOK, GoesOn, Finds, Fails, Files
    <3> QED BY <3>1 DEF RawTable
  <2>2. RawBusy' = RawBusy
    BY <1>1, <1>3 DEF IInv, TypeOK, GoesOn, Finds, Fails, Files, Answers, RawBusy
  <2>3. RawAnswer' = RawAnswer
    BY <1>1, <1>3 DEF IInv, TypeOK, GoesOn, Finds, Fails, Files, Answers, RawAnswer
  <2> QED BY <1>1, <2>1, <2>2, <2>3 DEF LoadKernelRaw!vars, RawTable, RawBusy, RawAnswer
<1>4. CASE path[t] = "raw" /\ gen[t] = Watched /\ ~GoesOn(t)
  <2>1. MySlot(t) = <<"raw", Watched, key[t]>> /\ RawTable[key[t]] = cache[MySlot(t)]
    BY <1>2, <1>4 DEF RawTable
  <2>2. t \in RawBusy /\ (\A r : Answers(t, r) => RawBusy' = RawBusy \ {t})
    BY <1>1, <1>4 DEF IInv, TypeOK, RawBusy, Answers, InCall, Locked
  <2>3. \A r : Answers(t, r) => RawAnswer' = [RawAnswer EXCEPT ![t] = r]
    BY <1>1, <1>4 DEF IInv, TypeOK, RawAnswer, Answers
  <2>4. CASE Finds(t)
    <3>1. RawTable' = RawTable
      BY <2>4 DEF Finds, RawTable
    <3>2. LoadKernelRaw!Found(t)
      BY <1>1, <2>1, <2>2, <2>3, <2>4, <3>1
         DEF Finds, LoadKernelRaw!Found, RawTable, RawBusy, RawAnswer
    <3> QED BY <3>2 DEF LoadKernelRaw!Next
  <2>5. CASE Fails(t)
    <3>1. RawTable' = RawTable
      BY <2>5 DEF Fails, RawTable
    <3>2. LoadKernelRaw!Failed(t)
      BY <1>1, <2>1, <2>2, <2>3, <2>5, <3>1
         DEF Fails, LoadKernelRaw!Failed, RawTable, RawBusy, RawAnswer
    <3> QED BY <3>2 DEF LoadKernelRaw!Next
  <2>6. ASSUME NEW f \in Handle, Files(t, f)
        PROVE  LoadKernelRaw!Next
    <3>1. RawTable' = [RawTable EXCEPT ![key[t]] = f]
      <4>1. \A k \in Keys : <<"raw", Watched, k>> = MySlot(t) <=> k = key[t]
        BY <2>1
      <4>2. \A k \in Keys : cache'[<<"raw", Watched, k>>] =
                             IF k = key[t] THEN f ELSE cache[<<"raw", Watched, k>>]
        BY <2>6, <4>1, WatchedFacts DEF IInv, TypeOK, Files
      <4> QED BY <4>2 DEF RawTable
    <3>2. LoadKernelRaw!Loaded(t, f)
      BY <1>1, <2>1, <2>2, <2>3, <2>6, <3>1
         DEF Files, LoadKernelRaw!Loaded, RawTable, RawBusy, RawAnswer
    <3> QED BY <3>2 DEF LoadKernelRaw!Next
  <2> QED BY <1>1, <1>4, <2>4, <2>5, <2>6
<1> QED BY <1>3, <1>4

\* So is a step of the program or of init_device.
LEMMA RawProgramRefines ==
  ASSUME IInv, NEW t \in Threads, ProgramStep(t) \/ InitDeviceStep(t)
  PROVE  [LoadKernelRaw!Next]_(LoadKernelRaw!vars)
<1>1. ASSUME NEW k \in Keys,
             (DropContext(t) /\ k = key[t]) \/ (\E p \in Paths : Call(t, p, k))
      PROVE  LoadKernelRaw!Next
  <2>1. /\ cache' = cache /\ key' = [key EXCEPT ![t] = k] /\ pc[t] \notin InCall
        /\ \A u \in Threads \ {t} : /\ pc'[u] = pc[u] /\ path'[u] = path[u]
                                    /\ gen'[u] = gen[u] /\ ret'[u] = ret[u]
        /\ ret'[t] = NoHandle
        /\ pc'[t] \notin InCall \/ gen'[t] = 0
    BY <1>1 DEF IInv, TypeOK, DropContext, Call, InCall, Locked, cacheVars, callVars
  <2>2. RawBusy' = RawBusy /\ t \notin RawBusy
    BY <2>1, WatchedFacts DEF RawBusy
  <2>3. RawAnswer' = [RawAnswer EXCEPT ![t] = NoHandle]
    BY <2>1 DEF RawAnswer
  <2>4. LoadKernelRaw!Forget(t)
    BY <2>1, <2>2, <2>3 DEF LoadKernelRaw!Forget, RawBusy, RawAnswer
  <2> QED BY <2>4 DEF LoadKernelRaw!Next
<1>2. ASSUME \/ InitDeviceStep(t) \/ NewContextFail(t)
             \/ \E how \in {"init", "foreign"} : NewContext(t, how)
             \/ \E u \in Threads : ShareContext(t, u)
      PROVE  UNCHANGED LoadKernelRaw!vars
  <2>1. UNCHANGED <<cache, path, key, ret>>
    BY <1>2 DEF InitDeviceStep, InitDeviceFail, InitDeviceIsSm121, DrawGeneration, StoreGeneration,
       NewContextFail, NewContext, ShareContext, vars, cacheVars, callVars
  <2>2. \A u \in Threads : pc'[u] \in InCall <=> pc[u] \in InCall
    BY <1>2 DEF IInv, TypeOK, InitDeviceStep, InitDeviceFail, InitDeviceIsSm121, DrawGeneration,
       StoreGeneration, NewContextFail, NewContext, ShareContext, vars, InCall, Locked
  <2>3. \A u \in Threads : gen'[u] = gen[u] \/ (pc[u] \notin InCall /\ ret[u] = NoHandle)
    BY <1>2 DEF IInv, TypeOK, Answered, InitDeviceStep, InitDeviceFail, InitDeviceIsSm121,
       DrawGeneration, StoreGeneration, NewContextFail, NewContext, ShareContext, vars, InCall, Locked
  <2>4. RawBusy' = RawBusy
    BY <2>1, <2>2, <2>3 DEF RawBusy
  <2>5. RawAnswer' = RawAnswer
    BY <2>1, <2>3 DEF RawAnswer
  <2> QED BY <2>1, <2>4, <2>5 DEF LoadKernelRaw!vars, RawBusy, RawAnswer
<1>3. key[t] \in Keys
  BY DEF IInv, TypeOK
<1> QED BY <1>1, <1>2, <1>3 DEF ProgramStep

\* load_kernel_raw implements the one-step loader for the callers that read one
\* generation, while other generations are drawn, stored and loaded under.
THEOREM LoadKernelRawRefines == Spec => LoadKernelRawIsOnceLoader
<1>1. Init => LoadKernelRaw!Init
  <2> SUFFICES ASSUME Init PROVE LoadKernelRaw!Init
    OBVIOUS
  <2>1. IInv
    BY InitIInv
  <2>2. RawTable = [k \in Keys |-> NoHandle]
    BY WatchedFacts DEF Init, RawTable
  <2>3. RawBusy = {} /\ RawAnswer = [t \in Threads |-> NoHandle]
    BY DEF Init, RawBusy, RawAnswer, InCall, Locked
  <2>4. key \in [Threads -> Keys]
    BY <2>1 DEF IInv, TypeOK
  <2> QED BY <2>2, <2>3, <2>4 DEF LoadKernelRaw!Init, RawTable, RawBusy, RawAnswer
<1>2. IInv /\ [Next]_vars => [LoadKernelRaw!Next]_(LoadKernelRaw!vars)
  <2> SUFFICES ASSUME IInv, [Next]_vars PROVE [LoadKernelRaw!Next]_(LoadKernelRaw!vars)
    OBVIOUS
  <2>1. CASE UNCHANGED vars
    BY <2>1 DEF vars, cacheVars, callVars, LoadKernelRaw!vars
  <2> QED BY <2>1, RawProgramRefines, RawLookupRefines, RawLoadRefines DEF Next
<1> QED BY Inductive, <1>1, <1>2, PTL DEF Spec, LoadKernelRawIsOnceLoader, LoadKernelRaw!Spec
=============================================================================
