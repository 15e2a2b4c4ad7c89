--------------------------- MODULE GemvSplitKProofs ---------------------------
(***************************************************************************)
(* What the split-K wrappers promise, for every list of requests, scratch  *)
(* buffer, number of calls and failure.  The invariant says what the       *)
(* scratch buffer holds when a kernel is the next to run: the kernels of a *)
(* call follow each other in the stream, so what one leaves is what the    *)
(* next one finds.                                                         *)
(***************************************************************************)
EXTENDS GemvSplitK, SplitKProofs, Induction, FiniteSetTheorems, TLAPS

-----------------------------------------------------------------------------
(* Joining sequences.                                                      *)

\* g[i] is the first i sequences of s one after the other, as FlattenSeq computes it.
Joins(g, s, n) == \A i \in 1 .. n : g[i] = IF i = 1 THEN s[i] ELSE g[i - 1] \o s[i]

LEMMA JoinedOnce ==
  ASSUME NEW n \in Nat \ {0}, NEW s, NEW a, NEW b, Joins(a, s, n), Joins(b, s, n)
  PROVE  a[n] = b[n]
<1> DEFINE T == {i \in Nat : i + 1 \in 1 .. n => a[i + 1] = b[i + 1]}
<1>1. 1 \in 1 .. n
  OBVIOUS
<1>2. \A j \in 1 .. n : j # 1 /\ a[j - 1] = b[j - 1] => a[j] = b[j]
  <2> TAKE j \in 1 .. n
  <2> HAVE j # 1 /\ a[j - 1] = b[j - 1]
  <2>1. a[j] = a[j - 1] \o s[j] /\ b[j] = b[j - 1] \o s[j]
    BY DEF Joins
  <2> QED BY <2>1
<1>3. a[1] = b[1]
  BY <1>1 DEF Joins
<1>4. 0 \in T
  BY <1>3
<1>5. ASSUME NEW i \in Nat, i \in T PROVE i + 1 \in T
  <2>1. SUFFICES ASSUME i + 2 \in 1 .. n PROVE a[i + 2] = b[i + 2]
    <3>1. i + 1 + 1 = i + 2 /\ i + 1 \in Nat
      OBVIOUS
    <3> QED BY <3>1
  <2>2. i + 1 \in 1 .. n /\ i + 2 # 1 /\ i + 2 - 1 = i + 1
    BY <2>1
  <2>3. a[i + 1] = b[i + 1]
    BY <1>5, <2>2
  <2> QED BY <1>2, <2>1, <2>2, <2>3
<1>6. T \in SUBSET Nat
  OBVIOUS
<1>7. n - 1 \in Nat /\ n - 1 + 1 = n /\ n \in 1 .. n
  OBVIOUS
<1>8. n - 1 \in T
  <2> HIDE DEF T
  <2> QED BY <1>4, <1>5, <1>6, <1>7, NaturalInduction
<1> QED BY <1>7, <1>8

\* Sequences of one element each, one after the other.
LEMMA FlattenSingletons ==
  ASSUME NEW n \in Nat \ {0}, NEW S, NEW f \in [1 .. n -> S], NEW seqs,
         seqs = [i \in 1 .. n |-> <<f[i]>>]
  PROVE  FlattenSeq(seqs) = f
<1> DEFINE Joined(g) == [i \in 1 .. Len(seqs) |-> IF i = 1 THEN seqs[i] ELSE g[i - 1] \o seqs[i]]
           first == [i \in 1 .. n |-> [j \in 1 .. i |-> f[j]]]
           all == CHOOSE g : g = Joined(g)
<1>1. Len(seqs) = n
  OBVIOUS
<1>2. FlattenSeq(seqs) = all[n]
  BY <1>1 DEF FlattenSeq
<1>3. ASSUME NEW i \in 1 .. n, i # 1
      PROVE  first[i - 1] \o seqs[i] = first[i]
  <2>1. i - 1 \in 1 .. n /\ first[i - 1] = [j \in 1 .. i - 1 |-> f[j]] /\ seqs[i] = <<f[i]>>
    BY <1>3
  <2>2. [j \in 1 .. i - 1 |-> f[j]] \in Seq(S) /\ Len([j \in 1 .. i - 1 |-> f[j]]) = i - 1
    BY <2>1
  <2> QED BY <2>1, <2>2
<1>4. seqs[1] = first[1]
  <2>1. 1 \in 1 .. n
    OBVIOUS
  <2>2. seqs[1] = <<f[1]>> /\ first[1] = [j \in 1 .. 1 |-> f[j]]
    BY <2>1
  <2>3. <<f[1]>> \in Seq(S) /\ Len(<<f[1]>>) = 1 /\ <<f[1]>>[1] = f[1]
    BY <2>1
  <2>4. <<f[1]>> = [j \in 1 .. 1 |-> <<f[1]>>[j]]
    BY <2>3
  <2>5. \A j \in 1 .. 1 : <<f[1]>>[j] = f[j]
    BY <2>3
  <2>6. <<f[1]>> = [j \in 1 .. 1 |-> f[j]]
    BY <2>4, <2>5
  <2> QED BY <2>2, <2>6
<1>5. Joins(first, seqs, n)
  BY <1>3, <1>4 DEF Joins
<1>6. \E g : g = Joined(g)
  <2>1. first = [i \in 1 .. n |-> first[i]]
    OBVIOUS
  <2> HIDE DEF first
  <2>2. Joined(first) =
          [i \in 1 .. n |-> IF i = 1 THEN seqs[i] ELSE first[i - 1] \o seqs[i]]
    BY <1>1
  <2>3. first = Joined(first)
    BY <1>5, <2>1, <2>2 DEF Joins
  <2> HIDE DEF Joined
  <2> QED BY <2>3
<1>7. all = Joined(all)
  <2> HIDE DEF Joined
  <2> QED BY <1>6
<1> HIDE DEF all
<1>8. Joins(all, seqs, n)
  BY <1>1, <1>7 DEF Joins
<1>9. first[n] = f
  OBVIOUS
<1> HIDE DEF first
<1> QED BY <1>2, <1>5, <1>8, <1>9, JoinedOnce

-----------------------------------------------------------------------------
(* The invariant.                                                          *)

Kernel == {"zero", "atomic", "convert", "stage", "reduce", "whole"}
Item   == [kernel : Kernel, call : Nat \ {0}]
Outputs == UNION {[Cells(q) -> Seq(Part)] : q \in Requests}

ThreadsOf(i) == (0 .. made[i].shards - 1) \X Cells(made[i])

\* What shard s of call i adds up of a cell.
PartOf(i, s, c) ==
  [start |-> KStart(made[i].k, made[i].shards, s), len |-> ShardLen(made[i].k, made[i].shards, s),
   cell |-> c, call |-> i]

WholePart(i, c) == [start |-> 0, len |-> made[i].k, cell |-> c, call |-> i]

\* No shard of a request starts behind K.
AllFit == \A q \in Requests : q.shards > 0 => Fits(q.k, q.shards)

\* sum lists the parts of the shards S, each once.
Lists(sum, i, c, S) ==
  /\ \A j \in DOMAIN sum : \E s \in S : sum[j] = PartOf(i, s, c)
  /\ \A s \in S : \E j \in DOMAIN sum : sum[j] = PartOf(i, s, c)
  /\ AllFit => \A j, l \in DOMAIN sum : sum[j] = sum[l] => j = l

\* The threads T of the atomic kernel, of the staging kernel, of call i have run.
Added(i, T) ==
  \A c \in Cells(made[i]) \cap DOMAIN scratch :
    Lists(scratch[c], i, c, {s \in 0 .. made[i].shards - 1 : <<s, c>> \in T})

Slot(i, s, c) == s * made[i].rows * made[i].n + c

Stored(i, T) == \A t \in T : scratch[Slot(i, t[1], t[2])] = <<PartOf(i, t[1], t[2])>>

\* What a kernel finds that is at the head of the stream and of which T has run.
Ready(kernel, i, T) ==
  /\ kernel = "atomic" => Added(i, T)
  /\ kernel = "convert" => Added(i, ThreadsOf(i))
  /\ kernel = "stage" => Stored(i, T)
  /\ kernel = "reduce" => Stored(i, ThreadsOf(i))
  /\ kernel \in {"atomic", "stage"} \/ T = {}

\* A kernel that depends on what the scratch buffer holds comes after the one of its
\* own call that leaves it.
Follows(kernel, i, before) ==
  /\ kernel = "atomic" => before = [kernel |-> "zero", call |-> i]
  /\ kernel = "convert" => before = [kernel |-> "atomic", call |-> i]
  /\ kernel = "reduce" => before = [kernel |-> "stage", call |-> i]

\* A kernel is enqueued only by a wrapper that chose its path and accepted it.
PathOf(kernel) ==
  CASE kernel \in {"zero", "atomic", "convert"} -> AtomicPath
    [] kernel \in {"stage", "reduce"} -> StagedPath
    [] kernel = "whole" -> <<"whole">>

Granted(kernel, q) ==
  /\ Path(q) = PathOf(kernel)
  /\ kernel # "zero" => Accepts(q, kernel)
  /\ kernel = "convert" => Accepts(q, "atomic")

Remaining(q) ==
  \/ Path(q) = AtomicPath /\ todo \in {AtomicPath, <<"atomic", "convert">>}
  \/ Path(q) = AtomicPath /\ todo = <<"convert">> /\ Accepts(q, "atomic")
  \/ Path(q) = StagedPath /\ todo \in {StagedPath, <<"reduce">>}
  \/ Path(q) = <<"whole">> /\ todo = <<"whole">>

Typed ==
  /\ flag \in BOOLEAN
  /\ made \in Seq(Requests) /\ Len(made) <= MaxCalls
  /\ scratch \in [0 .. ScratchLen - 1 -> Seq(Part)]
  /\ out \in Seq(Outputs) /\ Len(out) = Len(made)
  /\ \A i \in DOMAIN made : out[i] \in [Cells(made[i]) -> Seq(Part)]

Queued ==
  /\ stream \in Seq(Item) /\ todo \in Seq(Kernel)
  /\ \A p \in DOMAIN stream :
       stream[p].call \in DOMAIN made /\ Granted(stream[p].kernel, made[stream[p].call])
  /\ todo # <<>> => made # <<>> /\ Remaining(made[Len(made)])
  /\ IF stream = <<>> THEN ran = {} ELSE ran \subseteq ThreadsOf(stream[1].call)

Linked ==
  /\ \A p \in DOMAIN stream : p # 1 => Follows(stream[p].kernel, stream[p].call, stream[p - 1])
  /\ todo # <<>> /\ stream # <<>> => Follows(todo[1], Len(made), stream[Len(stream)])
  /\ stream # <<>> => Ready(stream[1].kernel, stream[1].call, ran)
  /\ todo # <<>> /\ stream = <<>> => Ready(todo[1], Len(made), {})

\* A call has written nothing, or the sums of its path.
Result(i) ==
  LET q == made[i] IN
  \/ \A c \in Cells(q) : out[i][c] = Unwritten
  \/ /\ Path(q) = AtomicPath /\ q.shards > 0
     /\ \A c \in Cells(q) : Lists(out[i][c], i, c, 0 .. q.shards - 1)
  \/ /\ Path(q) = StagedPath /\ q.shards > 0
     /\ \A c \in Cells(q) : out[i][c] = [j \in 1 .. q.shards |-> PartOf(i, j - 1, c)]
  \/ /\ Path(q) = <<"whole">>
     /\ \A c \in Cells(q) : out[i][c] = <<WholePart(i, c)>>

Results == \A i \in DOMAIN made : Result(i)

IInv == Typed /\ Queued /\ Linked /\ Results

-----------------------------------------------------------------------------
(* The requests and their paths.                                           *)

LEMMA RequestTypes ==
  ASSUME NEW q \in Requests
  PROVE  /\ q.n \in Nat \ {0} /\ q.k \in Nat \ {0} /\ q.rows \in Nat \ {0} /\ q.shards \in Nat
         /\ q.rows * q.n \in Nat \ {0} /\ Cells(q) \subseteq Nat
         /\ q.wrapper # "gemm_bf16_det" => q.rows = 1
<1>1. /\ q.n \in Nat \ {0} /\ q.k \in Nat \ {0} /\ q.rows \in Nat \ {0} /\ q.shards \in Nat
      /\ q.wrapper # "gemm_bf16_det" => q.rows = 1
  BY SplitKOK
<1>2. q.rows * q.n \in Nat \ {0}
  BY <1>1
<1> QED BY <1>1, <1>2 DEF Cells

LEMMA PathsDiffer ==
  AtomicPath # StagedPath /\ AtomicPath # <<"whole">> /\ StagedPath # <<"whole">>
<1>1. AtomicPath[1] = "zero" /\ StagedPath[1] = "stage" /\ <<"whole">>[1] = "whole"
  BY DEF AtomicPath, StagedPath
<1> QED BY <1>1

LEMMA PathChosen ==
  ASSUME NEW q \in Requests
  PROVE  /\ Path(q) \in {AtomicPath, StagedPath, <<"whole">>}
         /\ Path(q) = AtomicPath => q.rows = 1
<1>1. q.wrapper \in {"w8a16", "w8a16_w16", "bf16", "bf16_w16", "bf16_view", "bf16_v4",
                      "gemm_bf16_det"}
  BY SplitKOK
<1>2. CASE q.wrapper \in {"w8a16", "w8a16_w16"}
  <2>1. Path(q) = W8A16Path(q)
    BY <1>2 DEF Path
  <2> QED BY <1>2, <2>1, RequestTypes DEF W8A16Path
<1>3. CASE q.wrapper = "bf16"
  <2>1. Path(q) = Bf16Path(q)
    BY <1>3 DEF Path
  <2> QED BY <1>3, <2>1, RequestTypes DEF Bf16Path
<1>4. CASE q.wrapper = "gemm_bf16_det"
  <2>1. Path(q) = StagedPath
    BY <1>4 DEF Path
  <2> QED BY <2>1, PathsDiffer
<1>5. CASE q.wrapper \in {"bf16_w16", "bf16_view", "bf16_v4"}
  <2>1. Path(q) = AtomicPath
    BY <1>5 DEF Path
  <2> QED BY <1>5, <2>1, RequestTypes
<1> QED BY <1>1, <1>2, <1>3, <1>4, <1>5

\* What a wrapper has checked of a call of which a kernel is pending.
LEMMA GrantedAtomic ==
  ASSUME NEW q \in Requests, NEW kernel \in {"atomic", "convert"}, Granted(kernel, q)
  PROVE  /\ q.shards \in Nat \ {0} /\ Cells(q) = 0 .. q.n - 1
         /\ Cells(q) \subseteq 0 .. ScratchLen - 1
<1>1. Path(q) = AtomicPath /\ Accepts(q, "atomic")
  BY DEF Granted, PathOf
<1>2. q.rows = 1
  BY <1>1, PathChosen
<1>3. q.shards > 0 /\ q.n <= ScratchLen
  BY <1>1 DEF Accepts
<1>4. Cells(q) = 0 .. q.n - 1
  BY <1>2, RequestTypes DEF Cells
<1> QED BY <1>3, <1>4, RequestTypes, SplitKOK

LEMMA GrantedStaged ==
  ASSUME NEW q \in Requests, NEW kernel \in {"stage", "reduce"}, Granted(kernel, q)
  PROVE  Path(q) = StagedPath /\ q.shards \in Nat \ {0} /\ StageFits(q)
<1>1. Path(q) = StagedPath /\ Accepts(q, kernel)
  BY DEF Granted, PathOf
<1>2. q.shards > 0 /\ StageFits(q)
  BY <1>1 DEF Accepts
<1> QED BY <1>1, <1>2, RequestTypes

\* The threads of the staging kernel write to different cells of the scratch buffer.
LEMMA SlotsApart ==
  ASSUME NEW S \in Nat, NEW R \in Nat \ {0}, NEW s \in 0 .. S - 1, NEW t \in 0 .. S - 1,
         NEW c \in 0 .. R - 1, NEW d \in 0 .. R - 1, s * R + c = t * R + d
  PROVE  s = t /\ c = d
<1>1. CASE s = t
  BY <1>1
<1>2. CASE s < t
  <2>1. (t - s - 1) * R >= 0
    BY <1>2
  <2> QED BY <2>1
<1>3. CASE t < s
  <2>1. (s - t - 1) * R >= 0
    BY <1>3
  <2> QED BY <2>1
<1> QED BY <1>1, <1>2, <1>3

LEMMA SlotInRange ==
  ASSUME NEW S \in Nat, NEW R \in Nat \ {0}, NEW s \in 0 .. S - 1, NEW c \in 0 .. R - 1
  PROVE  s * R + c \in Nat /\ s * R + c < S * R
<1>1. (S - 1 - s) * R >= 0 /\ s * R >= 0 /\ s * R \in Int /\ S * R \in Int
  OBVIOUS
<1>2. (S - 1 - s) * R = S * R - R - s * R
  OBVIOUS
<1> QED BY <1>1, <1>2

LEMMA Slots ==
  ASSUME NEW i, made[i] \in Requests, StageFits(made[i]), NEW t \in ThreadsOf(i)
  PROVE  /\ Slot(i, t[1], t[2]) \in 0 .. ScratchLen - 1
         /\ \A u \in ThreadsOf(i) : Slot(i, u[1], u[2]) = Slot(i, t[1], t[2]) => u = t
<1> DEFINE q == made[i]
           R == q.rows * q.n
           S == q.shards
<1>1. R \in Nat \ {0} /\ S \in Nat /\ q.rows \in Nat /\ q.n \in Nat
  BY RequestTypes
<1>2. \A u \in ThreadsOf(i) :
        u = <<u[1], u[2]>> /\ u[1] \in 0 .. S - 1 /\ u[2] \in 0 .. R - 1
  BY DEF ThreadsOf, Cells
<1>3. \A u \in ThreadsOf(i) : Slot(i, u[1], u[2]) = u[1] * R + u[2]
  <2> TAKE u \in ThreadsOf(i)
  <2>1. u[1] \in Int
    BY <1>1, <1>2
  <2>2. u[1] * q.rows * q.n = u[1] * (q.rows * q.n)
    BY <1>1, <2>1
  <2> QED BY <2>2 DEF Slot
<1>4. S * R <= ScratchLen
  <2>1. S * q.rows * q.n = S * (q.rows * q.n)
    BY <1>1
  <2> QED BY <2>1 DEF StageFits
<1> HIDE DEF q, R, S
<1>5. Slot(i, t[1], t[2]) \in 0 .. ScratchLen - 1
  <2>1. t[1] * R + t[2] \in Nat /\ t[1] * R + t[2] < S * R
    BY <1>1, <1>2, SlotInRange
  <2>2. S * R \in Int
    BY <1>1
  <2> QED BY <1>3, <1>4, <2>1, <2>2, SplitKOK
<1>6. ASSUME NEW u \in ThreadsOf(i), Slot(i, u[1], u[2]) = Slot(i, t[1], t[2])
      PROVE  u = t
  <2>1. u[1] * R + u[2] = t[1] * R + t[2]
    BY <1>3, <1>6
  <2>2. u[1] = t[1] /\ u[2] = t[2]
    BY <1>1, <1>2, <2>1, SlotsApart
  <2> QED BY <1>2, <2>2
<1> QED BY <1>5, <1>6

-----------------------------------------------------------------------------
(* Parts and lists of them.                                                *)

LEMMA PartType ==
  ASSUME Typed, NEW i \in DOMAIN made, made[i].shards > 0,
         NEW s \in 0 .. made[i].shards - 1, NEW c \in Cells(made[i])
  PROVE  PartOf(i, s, c) \in Part /\ WholePart(i, c) \in Part
<1> DEFINE q == made[i]
<1>1. q \in Requests /\ i \in 0 .. MaxCalls
  BY SplitKOK DEF Typed
<1>2. q.shards \in Nat \ {0} /\ q.k \in Nat \ {0} /\ c \in Nat
  BY <1>1, RequestTypes
<1>3. KShard(q.k, q.shards) \in Nat
  BY <1>2, DivCeilBounds DEF KShard
<1>4. KStart(q.k, q.shards, s) \in Nat
  <2>1. s * KShard(q.k, q.shards) \in Nat
    BY <1>2, <1>3
  <2> QED BY <2>1, WordOK DEF KStart
<1>5. KEnd(q.k, q.shards, s) \in Nat
  <2>1. (KStart(q.k, q.shards, s) + KShard(q.k, q.shards)) % Word \in Nat
    BY <1>3, <1>4, WordOK
  <2> QED BY <1>2, <2>1 DEF KEnd, Lower
<1>6. ShardLen(q.k, q.shards, s) \in Nat
  <2>1. KEnd(q.k, q.shards, s) - KStart(q.k, q.shards, s) \in Int
    BY <1>4, <1>5
  <2> QED BY <2>1, WordOK DEF ShardLen
<1> QED BY <1>1, <1>2, <1>4, <1>6 DEF PartOf, WholePart, Part

LEMMA UnwrittenType == Unwritten \in Seq(Part)
BY SplitKOK DEF Unwritten, Part

\* Shards that start within K start at different products.
LEMMA PartsDiffer ==
  ASSUME AllFit, NEW i, made[i] \in Requests, NEW s \in 0 .. made[i].shards - 1,
         NEW t \in 0 .. made[i].shards - 1, NEW c, PartOf(i, s, c) = PartOf(i, t, c)
  PROVE  s = t
<1> DEFINE q == made[i]
           ks == KShard(q.k, q.shards)
<1>1. q.shards \in Nat \ {0} /\ q.k \in Nat \ {0}
  BY RequestTypes
<1>2. KStart(q.k, q.shards, s) = s * ks /\ KStart(q.k, q.shards, t) = t * ks
  BY <1>1, ShardRange DEF AllFit
<1>3. ks \in Nat \ {0}
  BY <1>1, DivCeilBounds DEF KShard
<1>4. s * ks = t * ks
  BY <1>2 DEF PartOf
<1> HIDE DEF ks
<1>5. s * ks + 0 = t * ks + 0 /\ 0 \in 0 .. ks - 1
  BY <1>3, <1>4
<1> QED BY <1>1, <1>3, <1>5, SlotsApart

\* A shard that has not added its part yet adds one that is not on the list.
LEMMA ListsAppend ==
  ASSUME NEW sum \in Seq(Part), NEW i, made[i] \in Requests, NEW c,
         NEW S \in SUBSET (0 .. made[i].shards - 1), NEW s \in 0 .. made[i].shards - 1, s \notin S,
         Lists(sum, i, c, S)
  PROVE  Lists(Append(sum, PartOf(i, s, c)), i, c, S \cup {s})
<1> DEFINE new == Append(sum, PartOf(i, s, c))
           n == Len(sum)
<1>1. /\ n \in Nat /\ DOMAIN sum = 1 .. n /\ DOMAIN new = 1 .. n + 1
      /\ \A j \in 1 .. n : new[j] = sum[j]
      /\ new[n + 1] = PartOf(i, s, c)
  OBVIOUS
<1> HIDE DEF new, n
<1>2. \A j \in DOMAIN new : \E t \in S \cup {s} : new[j] = PartOf(i, t, c)
  BY <1>1 DEF Lists
<1>3. \A t \in S \cup {s} : \E j \in DOMAIN new : new[j] = PartOf(i, t, c)
  BY <1>1 DEF Lists
<1>4. ASSUME AllFit, NEW j \in DOMAIN new, NEW l \in DOMAIN new, new[j] = new[l]
      PROVE  j = l
  <2>1. \A h \in 1 .. n : sum[h] # PartOf(i, s, c)
    <3> SUFFICES ASSUME NEW h \in 1 .. n, sum[h] = PartOf(i, s, c) PROVE FALSE
      OBVIOUS
    <3>1. PICK t \in S : sum[h] = PartOf(i, t, c)
      BY <1>1 DEF Lists
    <3>2. t = s
      BY <1>4, <3>1, PartsDiffer
    <3> QED BY <3>2
  <2>2. \A h, m \in 1 .. n : sum[h] = sum[m] => h = m
    BY <1>1, <1>4 DEF Lists
  <2> QED BY <1>1, <1>4, <2>1, <2>2
<1> QED BY <1>2, <1>3, <1>4 DEF Lists, new

LEMMA ListsNothing ==
  ASSUME NEW i, NEW c
  PROVE  Lists(<<>>, i, c, {})
BY DEF Lists

-----------------------------------------------------------------------------
(* What a step leaves alone.                                               *)

LEMMA FrameParts ==
  ASSUME NEW i, made'[i] = made[i]
  PROVE  /\ ThreadsOf(i)' = ThreadsOf(i)
         /\ \A s, c : PartOf(i, s, c)' = PartOf(i, s, c)
         /\ \A s, c : Slot(i, s, c)' = Slot(i, s, c)
         /\ \A c : WholePart(i, c)' = WholePart(i, c)
         /\ \A sum, c, S : Lists(sum, i, c, S)' <=> Lists(sum, i, c, S)
BY DEF ThreadsOf, PartOf, Slot, WholePart, Lists

LEMMA FrameReady ==
  ASSUME NEW i, made'[i] = made[i], scratch' = scratch, NEW kernel, NEW T
  PROVE  Ready(kernel, i, T)' <=> Ready(kernel, i, T)
<1>1. Added(i, T)' <=> Added(i, T)
  BY FrameParts DEF Added
<1>2. Added(i, ThreadsOf(i))' <=> Added(i, ThreadsOf(i))
  BY FrameParts DEF Added
<1>3. Stored(i, T)' <=> Stored(i, T)
  BY FrameParts DEF Stored
<1>4. Stored(i, ThreadsOf(i))' <=> Stored(i, ThreadsOf(i))
  BY DEF Stored, ThreadsOf, Slot, PartOf
<1> QED BY <1>1, <1>2, <1>3, <1>4 DEF Ready

LEMMA FramePath ==
  ASSUME flag' = flag, NEW q
  PROVE  Path(q)' = Path(q) /\ \A kernel : Granted(kernel, q)' <=> Granted(kernel, q)
<1>1. Path(q)' = Path(q)
  BY DEF Path, W8A16Path, Bf16Path
<1> QED BY <1>1 DEF Granted

LEMMA FrameResult ==
  ASSUME flag' = flag, NEW i, made'[i] = made[i], out'[i] = out[i]
  PROVE  Result(i)' <=> Result(i)
<1>1. Path(made[i])' = Path(made[i])
  BY FramePath
<1>2. \A sum, c, S : Lists(sum, i, c, S)' <=> Lists(sum, i, c, S)
  BY FrameParts
<1>4. \A c : WholePart(i, c)' = WholePart(i, c)
  BY FrameParts
<1>3. \A c \in Cells(made[i]) :
        (out[i][c] = [j \in 1 .. made[i].shards |-> PartOf(i, j - 1, c)])'
          <=> out[i][c] = [j \in 1 .. made[i].shards |-> PartOf(i, j - 1, c)]
  BY DEF PartOf
<1>5. \A c \in Cells(made[i]) :
        /\ Lists(out[i][c], i, c, 0 .. made[i].shards - 1)'
             <=> Lists(out[i][c], i, c, 0 .. made[i].shards - 1)
        /\ (out[i][c] = <<WholePart(i, c)>>)' <=> out[i][c] = <<WholePart(i, c)>>
  BY <1>2, <1>4
<1> QED BY <1>1, <1>3, <1>5 DEF Result

-----------------------------------------------------------------------------
(* Each action keeps the invariant.                                        *)

LEMMA Starts == Init => IInv
<1> SUFFICES ASSUME Init PROVE IInv
  OBVIOUS
<1>1. /\ flag \in BOOLEAN /\ made = <<>> /\ todo = <<>> /\ stream = <<>> /\ ran = {} /\ out = <<>>
      /\ scratch = [a \in 0 .. ScratchLen - 1 |-> Unwritten]
  BY DEF Init
<1>2. Typed
  BY <1>1, UnwrittenType, SplitKOK DEF Typed
<1>3. Queued /\ Linked /\ Results
  BY <1>1 DEF Queued, Linked, Results
<1> QED BY <1>2, <1>3 DEF IInv

\* The type of what is at the head of the stream.
LEMMA HeadType ==
  ASSUME IInv, stream # <<>>
  PROVE  /\ stream[1] \in Item /\ Head(stream) = stream[1] /\ 1 \in DOMAIN stream
         /\ stream[1].call \in DOMAIN made /\ made[stream[1].call] \in Requests
         /\ Granted(stream[1].kernel, made[stream[1].call])
         /\ ran \subseteq ThreadsOf(stream[1].call)
         /\ Ready(stream[1].kernel, stream[1].call, ran)
<1>1. stream \in Seq(Item) /\ made \in Seq(Requests)
  BY DEF IInv, Queued, Typed
<1>2. 1 \in DOMAIN stream /\ stream[1] \in Item /\ Head(stream) = stream[1]
  BY <1>1
<1>3. stream[1].call \in DOMAIN made /\ Granted(stream[1].kernel, made[stream[1].call])
  BY <1>2 DEF IInv, Queued
<1>4. ran \subseteq ThreadsOf(stream[1].call)
  BY DEF IInv, Queued
<1>5. Ready(stream[1].kernel, stream[1].call, ran)
  BY DEF IInv, Linked
<1> QED BY <1>1, <1>2, <1>3, <1>4, <1>5

LEMMA CallStep ==
  ASSUME IInv, NEW q \in Requests, Call(q)
  PROVE  IInv'
<1>1. /\ todo = <<>> /\ Len(made) < MaxCalls /\ made' = Append(made, q) /\ todo' = Path(q)
      /\ out' = Append(out, [c \in Cells(q) |-> Unwritten])
      /\ flag' = flag /\ stream' = stream /\ ran' = ran /\ scratch' = scratch
  BY DEF Call
<1>2. /\ flag \in BOOLEAN /\ made \in Seq(Requests) /\ Len(made) <= MaxCalls
      /\ scratch \in [0 .. ScratchLen - 1 -> Seq(Part)]
      /\ out \in Seq(Outputs) /\ Len(out) = Len(made)
      /\ \A i \in DOMAIN made : out[i] \in [Cells(made[i]) -> Seq(Part)]
  BY DEF IInv, Typed
<1> DEFINE n == Len(made)
           new == [c \in Cells(q) |-> Unwritten]
<1>3. n \in Nat /\ DOMAIN made = 1 .. n /\ DOMAIN made' = 1 .. n + 1 /\ Len(made') = n + 1
  BY <1>1, <1>2
<1>4. /\ \A i \in 1 .. n : made'[i] = made[i] /\ out'[i] = out[i]
      /\ made'[n + 1] = q /\ out'[n + 1] = new
  BY <1>1, <1>2
<1>5. new \in [Cells(q) -> Seq(Part)]
  BY UnwrittenType
<1>6. new \in Outputs
  BY <1>5 DEF Outputs
<1>7. Typed'
  <2>1. made' \in Seq(Requests) /\ Len(made') <= MaxCalls
    BY <1>1, <1>2, SplitKOK
  <2>2. out' \in Seq(Outputs) /\ Len(out') = Len(made')
    BY <1>1, <1>2, <1>6
  <2>3. \A i \in DOMAIN made' : out'[i] \in [Cells(made'[i]) -> Seq(Part)]
    BY <1>2, <1>3, <1>4, <1>5
  <2> QED BY <1>1, <1>2, <2>1, <2>2, <2>3 DEF Typed
<1>8. Path(q) \in {AtomicPath, StagedPath, <<"whole">>} /\ Path(q)' = Path(q)
  BY <1>1, PathChosen, FramePath
<1>9. todo' # <<>> /\ todo' \in Seq(Kernel) /\ todo'[1] \in {"zero", "stage", "whole"}
  <2>1. CASE Path(q) = AtomicPath
    BY <1>1, <2>1 DEF AtomicPath, Kernel
  <2>2. CASE Path(q) = StagedPath
    BY <1>1, <2>2 DEF StagedPath, Kernel
  <2>3. CASE Path(q) = <<"whole">>
    BY <1>1, <2>3 DEF Kernel
  <2> QED BY <1>8, <2>1, <2>2, <2>3
<1>10. \A p \in DOMAIN stream :
         /\ stream[p].call \in 1 .. n
         /\ Granted(stream[p].kernel, made[stream[p].call])
  BY <1>3 DEF IInv, Queued
<1>11. Queued'
  <2>1. \A p \in DOMAIN stream :
          /\ stream[p].call \in 1 .. n + 1
          /\ Granted(stream[p].kernel, made[stream[p].call])'
    <3> TAKE p \in DOMAIN stream
    <3>1. made'[stream[p].call] = made[stream[p].call]
      BY <1>4, <1>10
    <3>2. \A r, kernel : Granted(kernel, r)' <=> Granted(kernel, r)
      BY <1>1, FramePath
    <3> QED BY <1>1, <1>3, <1>10, <3>1, <3>2
  <2>2. Remaining(q)'
    BY <1>1, <1>8 DEF Remaining
  <2>3. made'[Len(made')] = q /\ made' # <<>>
    BY <1>3, <1>4
  <2>4. stream # <<>> => ThreadsOf(stream[1].call)' = ThreadsOf(stream[1].call)
    <3> HAVE stream # <<>>
    <3>1. stream[1].call \in 1 .. n
      BY <1>3, HeadType
    <3>2. made'[stream[1].call] = made[stream[1].call]
      BY <1>4, <3>1
    <3> QED BY <1>1, <3>2, FrameParts
  <2>5. /\ stream \in Seq(Item)
        /\ IF stream = <<>> THEN ran = {} ELSE ran \subseteq ThreadsOf(stream[1].call)
    BY DEF IInv, Queued
  <2> QED BY <1>1, <1>3, <1>9, <2>1, <2>2, <2>3, <2>4, <2>5 DEF Queued
<1>12. Linked'
  <2>1. stream # <<>> => Ready(stream[1].kernel, stream[1].call, ran)'
    <3> HAVE stream # <<>>
    <3>1. stream[1].call \in 1 .. n /\ Ready(stream[1].kernel, stream[1].call, ran)
      BY <1>3, HeadType
    <3>2. made'[stream[1].call] = made[stream[1].call]
      BY <1>4, <3>1
    <3> QED BY <1>1, <3>1, <3>2, FrameReady
  <2>2. Follows(todo[1], Len(made), stream[Len(stream)])' /\ Ready(todo[1], Len(made), {})'
    BY <1>9 DEF Follows, Ready, Stored
  <2>3. \A p \in DOMAIN stream : p # 1 => Follows(stream[p].kernel, stream[p].call, stream[p - 1])
    BY DEF IInv, Linked
  <2> QED BY <1>1, <2>1, <2>2, <2>3 DEF Linked
<1>13. Results'
  <2>1. ASSUME NEW i \in 1 .. n + 1 PROVE Result(i)'
    <3>1. CASE i \in 1 .. n
      <4>1. made'[i] = made[i] /\ out'[i] = out[i] /\ Result(i)
        BY <1>3, <1>4, <3>1 DEF IInv, Results
      <4> QED BY <1>1, <4>1, FrameResult
    <3>2. CASE i = n + 1
      BY <1>4, <3>2 DEF Result
    <3> QED BY <1>3, <3>1, <3>2
  <2> QED BY <1>3, <2>1 DEF Results
<1> QED BY <1>7, <1>11, <1>12, <1>13 DEF IInv

LEMMA EnqueueStep ==
  ASSUME IInv, Enqueue
  PROVE  IInv'
<1> DEFINE i == Len(made)
           q == made[i]
           item == [kernel |-> todo[1], call |-> i]
<1>1. /\ todo # <<>> /\ flag' = flag /\ made' = made /\ ran' = ran /\ scratch' = scratch
      /\ out' = out
      /\ todo \in Seq(Kernel) /\ stream \in Seq(Item) /\ Head(todo) = todo[1]
  BY DEF Enqueue, IInv, Queued
<1>2. made # <<>> /\ Remaining(q) /\ made \in Seq(Requests)
  BY <1>1 DEF IInv, Queued, Typed
<1>3. i \in Nat \ {0} /\ i \in DOMAIN made /\ Last(made) = q
  BY <1>2 DEF Last
<1>4. stream' = Append(stream, item) /\ todo' = Tail(todo) /\ Accepts(q, todo[1])
  BY <1>1, <1>3 DEF Enqueue
<1>5. todo[1] \in Kernel /\ item \in Item /\ item.kernel = todo[1] /\ item.call = i
  BY <1>1, <1>3 DEF Item
<1>6. Typed'
  BY <1>1 DEF IInv, Typed
<1> DEFINE m == Len(stream)
<1>7. /\ m \in Nat /\ DOMAIN stream = 1 .. m /\ DOMAIN stream' = 1 .. m + 1 /\ Len(stream') = m + 1
      /\ \A p \in 1 .. m : stream'[p] = stream[p]
      /\ stream'[m + 1] = item /\ stream' \in Seq(Item) /\ stream' # <<>>
      /\ stream = <<>> <=> m = 0
  BY <1>1, <1>4, <1>5
\* What the wrapper has left to do, case by case.
<1>8. /\ Granted(todo[1], q) /\ todo' \in Seq(Kernel)
      /\ todo' # <<>> => Remaining(q)' /\ Follows(todo'[1], i, item)
  <2>1. CASE Path(q) = AtomicPath /\ todo = AtomicPath
    <3>1. todo[1] = "zero" /\ todo' = <<"atomic", "convert">>
      BY <1>4, <2>1 DEF AtomicPath
    <3>2. todo'[1] = "atomic" /\ todo' \in Seq(Kernel)
      BY <3>1 DEF Kernel
    <3>3. Remaining(q)'
      BY <1>1, <2>1, <3>1, FramePath DEF Remaining
    <3> QED BY <2>1, <3>1, <3>2, <3>3 DEF Granted, PathOf, Follows
  <2>2. CASE Path(q) = AtomicPath /\ todo = <<"atomic", "convert">>
    <3>1. todo[1] = "atomic" /\ todo' = <<"convert">>
      BY <1>4, <2>2
    <3>2. todo'[1] = "convert" /\ todo' \in Seq(Kernel)
      BY <3>1 DEF Kernel
    <3>3. Accepts(q, "atomic")
      BY <1>4, <3>1
    <3>4. Remaining(q)'
      BY <1>1, <2>2, <3>1, <3>3, FramePath DEF Remaining
    <3> QED BY <2>2, <3>1, <3>2, <3>3, <3>4 DEF Granted, PathOf, Follows
  <2>3. CASE Path(q) = AtomicPath /\ todo = <<"convert">> /\ Accepts(q, "atomic")
    <3>1. todo[1] = "convert" /\ todo' = <<>>
      BY <1>4, <2>3
    <3> QED BY <1>4, <2>3, <3>1 DEF Granted, PathOf
  <2>4. CASE Path(q) = StagedPath /\ todo = StagedPath
    <3>1. todo[1] = "stage" /\ todo' = <<"reduce">>
      BY <1>4, <2>4 DEF StagedPath
    <3>2. todo'[1] = "reduce" /\ todo' \in Seq(Kernel)
      BY <3>1 DEF Kernel
    <3>3. Remaining(q)'
      BY <1>1, <2>4, <3>1, FramePath DEF Remaining
    <3> QED BY <1>4, <2>4, <3>1, <3>2, <3>3 DEF Granted, PathOf, Follows
  <2>5. CASE Path(q) = StagedPath /\ todo = <<"reduce">>
    <3>1. todo[1] = "reduce" /\ todo' = <<>>
      BY <1>4, <2>5
    <3> QED BY <1>4, <2>5, <3>1 DEF Granted, PathOf
  <2>6. CASE Path(q) = <<"whole">> /\ todo = <<"whole">>
    <3>1. todo[1] = "whole" /\ todo' = <<>>
      BY <1>4, <2>6
    <3> QED BY <1>4, <2>6, <3>1 DEF Granted, PathOf
  <2> QED BY <1>2, <2>1, <2>2, <2>3, <2>4, <2>5, <2>6 DEF Remaining
<1>9. \A p \in DOMAIN stream' :
        /\ stream'[p].call \in DOMAIN made
        /\ Granted(stream[p].kernel, made[stream[p].call])'
  <2> TAKE p \in DOMAIN stream'
  <2>1. \A r, kernel : Granted(kernel, r)' <=> Granted(kernel, r)
    BY <1>1, FramePath
  <2>2. CASE p \in 1 .. m
    <3>1. stream[p].call \in DOMAIN made /\ Granted(stream[p].kernel, made[stream[p].call])
      BY <1>7, <2>2 DEF IInv, Queued
    <3> QED BY <1>1, <1>7, <2>1, <2>2, <3>1
  <2>3. CASE p = m + 1
    <3>1. stream'[p].kernel = todo[1] /\ stream'[p].call = i /\ made'[stream'[p].call] = q
      BY <1>1, <1>5, <1>7, <2>3
    <3> QED BY <1>3, <1>8, <2>1, <3>1
  <2> QED BY <1>7, <2>2, <2>3
<1>10. stream # <<>> => stream'[1] = stream[1]
  BY <1>7
<1>11. stream = <<>> => stream'[1] = item
  BY <1>7
<1>12. Queued'
  <2>1. IF stream' = <<>> THEN ran' = {} ELSE ran' \subseteq ThreadsOf(stream[1].call)'
    <3>1. CASE stream = <<>>
      <4>1. ran = {}
        BY <3>1 DEF IInv, Queued
      <4> QED BY <1>1, <1>7, <4>1
    <3>2. CASE stream # <<>>
      <4>1. ran \subseteq ThreadsOf(stream[1].call)
        BY <3>2 DEF IInv, Queued
      <4>2. ThreadsOf(stream[1].call)' = ThreadsOf(stream[1].call)
        BY <1>1, <1>10, <3>2, FrameParts
      <4> QED BY <1>1, <1>7, <4>1, <4>2
    <3> QED BY <3>1, <3>2
  <2>2. todo' # <<>> => made' # <<>> /\ Remaining(made[Len(made)])'
    BY <1>1, <1>2, <1>8
  <2> QED BY <1>1, <1>7, <1>8, <1>9, <2>1, <2>2 DEF Queued
<1>13. Linked'
  <2>1. ASSUME NEW p \in DOMAIN stream', p # 1
        PROVE  Follows(stream[p].kernel, stream[p].call, stream[p - 1])'
    <3>1. CASE p \in 1 .. m
      <4>1. Follows(stream[p].kernel, stream[p].call, stream[p - 1])
        BY <1>7, <2>1, <3>1 DEF IInv, Linked
      <4>2. stream'[p] = stream[p] /\ stream'[p - 1] = stream[p - 1]
        BY <1>7, <2>1, <3>1
      <4> QED BY <4>1, <4>2 DEF Follows
    <3>2. CASE p = m + 1
      <4>1. stream'[p].kernel = todo[1] /\ stream'[p].call = i /\ stream'[p - 1] = stream[m]
        BY <1>5, <1>7, <2>1, <3>2
      <4>2. Follows(todo[1], i, stream[m])
        BY <1>1, <1>7, <2>1, <3>2 DEF IInv, Linked
      <4> QED BY <4>1, <4>2 DEF Follows
    <3> QED BY <1>7, <2>1, <3>1, <3>2
  <2>2. todo' # <<>> => Follows(todo[1], Len(made), stream[Len(stream)])'
    <3> HAVE todo' # <<>>
    <3>1. Follows(todo'[1], i, item)
      BY <1>8
    <3>2. stream'[Len(stream')] = item /\ Len(made') = i
      BY <1>1, <1>7
    <3> QED BY <3>1, <3>2 DEF Follows
  <2>3. Ready(stream[1].kernel, stream[1].call, ran)'
    <3>1. CASE stream # <<>>
      <4>1. Ready(stream[1].kernel, stream[1].call, ran)
        BY <3>1 DEF IInv, Linked
      <4> QED BY <1>1, <1>10, <3>1, <4>1, FrameReady
    <3>2. CASE stream = <<>>
      <4>1. ran = {} /\ Ready(todo[1], i, ran)
        BY <1>1, <3>2 DEF IInv, Linked, Queued
      <4>2. stream'[1].kernel = todo[1] /\ stream'[1].call = i
        BY <1>5, <1>11, <3>2
      <4> QED BY <1>1, <4>1, <4>2, FrameReady
    <3> QED BY <3>1, <3>2
  <2> QED BY <1>7, <2>1, <2>2, <2>3 DEF Linked
<1>14. Results'
  <2>1. \A k \in DOMAIN made : Result(k)' <=> Result(k)
    BY <1>1, FrameResult
  <2> QED BY <1>1, <2>1 DEF IInv, Results
<1> QED BY <1>6, <1>12, <1>13, <1>14 DEF IInv

LEMMA EnqueueFailsStep ==
  ASSUME IInv, EnqueueFails
  PROVE  IInv'
<1>1. /\ todo' = <<>> /\ flag' = flag /\ made' = made /\ stream' = stream /\ ran' = ran
      /\ scratch' = scratch /\ out' = out
  BY DEF EnqueueFails
<1>2. Typed'
  BY <1>1 DEF IInv, Typed
<1>3. \A k : /\ ThreadsOf(k)' = ThreadsOf(k)
             /\ Result(k)' <=> Result(k)
             /\ \A kernel, T : Ready(kernel, k, T)' <=> Ready(kernel, k, T)
  BY <1>1, FrameParts, FrameResult, FrameReady
<1>4. \A q, kernel : Granted(kernel, q)' <=> Granted(kernel, q)
  BY <1>1, FramePath
<1>5. Queued'
  BY <1>1, <1>3, <1>4 DEF IInv, Queued
<1>6. Linked'
  <2>1. stream # <<>> => Ready(stream[1].kernel, stream[1].call, ran)'
    BY <1>1, <1>3 DEF IInv, Linked
  <2> QED BY <1>1, <2>1 DEF IInv, Linked, Follows
<1>7. Results'
  BY <1>1, <1>3 DEF IInv, Results
<1> QED BY <1>2, <1>5, <1>6, <1>7 DEF IInv

\* The head of the stream ends: the next kernel finds what it depends on, if the one that
\* ends leaves it.
LEMMA FinishStep ==
  ASSUME IInv, stream # <<>>, Finish, todo' = todo, made' = made, flag' = flag,
         NEW kernel, NEW i, stream[1] = [kernel |-> kernel, call |-> i],
         kernel = "zero" => Ready("atomic", i, {})',
         kernel = "atomic" => Ready("convert", i, {})',
         kernel = "stage" => Ready("reduce", i, {})'
  PROVE  Queued' /\ Linked'
<1> DEFINE m == Len(stream)
<1>1. stream' = Tail(stream) /\ ran' = {} /\ stream \in Seq(Item)
  BY DEF Finish, IInv, Queued
<1>2. /\ m \in Nat \ {0} /\ DOMAIN stream = 1 .. m
      /\ DOMAIN stream' = 1 .. m - 1 /\ Len(stream') = m - 1
      /\ \A p \in 1 .. m - 1 : stream'[p] = stream[p + 1]
      /\ stream' \in Seq(Item)
      /\ stream' = <<>> <=> m = 1
  <2>1. m \in Nat \ {0} /\ DOMAIN stream = 1 .. m
    BY <1>1
  <2>2. stream' \in Seq(Item) /\ Len(stream') = m - 1 /\ DOMAIN stream' = 1 .. m - 1
    BY <1>1, <2>1
  <2>3. \A p \in 1 .. m - 1 : stream'[p] = stream[p + 1]
    BY <1>1, <2>1
  <2>4. stream' = <<>> <=> m = 1
    BY <2>1, <2>2
  <2> QED BY <2>1, <2>2, <2>3, <2>4
<1>3. \A k, j : k \in Kernel /\ Follows(k, j, stream[1]) => Ready(k, j, {})'
  <2> TAKE k, j
  <2> HAVE k \in Kernel /\ Follows(k, j, stream[1])
  <2>1. CASE k \in {"zero", "stage", "whole"}
    BY <2>1 DEF Ready, Stored
  <2>2. CASE k = "atomic"
    <3>1. stream[1] = [kernel |-> "zero", call |-> j]
      BY <2>2 DEF Follows
    <3>2. kernel = "zero" /\ i = j
      BY <3>1
    <3> QED BY <2>2, <3>2
  <2>3. CASE k = "convert"
    <3>1. stream[1] = [kernel |-> "atomic", call |-> j]
      BY <2>3 DEF Follows
    <3>2. kernel = "atomic" /\ i = j
      BY <3>1
    <3> QED BY <2>3, <3>2
  <2>4. CASE k = "reduce"
    <3>1. stream[1] = [kernel |-> "stage", call |-> j]
      BY <2>4 DEF Follows
    <3>2. kernel = "stage" /\ i = j
      BY <3>1
    <3> QED BY <2>4, <3>2
  <2> QED BY <2>1, <2>2, <2>3, <2>4 DEF Kernel
<1>4. \A q, k : Granted(k, q)' <=> Granted(k, q)
  BY FramePath
<1>5. Queued'
  <2>1. \A p \in DOMAIN stream' :
          /\ stream'[p].call \in DOMAIN made'
          /\ Granted(stream[p].kernel, made[stream[p].call])'
    <3> TAKE p \in DOMAIN stream'
    <3>1. p + 1 \in DOMAIN stream /\ stream'[p] = stream[p + 1]
      BY <1>2
    <3>2. /\ stream[p + 1].call \in DOMAIN made
          /\ Granted(stream[p + 1].kernel, made[stream[p + 1].call])
      BY <3>1 DEF IInv, Queued
    <3> QED BY <1>4, <3>1, <3>2
  <2>2. todo' # <<>> => made' # <<>> /\ Remaining(made[Len(made)])'
    <3> HAVE todo' # <<>>
    <3>1. made # <<>> /\ Remaining(made[Len(made)])
      BY DEF IInv, Queued
    <3>2. \A q : Path(q)' = Path(q)
      BY FramePath
    <3>3. \A q : Remaining(q)' <=> Remaining(q)
      BY <3>2 DEF Remaining
    <3> QED BY <3>1, <3>3
  <2>3. todo' \in Seq(Kernel)
    BY DEF IInv, Queued
  <2> QED BY <1>1, <1>2, <2>1, <2>2, <2>3 DEF Queued
<1>6. \A p \in 1 .. m - 1 : Follows(stream[p + 1].kernel, stream[p + 1].call, stream[p])
  <2> TAKE p \in 1 .. m - 1
  <2>1. PICK r \in 1 .. m : r = p + 1
    BY <1>2
  <2>2. r # 1 /\ r - 1 = p /\ r \in DOMAIN stream
    BY <1>2, <2>1
  <2>3. Follows(stream[r].kernel, stream[r].call, stream[r - 1])
    BY <2>2 DEF IInv, Linked
  <2> QED BY <2>1, <2>2, <2>3
<1>7. Linked'
  <2>1. ASSUME NEW p \in DOMAIN stream', p # 1
        PROVE  Follows(stream[p].kernel, stream[p].call, stream[p - 1])'
    <3>1. p + 1 \in DOMAIN stream /\ p + 1 # 1 /\ p + 1 - 1 = p
          /\ stream'[p] = stream[p + 1] /\ stream'[p - 1] = stream[p]
      BY <1>2, <2>1
    <3>2. Follows(stream[p + 1].kernel, stream[p + 1].call, stream[p])
      BY <1>2, <1>6
    <3> QED BY <3>1, <3>2 DEF Follows
  <2>2. todo' # <<>> /\ stream' # <<>> => Follows(todo[1], Len(made), stream[Len(stream)])'
    <3> HAVE todo' # <<>> /\ stream' # <<>>
    <3>1. Follows(todo[1], Len(made), stream[m])
      BY DEF IInv, Linked
    <3>2. stream'[Len(stream')] = stream[m]
      BY <1>2
    <3> QED BY <3>1, <3>2 DEF Follows
  <2>3. stream' # <<>> => Ready(stream[1].kernel, stream[1].call, ran)'
    <3> HAVE stream' # <<>>
    <3>1. 1 \in 1 .. m - 1 /\ 1 + 1 = 2
      BY <1>2
    <3>2. stream'[1] = stream[2] /\ stream'[1].kernel \in Kernel
      <4>1. stream'[1] = stream[1 + 1]
        BY <1>2, <3>1
      <4>2. stream'[1] \in Item
        BY <1>2, <3>1
      <4> QED BY <3>1, <4>1, <4>2 DEF Item
    <3>3. Follows(stream[2].kernel, stream[2].call, stream[1])
      BY <1>6, <3>1
    <3> QED BY <1>1, <1>3, <3>2, <3>3
  <2>4. todo' # <<>> /\ stream' = <<>> => Ready(todo[1], Len(made), {})'
    <3> HAVE todo' # <<>> /\ stream' = <<>>
    <3>1. Follows(todo[1], Len(made), stream[1])
      BY <1>2 DEF IInv, Linked
    <3>2. todo[1] \in Kernel
      <4>1. todo \in Seq(Kernel) /\ todo # <<>>
        BY DEF IInv, Queued
      <4> QED BY <4>1
    <3> QED BY <1>3, <3>1, <3>2
  <2> QED BY <2>1, <2>2, <2>3, <2>4 DEF Linked
<1> QED BY <1>5, <1>7

LEMMA MemsetZerosStep ==
  ASSUME IInv, MemsetZeros
  PROVE  IInv'
<1>0. PICK i : i = stream[1].call
  OBVIOUS
<1>1. /\ stream # <<>> /\ scratch' = [a \in DOMAIN scratch |-> <<>>] /\ Finish
      /\ flag' = flag /\ made' = made /\ todo' = todo /\ out' = out
  BY DEF MemsetZeros, Running
<1>2. stream[1] \in Item /\ stream[1].kernel = "zero" /\ i \in DOMAIN made
  BY <1>0, <1>1, HeadType DEF MemsetZeros, Running
<1>3. stream[1] = [kernel |-> "zero", call |-> i]
  BY <1>0, <1>2 DEF Item
<1>4. Ready("atomic", i, {})'
  <2>1. \A c \in DOMAIN scratch : scratch'[c] = <<>>
    BY <1>1
  <2>2. \A c : Lists(<<>>, i, c, {})'
    BY DEF Lists
  <2>3. \A c : {s \in 0 .. made'[i].shards - 1 : <<s, c>> \in {}} = {}
    OBVIOUS
  <2>4. DOMAIN scratch' = DOMAIN scratch
    BY <1>1
  <2>5. Added(i, {})'
    BY <1>1, <2>1, <2>2, <2>3, <2>4 DEF Added
  <2> QED BY <2>5 DEF Ready
<1>5. Queued' /\ Linked'
  BY <1>1, <1>3, <1>4, FinishStep
<1>6. Typed'
  <2>1. scratch' \in [0 .. ScratchLen - 1 -> Seq(Part)]
    BY <1>1 DEF IInv, Typed
  <2> QED BY <1>1, <2>1 DEF IInv, Typed
<1>7. Results'
  BY <1>1, FrameResult DEF IInv, Results
<1> QED BY <1>5, <1>6, <1>7 DEF IInv

LEMMA SplitKernelEndsStep ==
  ASSUME IInv, SplitKernelEnds
  PROVE  IInv'
<1>0. PICK i : i = stream[1].call
  OBVIOUS
<1>1. /\ stream # <<>> /\ Finish /\ ran = Threads
      /\ flag' = flag /\ made' = made /\ todo' = todo /\ out' = out /\ scratch' = scratch
  BY DEF SplitKernelEnds, Running
<1>2. /\ stream[1] \in Item /\ stream[1].kernel \in {"atomic", "stage"} /\ i \in DOMAIN made
      /\ Ready(stream[1].kernel, i, ran) /\ Head(stream) = stream[1]
  BY <1>0, <1>1, HeadType DEF SplitKernelEnds, Running
<1>3. stream[1] = [kernel |-> stream[1].kernel, call |-> i]
  BY <1>0, <1>2 DEF Item
<1>4. ran = ThreadsOf(i)
  BY <1>0, <1>1, <1>2 DEF Threads, ThreadsOf, Request, CallRunning
<1>5. stream[1].kernel = "atomic" => Ready("convert", i, {})'
  <2>1. stream[1].kernel = "atomic" => Ready("convert", i, {})
    BY <1>2, <1>4 DEF Ready
  <2> QED BY <1>1, <2>1, FrameReady
<1>6. stream[1].kernel = "stage" => Ready("reduce", i, {})'
  <2>1. stream[1].kernel = "stage" => Ready("reduce", i, {})
    BY <1>2, <1>4 DEF Ready
  <2> QED BY <1>1, <2>1, FrameReady
<1>7. Queued' /\ Linked'
  BY <1>1, <1>2, <1>3, <1>5, <1>6, FinishStep
<1>8. Typed'
  BY <1>1 DEF IInv, Typed
<1>9. Results'
  BY <1>1, FrameResult DEF IInv, Results
<1> QED BY <1>7, <1>8, <1>9 DEF IInv

\* What the two split kernels leave alone.
LEMMA ThreadStep ==
  ASSUME IInv, stream # <<>>, NEW s, NEW c, <<s, c>> \in ThreadsOf(stream[1].call),
         ran' = ran \cup {<<s, c>>}, stream' = stream, todo' = todo, made' = made, flag' = flag,
         out' = out, scratch' \in [0 .. ScratchLen - 1 -> Seq(Part)],
         Ready(stream[1].kernel, stream[1].call, ran)'
  PROVE  IInv'
<1>1. Typed'
  BY DEF IInv, Typed
<1>2. \A q, k : Granted(k, q)' <=> Granted(k, q)
  BY FramePath
<1>3. Queued'
  <2>1. ran' \subseteq ThreadsOf(stream[1].call)'
    <3>1. ThreadsOf(stream[1].call)' = ThreadsOf(stream[1].call)
      BY FrameParts
    <3>2. ran \subseteq ThreadsOf(stream[1].call)
      BY HeadType
    <3> QED BY <3>1, <3>2
  <2>2. \A p \in DOMAIN stream :
          stream[p].call \in DOMAIN made /\ Granted(stream[p].kernel, made[stream[p].call])
    BY DEF IInv, Queued
  <2>3. todo # <<>> => made # <<>> /\ Remaining(made[Len(made)])'
    <3>1. todo # <<>> => made # <<>> /\ Remaining(made[Len(made)])
      BY DEF IInv, Queued
    <3>2. \A q : Path(q)' = Path(q)
      BY FramePath
    <3>3. \A q : Remaining(q)' <=> Remaining(q)
      BY <3>2 DEF Remaining
    <3> QED BY <3>1, <3>3
  <2>4. stream \in Seq(Item) /\ todo \in Seq(Kernel)
    BY DEF IInv, Queued
  <2> QED BY <1>2, <2>1, <2>2, <2>3, <2>4 DEF Queued
<1>4. Linked'
  BY DEF IInv, Linked, Follows
<1>5. Results'
  BY FrameResult DEF IInv, Results
<1> QED BY <1>1, <1>3, <1>4, <1>5 DEF IInv

LEMMA AddPartialStep ==
  ASSUME IInv, NEW s, NEW c, AddPartial(s, c)
  PROVE  IInv'
<1>0. PICK i : i = stream[1].call
  OBVIOUS
<1> DEFINE q == made[i]
           S == {t \in 0 .. q.shards - 1 : <<t, c>> \in ran}
<1>1. /\ stream # <<>> /\ <<s, c>> \in Threads \ ran /\ ran' = ran \cup {<<s, c>>}
      /\ scratch' = [scratch EXCEPT ![c] = Append(@, Partial(s, c))]
      /\ flag' = flag /\ made' = made /\ todo' = todo /\ stream' = stream /\ out' = out
  BY DEF AddPartial, Running
<1>2. /\ stream[1].kernel = "atomic" /\ Head(stream) = stream[1]
      /\ i \in DOMAIN made /\ q \in Requests /\ Granted("atomic", q)
      /\ Ready("atomic", i, ran)
  BY <1>0, <1>1, HeadType DEF AddPartial, Running
<1>3. Threads = ThreadsOf(i) /\ Partial(s, c) = PartOf(i, s, c)
  BY <1>0, <1>2 DEF Threads, ThreadsOf, Request, CallRunning, Partial, PartOf
<1>4. q.shards \in Nat \ {0} /\ Cells(q) \subseteq 0 .. ScratchLen - 1
  BY <1>2, GrantedAtomic
<1>5. s \in 0 .. q.shards - 1 /\ c \in Cells(q) /\ s \notin S
  BY <1>1, <1>3 DEF ThreadsOf
<1>6. Typed
  BY DEF IInv
<1>7. PartOf(i, s, c) \in Part
  BY <1>2, <1>4, <1>5, <1>6, PartType
<1>8. scratch \in [0 .. ScratchLen - 1 -> Seq(Part)]
  BY <1>6 DEF Typed
<1>9. scratch' = [scratch EXCEPT ![c] = Append(@, PartOf(i, s, c))] /\ c \in 0 .. ScratchLen - 1
  BY <1>1, <1>3, <1>4, <1>5
<1>10. /\ scratch' \in [0 .. ScratchLen - 1 -> Seq(Part)]
       /\ scratch'[c] = Append(scratch[c], PartOf(i, s, c)) /\ scratch[c] \in Seq(Part)
       /\ \A d \in 0 .. ScratchLen - 1 : d # c => scratch'[d] = scratch[d]
  BY <1>7, <1>8, <1>9
<1>11. \A d \in Cells(q) : Lists(scratch[d], i, d, {t \in 0 .. q.shards - 1 : <<t, d>> \in ran})
  BY <1>2, <1>4, <1>8 DEF Ready, Added
<1>12. \A d \in Cells(q) : Lists(scratch'[d], i, d, {t \in 0 .. q.shards - 1 : <<t, d>> \in ran'})
  <2> TAKE d \in Cells(q)
  <2>1. CASE d = c
    <3>1. Lists(scratch[c], i, c, S)
      BY <1>5, <1>11
    <3>2. {t \in 0 .. q.shards - 1 : <<t, c>> \in ran'} = S \cup {s}
      BY <1>1, <1>5
    <3> HIDE DEF S, q
    <3>3. S \in SUBSET (0 .. q.shards - 1)
      BY DEF S
    <3>4. Lists(Append(scratch[c], PartOf(i, s, c)), i, c, S \cup {s})
      BY <1>2, <1>5, <1>10, <3>1, <3>3, ListsAppend DEF q
    <3> QED BY <1>10, <2>1, <3>2, <3>4
  <2>2. CASE d # c
    <3>1. {t \in 0 .. q.shards - 1 : <<t, d>> \in ran'}
            = {t \in 0 .. q.shards - 1 : <<t, d>> \in ran}
      BY <1>1, <2>2
    <3>2. scratch'[d] = scratch[d]
      BY <1>4, <1>10, <2>2
    <3> QED BY <1>11, <3>1, <3>2
  <2> QED BY <2>1, <2>2
<1>13. \A sum, d, T : Lists(sum, i, d, T)' <=> Lists(sum, i, d, T)
  BY <1>1, FrameParts
<1>14. Added(i, ran)'
  BY <1>1, <1>12, <1>13 DEF Added
<1>15. Ready(stream[1].kernel, stream[1].call, ran)'
  <2>1. Ready("atomic", i, ran)'
    BY <1>14 DEF Ready
  <2> QED BY <1>0, <1>1, <1>2, <2>1
<1> QED BY <1>0, <1>1, <1>3, <1>10, <1>15, ThreadStep

LEMMA StorePartialStep ==
  ASSUME IInv, NEW s, NEW c, StorePartial(s, c)
  PROVE  IInv'
<1>0. PICK i : i = stream[1].call
  OBVIOUS
<1> DEFINE q == made[i]
           a == Slot(i, s, c)
<1>1. /\ stream # <<>> /\ <<s, c>> \in Threads \ ran /\ ran' = ran \cup {<<s, c>>}
      /\ scratch' = [scratch EXCEPT ![StageSlot(s, c)] = <<Partial(s, c)>>]
      /\ flag' = flag /\ made' = made /\ todo' = todo /\ stream' = stream /\ out' = out
  BY DEF StorePartial, Running
<1>2. /\ stream[1].kernel = "stage" /\ Head(stream) = stream[1]
      /\ i \in DOMAIN made /\ q \in Requests /\ Granted("stage", q)
      /\ Ready("stage", i, ran) /\ ran \subseteq ThreadsOf(i)
  BY <1>0, <1>1, HeadType DEF StorePartial, Running
<1>3. Threads = ThreadsOf(i) /\ Partial(s, c) = PartOf(i, s, c) /\ StageSlot(s, c) = a
  BY <1>0, <1>2 DEF Threads, ThreadsOf, Request, CallRunning, Partial, PartOf, StageSlot, Slot
<1>4. q.shards \in Nat \ {0} /\ StageFits(q)
  BY <1>2, GrantedStaged
<1>5. s \in 0 .. q.shards - 1 /\ c \in Cells(q) /\ <<s, c>> \in ThreadsOf(i) \ ran
  BY <1>1, <1>3 DEF ThreadsOf
<1>6. Typed
  BY DEF IInv
<1>7. PartOf(i, s, c) \in Part
  BY <1>2, <1>4, <1>5, <1>6, PartType
<1>8. scratch \in [0 .. ScratchLen - 1 -> Seq(Part)]
  BY <1>6 DEF Typed
<1>9. /\ a \in 0 .. ScratchLen - 1
      /\ \A u \in ThreadsOf(i) : Slot(i, u[1], u[2]) = a => u = <<s, c>>
  <2>1. PICK t \in ThreadsOf(i) : t = <<s, c>>
    BY <1>5
  <2>2. t[1] = s /\ t[2] = c
    BY <2>1
  <2>3. /\ Slot(i, t[1], t[2]) \in 0 .. ScratchLen - 1
        /\ \A u \in ThreadsOf(i) : Slot(i, u[1], u[2]) = Slot(i, t[1], t[2]) => u = t
    BY <1>2, <1>4, Slots
  <2> QED BY <2>1, <2>2, <2>3
<1> HIDE DEF a
<1>10. /\ scratch' \in [0 .. ScratchLen - 1 -> Seq(Part)]
       /\ scratch'[a] = <<PartOf(i, s, c)>>
       /\ \A d \in 0 .. ScratchLen - 1 : d # a => scratch'[d] = scratch[d]
  BY <1>1, <1>3, <1>7, <1>8, <1>9
<1>11. ASSUME NEW t \in ran'
       PROVE  scratch'[Slot(i, t[1], t[2])] = <<PartOf(i, t[1], t[2])>>
  <2>1. CASE t = <<s, c>>
    BY <1>10, <2>1 DEF a
  <2>2. CASE t \in ran
    <3>1. t \in ThreadsOf(i) /\ t # <<s, c>>
      BY <1>2, <1>5, <2>2
    <3>2. Slot(i, t[1], t[2]) # a /\ Slot(i, t[1], t[2]) \in 0 .. ScratchLen - 1
      BY <1>2, <1>4, <1>9, <3>1, Slots
    <3>3. scratch[Slot(i, t[1], t[2])] = <<PartOf(i, t[1], t[2])>>
      BY <1>2, <2>2 DEF Ready, Stored
    <3> QED BY <1>10, <3>2, <3>3
  <2> QED BY <1>1, <1>11, <2>1, <2>2
<1>12. Stored(i, ran)'
  <2>1. \A d, e : PartOf(i, d, e)' = PartOf(i, d, e) /\ Slot(i, d, e)' = Slot(i, d, e)
    BY <1>1, FrameParts
  <2> QED BY <1>11, <2>1 DEF Stored
<1>13. Ready(stream[1].kernel, stream[1].call, ran)'
  <2>1. Ready("stage", i, ran)'
    BY <1>12 DEF Ready
  <2> QED BY <1>0, <1>1, <1>2, <2>1
<1> QED BY <1>0, <1>1, <1>3, <1>10, <1>13, ThreadStep

\* A kernel that writes the output of its call ends the call.
LEMMA WriteStep ==
  ASSUME IInv, stream # <<>>, Finish, todo' = todo, made' = made, flag' = flag, scratch' = scratch,
         NEW i, i = stream[1].call, stream[1].kernel \in {"convert", "reduce", "whole"},
         NEW f \in [Cells(made[i]) -> Seq(Part)], out' = [out EXCEPT ![i] = f],
         Result(i)'
  PROVE  IInv'
<1>1. stream[1] \in Item /\ i \in DOMAIN made /\ made[i] \in Requests
  BY HeadType
<1>2. stream[1] = [kernel |-> stream[1].kernel, call |-> i]
  BY <1>1 DEF Item
<1>3. Queued' /\ Linked'
  BY <1>2, FinishStep
<1>4. /\ out \in Seq(Outputs) /\ Len(out) = Len(made) /\ made \in Seq(Requests)
      /\ \A j \in DOMAIN made : out[j] \in [Cells(made[j]) -> Seq(Part)]
  BY DEF IInv, Typed
<1>5. f \in Outputs
  BY <1>1 DEF Outputs
<1>6. /\ DOMAIN out = DOMAIN made /\ out' \in Seq(Outputs) /\ Len(out') = Len(made)
      /\ \A j \in DOMAIN made : out'[j] = IF j = i THEN f ELSE out[j]
  <2>1. DOMAIN out = 1 .. Len(made) /\ DOMAIN made = 1 .. Len(made) /\ Len(made) \in Nat
    BY <1>4
  <2>2. \A j \in 1 .. Len(made) : out'[j] = IF j = i THEN f ELSE out[j]
    BY <2>1
  <2>3. out' \in Seq(Outputs) /\ Len(out') = Len(made)
    BY <1>1, <1>4, <1>5, <2>1
  <2> QED BY <2>1, <2>2, <2>3
<1>7. Typed'
  <2>1. \A j \in DOMAIN made : out'[j] \in [Cells(made[j]) -> Seq(Part)]
    BY <1>4, <1>6
  <2> QED BY <1>6, <2>1 DEF IInv, Typed
<1>8. Results'
  <2>1. ASSUME NEW j \in DOMAIN made PROVE Result(j)'
    <3>1. CASE j = i
      BY <3>1
    <3>2. CASE j # i
      <4>1. out'[j] = out[j] /\ Result(j)
        BY <1>6, <3>2 DEF IInv, Results
      <4> QED BY <4>1, FrameResult
    <3> QED BY <3>1, <3>2
  <2> QED BY <2>1 DEF Results
<1> QED BY <1>3, <1>7, <1>8 DEF IInv

LEMMA ConvertStep ==
  ASSUME IInv, ConvertF32
  PROVE  IInv'
<1>0. PICK i : i = stream[1].call
  OBVIOUS
<1> DEFINE q == made[i]
           f == [c \in Cells(q) |-> scratch[c]]
<1>1. /\ stream # <<>> /\ Finish /\ flag' = flag /\ made' = made /\ todo' = todo
      /\ scratch' = scratch
  BY DEF ConvertF32, WriteOut, Running
<1>2. /\ stream[1].kernel = "convert" /\ Head(stream) = stream[1]
      /\ i \in DOMAIN made /\ q \in Requests /\ Granted("convert", q)
      /\ Ready("convert", i, ran)
  BY <1>0, <1>1, HeadType DEF ConvertF32, Running
<1>3. out' = [out EXCEPT ![i] = f]
  BY <1>0, <1>2 DEF ConvertF32, WriteOut, Request, CallRunning
<1>4. q.shards \in Nat \ {0} /\ Cells(q) \subseteq 0 .. ScratchLen - 1
  BY <1>2, GrantedAtomic
<1>5. scratch \in [0 .. ScratchLen - 1 -> Seq(Part)]
  BY DEF IInv, Typed
<1>6. f \in [Cells(q) -> Seq(Part)]
  BY <1>4, <1>5
<1>7. \A c \in Cells(q) : Lists(scratch[c], i, c, 0 .. q.shards - 1)
  <2> TAKE c \in Cells(q)
  <2>1. Lists(scratch[c], i, c, {s \in 0 .. q.shards - 1 : <<s, c>> \in ThreadsOf(i)})
    BY <1>2, <1>4, <1>5 DEF Ready, Added
  <2>2. {s \in 0 .. q.shards - 1 : <<s, c>> \in ThreadsOf(i)} = 0 .. q.shards - 1
    BY DEF ThreadsOf
  <2> QED BY <2>1, <2>2
<1>8. i \in DOMAIN out
  <2>1. out \in Seq(Outputs) /\ made \in Seq(Requests) /\ Len(out) = Len(made)
    BY DEF IInv, Typed
  <2> QED BY <1>2, <2>1
<1>9. Result(i)'
  <2>1. out'[i] = f
    BY <1>3, <1>8
  <2>2. \A sum, c, S : Lists(sum, i, c, S)' <=> Lists(sum, i, c, S)
    BY <1>1, FrameParts
  <2>3. \A c \in Cells(q) : Lists(out[i][c], i, c, 0 .. made[i].shards - 1)'
    BY <1>1, <1>7, <2>1, <2>2
  <2>4. Path(made[i])' = AtomicPath
    <3>1. Path(q) = AtomicPath
      BY <1>2 DEF Granted, PathOf
    <3> QED BY <1>1, <3>1, FramePath
  <2>5. made'[i] = q /\ q.shards > 0
    BY <1>1, <1>4
  <2> QED BY <2>3, <2>4, <2>5 DEF Result
<1> QED BY <1>0, <1>1, <1>2, <1>3, <1>6, <1>9, WriteStep

LEMMA WholeStep ==
  ASSUME IInv, GemvWhole
  PROVE  IInv'
<1>0. PICK i : i = stream[1].call
  OBVIOUS
<1> DEFINE q == made[i]
           f == [c \in Cells(q) |-> <<WholePart(i, c)>>]
<1>1. /\ stream # <<>> /\ Finish /\ flag' = flag /\ made' = made /\ todo' = todo
      /\ scratch' = scratch
  BY DEF GemvWhole, WriteOut, Running
<1>2. /\ stream[1].kernel = "whole" /\ Head(stream) = stream[1]
      /\ i \in DOMAIN made /\ q \in Requests /\ Granted("whole", q)
  BY <1>0, <1>1, HeadType DEF GemvWhole, Running
<1>3. out' = [out EXCEPT ![i] = f]
  BY <1>0, <1>2 DEF GemvWhole, WriteOut, Request, CallRunning, WholePart
<1>4. f \in [Cells(q) -> Seq(Part)]
  <2>1. i \in 0 .. MaxCalls
    BY <1>2, SplitKOK DEF IInv, Typed
  <2>2. \A c \in Cells(q) : WholePart(i, c) \in Part
    BY <1>2, <2>1, RequestTypes DEF WholePart, Part
  <2> QED BY <2>2
<1>5. i \in DOMAIN out
  <2>1. out \in Seq(Outputs) /\ made \in Seq(Requests) /\ Len(out) = Len(made)
    BY DEF IInv, Typed
  <2> QED BY <1>2, <2>1
<1>6. Result(i)'
  <2>1. out'[i] = f
    BY <1>3, <1>5
  <2>2. \A c \in Cells(q) : (out[i][c] = <<WholePart(i, c)>>)'
    <3>1. \A c : WholePart(i, c)' = WholePart(i, c)
      BY <1>1, FrameParts
    <3> QED BY <2>1, <3>1
  <2>3. Path(made[i])' = <<"whole">>
    <3>1. Path(q) = <<"whole">>
      BY <1>2 DEF Granted, PathOf
    <3> QED BY <1>1, <3>1, FramePath
  <2> QED BY <1>1, <2>2, <2>3 DEF Result
<1> QED BY <1>0, <1>1, <1>2, <1>3, <1>4, <1>6, WriteStep

LEMMA ReduceStep ==
  ASSUME IInv, ShardReduce
  PROVE  IInv'
<1>0. PICK i : i = stream[1].call
  OBVIOUS
<1> DEFINE q == made[i]
           parts(c) == [j \in 1 .. q.shards |-> PartOf(i, j - 1, c)]
           f == [c \in Cells(q) |-> parts(c)]
<1>1. /\ stream # <<>> /\ Finish /\ flag' = flag /\ made' = made /\ todo' = todo
      /\ scratch' = scratch
  BY DEF ShardReduce, WriteOut, Running
<1>2. /\ stream[1].kernel = "reduce" /\ Head(stream) = stream[1]
      /\ i \in DOMAIN made /\ q \in Requests /\ Granted("reduce", q)
      /\ Ready("reduce", i, ran)
  BY <1>0, <1>1, HeadType DEF ShardReduce, Running
<1>3. out' = [out EXCEPT ![i] = [c \in Cells(q) |->
                FlattenSeq([j \in 1 .. q.shards |-> scratch[(j - 1) * Cardinality(Cells(q)) + c]])]]
  BY <1>0, <1>2 DEF ShardReduce, WriteOut, Request, CallRunning
<1>4. q.shards \in Nat \ {0}
  BY <1>2, GrantedStaged
<1>5. q.rows * q.n \in Nat \ {0} /\ q.rows \in Nat /\ q.n \in Nat
  BY <1>2, RequestTypes
<1>6. Cardinality(Cells(q)) = q.rows * q.n
  <2> DEFINE r == q.rows * q.n
  <2>1. Cells(q) = 0 .. r - 1
    BY DEF Cells
  <2>2. r \in Nat \ {0}
    BY <1>5
  <2> HIDE DEF r
  <2>3. Cardinality(0 .. r - 1) = r
    BY <2>2, FS_Interval
  <2> QED BY <2>1, <2>3 DEF r
<1>7. \A c \in Cells(q), j \in 1 .. q.shards :
        /\ scratch[(j - 1) * Cardinality(Cells(q)) + c] = <<PartOf(i, j - 1, c)>>
        /\ PartOf(i, j - 1, c) \in Part
  <2> TAKE c \in Cells(q), j \in 1 .. q.shards
  <2>1. j - 1 \in 0 .. q.shards - 1
    BY <1>4
  <2>2. PICK t \in ThreadsOf(i) : t = <<j - 1, c>>
    BY <2>1 DEF ThreadsOf
  <2>3. scratch[Slot(i, t[1], t[2])] = <<PartOf(i, t[1], t[2])>>
    BY <1>2 DEF Ready, Stored
  <2>4. t[1] = j - 1 /\ t[2] = c
    BY <2>2
  <2>5. Slot(i, j - 1, c) = (j - 1) * Cardinality(Cells(q)) + c
    <3>1. (j - 1) * q.rows * q.n = (j - 1) * (q.rows * q.n)
      BY <1>5, <2>1
    <3> QED BY <1>6, <3>1 DEF Slot
  <2>6. PartOf(i, j - 1, c) \in Part
    BY <1>2, <1>4, <2>1, PartType DEF IInv
  <2> QED BY <2>3, <2>4, <2>5, <2>6
<1>8. \A c \in Cells(q) :
        /\ parts(c) \in Seq(Part)
        /\ FlattenSeq([j \in 1 .. q.shards |-> scratch[(j - 1) * Cardinality(Cells(q)) + c]])
             = parts(c)
  <2> TAKE c \in Cells(q)
  <2>1. parts(c) \in [1 .. q.shards -> Part]
    BY <1>7
  <2>2. [j \in 1 .. q.shards |-> scratch[(j - 1) * Cardinality(Cells(q)) + c]]
          = [j \in 1 .. q.shards |-> <<parts(c)[j]>>]
    <3>1. \A j \in 1 .. q.shards : parts(c)[j] = PartOf(i, j - 1, c)
      OBVIOUS
    <3>2. \A j \in 1 .. q.shards :
            scratch[(j - 1) * Cardinality(Cells(q)) + c] = <<parts(c)[j]>>
      BY <1>7, <3>1
    <3> HIDE DEF parts, q
    <3> QED BY <3>2
  <2> HIDE DEF parts, q
  <2>3. parts(c) \in Seq(Part)
    BY <1>4, <2>1
  <2>4. FlattenSeq([j \in 1 .. q.shards |-> scratch[(j - 1) * Cardinality(Cells(q)) + c]])
          = parts(c)
    BY <1>4, <2>1, <2>2, FlattenSingletons
  <2> QED BY <2>3, <2>4
<1>9. out' = [out EXCEPT ![i] = f]
  <2>1. [c \in Cells(q) |->
          FlattenSeq([j \in 1 .. q.shards |-> scratch[(j - 1) * Cardinality(Cells(q)) + c]])] = f
    <3> HIDE DEF parts
    <3> QED BY <1>8
  <2> QED BY <1>3, <2>1
<1>10. f \in [Cells(q) -> Seq(Part)]
  <2> HIDE DEF parts
  <2> QED BY <1>8
<1>11. i \in DOMAIN out
  <2>1. out \in Seq(Outputs) /\ made \in Seq(Requests) /\ Len(out) = Len(made)
    BY DEF IInv, Typed
  <2> QED BY <1>2, <2>1
<1>12. Result(i)'
  <2>1. out'[i] = f
    BY <1>9, <1>11
  <2>2. \A c \in Cells(q) :
          (out[i][c] = [j \in 1 .. made[i].shards |-> PartOf(i, j - 1, c)])'
    BY <1>1, <2>1 DEF PartOf
  <2>3. Path(made[i])' = StagedPath
    <3>1. Path(q) = StagedPath
      BY <1>2, GrantedStaged
    <3> QED BY <1>1, <3>1, FramePath
  <2>4. made'[i] = q /\ q.shards > 0
    BY <1>1, <1>4
  <2> QED BY <2>2, <2>3, <2>4 DEF Result
<1> HIDE DEF f
<1> QED BY <1>0, <1>1, <1>2, <1>9, <1>10, <1>12, WriteStep

LEMMA NextStep == IInv /\ [Next]_vars => IInv'
<1> SUFFICES ASSUME IInv, [Next]_vars PROVE IInv'
  OBVIOUS
<1>1. CASE UNCHANGED vars
  <2>1. /\ flag' = flag /\ made' = made /\ todo' = todo /\ stream' = stream /\ ran' = ran
        /\ scratch' = scratch /\ out' = out
    BY <1>1 DEF vars
  <2>2. \A k : /\ ThreadsOf(k)' = ThreadsOf(k)
               /\ Result(k)' <=> Result(k)
               /\ \A kernel, T : Ready(kernel, k, T)' <=> Ready(kernel, k, T)
    BY <2>1, FrameParts, FrameResult, FrameReady
  <2>3. \A q : Path(q)' = Path(q) /\ \A kernel : Granted(kernel, q)' <=> Granted(kernel, q)
    BY <2>1, FramePath
  <2>4. \A q : Remaining(q)' <=> Remaining(q)
    BY <2>1, <2>3 DEF Remaining
  <2>5. Typed' /\ Results'
    BY <2>1, <2>2 DEF IInv, Typed, Results
  <2>6. Queued'
    BY <2>1, <2>2, <2>3, <2>4 DEF IInv, Queued
  <2>7. Linked'
    BY <2>1, <2>2 DEF IInv, Linked, Follows
  <2> QED BY <2>5, <2>6, <2>7 DEF IInv
<1>2. CASE \E q \in Requests : Call(q)
  BY <1>2, CallStep
<1>3. CASE Enqueue \/ EnqueueFails
  BY <1>3, EnqueueStep, EnqueueFailsStep
<1>4. CASE Thread
  BY <1>4, AddPartialStep, StorePartialStep DEF Thread
<1>5. CASE SplitKernelEnds \/ MemsetZeros
  BY <1>5, SplitKernelEndsStep, MemsetZerosStep
<1>6. CASE ShardReduce \/ ConvertF32 \/ GemvWhole
  BY <1>6, ReduceStep, ConvertStep, WholeStep
<1> QED BY <1>1, <1>2, <1>3, <1>4, <1>5, <1>6 DEF Next

\* The invariant holds in every reachable state, for every set of requests, size of the
\* scratch buffer and grid.
THEOREM Inductive == Spec => []IInv
BY Starts, NextStep, PTL DEF Spec

-----------------------------------------------------------------------------
(* What follows.                                                           *)

\* No thread writes outside the scratch buffer, whatever its size and the calls made.
THEOREM TypeCorrect == Spec => []TypeOK
<1>1. IInv => TypeOK
  <2> SUFFICES ASSUME IInv PROVE TypeOK
    OBVIOUS
  <2>1. /\ made \in Seq(Requests) /\ Len(made) <= MaxCalls
        /\ scratch \in [0 .. ScratchLen - 1 -> Seq(Part)]
        /\ out \in Seq(Outputs) /\ Len(out) = Len(made)
        /\ \A i \in DOMAIN made : out[i] \in [Cells(made[i]) -> Seq(Part)]
    BY DEF IInv, Typed
  <2>2. DOMAIN out = DOMAIN made
    BY <2>1
  <2>3. /\ \A p \in DOMAIN todo : todo[p] \in Kernel
        /\ \A p \in DOMAIN stream : stream[p].call \in DOMAIN made
    BY DEF IInv, Queued
  <2>4. CASE stream = <<>>
    <3>1. ran = {}
      BY <2>4 DEF IInv, Queued
    <3> QED BY <2>1, <2>2, <2>3, <2>4, <3>1 DEF TypeOK, Running, Kernel
  <2>5. CASE stream # <<>>
    <3> DEFINE q == made[stream[1].call]
    <3>1. /\ Head(stream) = stream[1] /\ q \in Requests /\ Granted(stream[1].kernel, q)
          /\ ran \subseteq ThreadsOf(stream[1].call)
      BY <2>5, HeadType
    <3>2. Request = q /\ Threads = ThreadsOf(stream[1].call)
      BY <3>1 DEF Request, CallRunning, Threads, ThreadsOf
    <3>3. Running("stage") => \A t \in Threads : StageSlot(t[1], t[2]) \in DOMAIN scratch
      <4> HAVE Running("stage")
      <4>1. StageFits(q)
        BY <3>1, GrantedStaged DEF Running
      <4> TAKE t \in Threads
      <4>2. Slot(stream[1].call, t[1], t[2]) \in 0 .. ScratchLen - 1
        BY <3>1, <3>2, <4>1, Slots
      <4> QED BY <2>1, <3>2, <4>2 DEF Slot, StageSlot
    <3>4. Running("atomic") => Cells(Request) \subseteq DOMAIN scratch
      <4> HAVE Running("atomic")
      <4>1. Cells(q) \subseteq 0 .. ScratchLen - 1
        BY <3>1, GrantedAtomic DEF Running
      <4> QED BY <2>1, <3>2, <4>1
    <3> QED BY <2>1, <2>2, <2>3, <2>5, <3>1, <3>2, <3>3, <3>4 DEF TypeOK, Kernel
  <2> QED BY <2>4, <2>5
<1> QED BY <1>1, Inductive, PTL

\* What ExactSums says of one sum.
SumExact(sum, i, c) ==
  /\ \A j \in DOMAIN sum : sum[j].call = i /\ sum[j].cell = c
  /\ \A j \in DOMAIN sum : sum[j].start + sum[j].len <= made[i].k
  /\ \A k \in 0 .. made[i].k - 1 : Cardinality({j \in DOMAIN sum : Covers(sum[j], k)}) = 1

\* A list of the parts of all shards has each product once.
LEMMA ListsExact ==
  ASSUME AllFit, NEW i, made[i] \in Requests, made[i].shards > 0, NEW c, NEW sum,
         Lists(sum, i, c, 0 .. made[i].shards - 1)
  PROVE  SumExact(sum, i, c)
<1> DEFINE K == made[i].k
           n == made[i].shards
<1>1. K \in Nat \ {0} /\ n \in Nat \ {0} /\ Fits(K, n)
  BY RequestTypes DEF AllFit
<1>2. /\ \A k \in 0 .. K - 1 : \E s \in 0 .. n - 1 :
           /\ Covers(ShardProducts(K, n, s), k)
           /\ \A t \in 0 .. n - 1 : Covers(ShardProducts(K, n, t), k) => t = s
      /\ \A s \in 0 .. n - 1 : KStart(K, n, s) + ShardLen(K, n, s) <= K
  BY <1>1, ShardsPartition
<1>3. \A s, k : Covers(PartOf(i, s, c), k) <=> Covers(ShardProducts(K, n, s), k)
  BY DEF Covers, PartOf, ShardProducts
<1>4. \A j \in DOMAIN sum : \E s \in 0 .. n - 1 : sum[j] = PartOf(i, s, c)
  BY DEF Lists
<1>5. \A j \in DOMAIN sum : sum[j].call = i /\ sum[j].cell = c
  BY <1>4 DEF PartOf
<1>6. \A j \in DOMAIN sum : sum[j].start + sum[j].len <= K
  BY <1>2, <1>4 DEF PartOf
<1>7. ASSUME NEW k \in 0 .. K - 1
      PROVE  Cardinality({j \in DOMAIN sum : Covers(sum[j], k)}) = 1
  <2>1. PICK s \in 0 .. n - 1 :
          /\ Covers(ShardProducts(K, n, s), k)
          /\ \A t \in 0 .. n - 1 : Covers(ShardProducts(K, n, t), k) => t = s
    BY <1>2
  <2>2. PICK j \in DOMAIN sum : sum[j] = PartOf(i, s, c)
    BY DEF Lists
  <2>3. ASSUME NEW l \in DOMAIN sum, Covers(sum[l], k) PROVE l = j
    <3>1. PICK t \in 0 .. n - 1 : sum[l] = PartOf(i, t, c)
      BY <1>4
    <3>2. t = s
      BY <1>3, <2>1, <2>3, <3>1
    <3>3. sum[l] = sum[j]
      BY <2>2, <3>1, <3>2
    <3> QED BY <3>3 DEF Lists
  <2>4. {l \in DOMAIN sum : Covers(sum[l], k)} = {j}
    BY <1>3, <2>1, <2>2, <2>3
  <2> QED BY <2>4, FS_Singleton
<1> QED BY <1>5, <1>6, <1>7 DEF SumExact

\* The reducer adds up the parts in the order of their shards.
LEMMA StagedLists ==
  ASSUME NEW i, made[i] \in Requests, NEW c, NEW sum,
         sum = [j \in 1 .. made[i].shards |-> PartOf(i, j - 1, c)]
  PROVE  Lists(sum, i, c, 0 .. made[i].shards - 1)
<1> DEFINE n == made[i].shards
<1>1. n \in Nat
  BY RequestTypes
<1>2. DOMAIN sum = 1 .. n /\ \A j \in 1 .. n : sum[j] = PartOf(i, j - 1, c) /\ j - 1 \in 0 .. n - 1
  BY <1>1
<1>3. \A j \in DOMAIN sum : \E s \in 0 .. n - 1 : sum[j] = PartOf(i, s, c)
  BY <1>2
<1>4. \A s \in 0 .. n - 1 : \E j \in DOMAIN sum : sum[j] = PartOf(i, s, c)
  <2> TAKE s \in 0 .. n - 1
  <2>1. s + 1 \in 1 .. n /\ s + 1 - 1 = s
    BY <1>1
  <2>2. sum[s + 1] = PartOf(i, s, c)
    BY <1>2, <2>1
  <2> QED BY <1>2, <2>1, <2>2
<1>5. ASSUME AllFit, NEW j \in DOMAIN sum, NEW l \in DOMAIN sum, sum[j] = sum[l]
      PROVE  j = l
  <2>1. PICK s \in 0 .. n - 1, t \in 0 .. n - 1 :
          s = j - 1 /\ t = l - 1 /\ sum[j] = PartOf(i, s, c) /\ sum[l] = PartOf(i, t, c)
    BY <1>2
  <2>2. s = t
    BY <1>5, <2>1, PartsDiffer
  <2>3. j \in 1 .. n /\ l \in 1 .. n
    BY <1>2
  <2> QED BY <2>1, <2>2, <2>3
<1> QED BY <1>3, <1>4, <1>5 DEF Lists

\* If no shard of a request starts behind K, every output adds up the products of its own
\* call, column and row, each once: the sums of an earlier call, or of one that failed
\* half-way, never show, in whatever order the shards ran and whichever path was taken.
THEOREM ExactCorrect == ASSUME AllFit PROVE Spec => []ExactSums
<1>1. IInv => ExactSums
  <2> SUFFICES ASSUME IInv, NEW i \in DOMAIN made, NEW c \in Cells(made[i]), Written(i, c),
                      NEW sum, sum = out[i][c]
               PROVE  SumExact(sum, i, c)
    BY DEF ExactSums, SumExact
  <2>1. made[i] \in Requests /\ Result(i)
    BY DEF IInv, Typed, Results
  <2>2. CASE made[i].shards > 0 /\ Lists(sum, i, c, 0 .. made[i].shards - 1)
    BY <2>1, <2>2, ListsExact
  <2>3. CASE /\ made[i].shards > 0
             /\ sum = [j \in 1 .. made[i].shards |-> PartOf(i, j - 1, c)]
    BY <2>1, <2>2, <2>3, StagedLists
  <2>4. CASE sum = <<WholePart(i, c)>>
    <3>1. DOMAIN sum = {1} /\ sum[1] = WholePart(i, c) /\ made[i].k \in Nat
      BY <2>1, <2>4, RequestTypes
    <3>2. \A k \in 0 .. made[i].k - 1 : Covers(sum[1], k)
      BY <3>1 DEF Covers, WholePart
    <3>3. ASSUME NEW k \in 0 .. made[i].k - 1
          PROVE  Cardinality({j \in DOMAIN sum : Covers(sum[j], k)}) = 1
      <4>1. {j \in DOMAIN sum : Covers(sum[j], k)} = {1}
        BY <3>1, <3>2
      <4> QED BY <4>1, FS_Singleton
    <3>4. sum[1].call = i /\ sum[1].cell = c /\ sum[1].start + sum[1].len <= made[i].k
      BY <3>1 DEF WholePart
    <3> QED BY <3>1, <3>3, <3>4 DEF SumExact
  <2> QED BY <2>1, <2>2, <2>3, <2>4 DEF Result, Written
<1> QED BY <1>1, Inductive, PTL

\* Equal summands in the same order round alike.
LEMMA SameRounding ==
  ASSUME NEW i, NEW c, NEW j, NEW d, NEW n \in Nat, Len(out[i][c]) = n, Len(out[j][d]) = n,
         \A l \in 1 .. n : /\ out[i][c][l].start = out[j][d][l].start
                           /\ out[i][c][l].len = out[j][d][l].len
  PROVE  Rounding(i, c) = Rounding(j, d)
<1> DEFINE p(l) == [start |-> out[i][c][l].start, len |-> out[i][c][l].len]
           r(l) == [start |-> out[j][d][l].start, len |-> out[j][d][l].len]
<1>1. \A l \in 1 .. n : p(l) = r(l)
  OBVIOUS
<1>2. Rounding(i, c) = <<{p(l) : l \in 1 .. Lower(2, n)}, [l \in 1 .. n - 2 |-> p(l + 2)]>>
  BY DEF Rounding
<1>3. Rounding(j, d) = <<{r(l) : l \in 1 .. Lower(2, n)}, [l \in 1 .. n - 2 |-> r(l + 2)]>>
  BY DEF Rounding
<1>4. \A l \in 1 .. Lower(2, n) : l \in 1 .. n
  BY DEF Lower
<1>5. \A l \in 1 .. n - 2 : l + 2 \in 1 .. n
  OBVIOUS
<1> HIDE DEF p, r
<1>6. {p(l) : l \in 1 .. Lower(2, n)} = {r(l) : l \in 1 .. Lower(2, n)}
  BY <1>1, <1>4
<1>7. [l \in 1 .. n - 2 |-> p(l + 2)] = [l \in 1 .. n - 2 |-> r(l + 2)]
  BY <1>1, <1>5
<1> QED BY <1>2, <1>3, <1>6, <1>7

\* Two calls that took the same path, the staged one or that of one thread, with equal
\* dimensions give the same result, in whichever rows.
LEMMA SameParts ==
  ASSUME IInv, NEW i \in DOMAIN made, NEW j \in DOMAIN made, NEW c \in Cells(made[i]),
         NEW d \in Cells(made[j]), made[i].k = made[j].k, made[i].shards = made[j].shards,
         Path(made[i]) = Path(made[j]), Path(made[i]) # AtomicPath
  PROVE  SameResult(i, c, j, d)
<1> SUFFICES ASSUME Written(i, c), Written(j, d) PROVE Rounding(i, c) = Rounding(j, d)
  BY DEF SameResult
<1> DEFINE n == made[i].shards
<1>1. Result(i) /\ Result(j) /\ made[i] \in Requests
  BY DEF IInv, Results, Typed
<1>2. n \in Nat
  BY <1>1, RequestTypes
<1>3. CASE Path(made[i]) = StagedPath
  <2>1. /\ out[i][c] = [l \in 1 .. n |-> PartOf(i, l - 1, c)]
        /\ out[j][d] = [l \in 1 .. n |-> PartOf(j, l - 1, d)]
    BY <1>1, <1>3, PathsDiffer DEF Result, Written
  <2>2. Len(out[i][c]) = n /\ Len(out[j][d]) = n
    BY <1>2, <2>1
  <2>3. \A l \in 1 .. n : /\ out[i][c][l].start = out[j][d][l].start
                          /\ out[i][c][l].len = out[j][d][l].len
    BY <2>1 DEF PartOf
  <2> QED BY <1>2, <2>2, <2>3, SameRounding
<1>4. CASE Path(made[i]) = <<"whole">>
  <2>1. out[i][c] = <<WholePart(i, c)>> /\ out[j][d] = <<WholePart(j, d)>>
    BY <1>1, <1>4, PathsDiffer DEF Result, Written
  <2>2. PICK m \in Nat : m = 1
    OBVIOUS
  <2>3. Len(out[i][c]) = m /\ Len(out[j][d]) = m
    BY <2>1, <2>2
  <2>4. \A l \in 1 .. m : /\ out[i][c][l].start = out[j][d][l].start
                          /\ out[i][c][l].len = out[j][d][l].len
    BY <2>1, <2>2 DEF WholePart
  <2> QED BY <2>3, <2>4, SameRounding
<1> QED BY <1>1, <1>3, <1>4, PathChosen

\* With the flag, a wrapper that can honour it never takes the path whose result depends
\* on the order of the shards.
LEMMA FlagHonoured ==
  ASSUME flag, NEW q \in Requests, HonoursFlag(q)
  PROVE  Path(q) # AtomicPath
<1>1. CASE q.wrapper \in {"w8a16", "w8a16_w16"} /\ StageFits(q)
  <2>1. Path(q) = W8A16Path(q)
    BY <1>1 DEF Path
  <2> QED BY <1>1, <2>1, PathsDiffer DEF W8A16Path
<1>2. CASE q.wrapper = "bf16"
  <2>1. Path(q) = Bf16Path(q)
    BY <1>2 DEF Path
  <2> QED BY <2>1, PathsDiffer DEF Bf16Path
<1>3. CASE q.wrapper = "gemm_bf16_det"
  <2>1. Path(q) = StagedPath
    BY <1>3 DEF Path
  <2> QED BY <2>1, PathsDiffer
<1> QED BY <1>1, <1>2, <1>3 DEF HonoursFlag

\* With the flag, equal calls round alike, for every request, history of the scratch
\* buffer and order of the threads.
THEOREM ReproducibleCorrect == Spec => []StagedReproducible
<1>1. IInv => StagedReproducible
  <2> SUFFICES ASSUME IInv, flag, NEW i \in DOMAIN made, NEW j \in DOMAIN made,
                      made[i] = made[j], HonoursFlag(made[i]), NEW c \in Cells(made[i])
               PROVE  SameResult(i, c, j, c)
    BY DEF StagedReproducible
  <2>1. made[i] \in Requests
    BY DEF IInv, Typed
  <2> QED BY <2>1, FlagHonoured, SameParts
<1> QED BY <1>1, Inductive, PTL

\* With the flag, a row of the batched wrapper rounds like the wrapper for one row.
THEOREM BatchedCorrect == Spec => []BatchedRowsMatch
<1>1. IInv => BatchedRowsMatch
  <2> SUFFICES ASSUME IInv, flag, NEW i \in DOMAIN made, NEW j \in DOMAIN made,
                      made[i].wrapper = "bf16", made[j].wrapper = "gemm_bf16_det",
                      StageFits(made[i]), made[i].n = made[j].n, made[i].k = made[j].k,
                      made[i].shards = made[j].shards,
                      NEW c \in Cells(made[i]), NEW row \in 0 .. made[j].rows - 1
               PROVE  SameResult(i, c, j, row * made[j].n + c)
    BY DEF BatchedRowsMatch
  <2>1. made[i] \in Requests /\ made[j] \in Requests
    BY DEF IInv, Typed
  <2>2. Path(made[i]) = StagedPath /\ Path(made[j]) = StagedPath
    <3>1. Path(made[i]) = Bf16Path(made[i])
      BY DEF Path
    <3>2. Path(made[j]) = StagedPath
      BY DEF Path
    <3> QED BY <3>1, <3>2 DEF Bf16Path
  <2>3. row * made[j].n + c \in Cells(made[j])
    <3>1. made[i].rows = 1 /\ made[j].n \in Nat \ {0} /\ made[j].rows \in Nat
      BY <2>1, RequestTypes
    <3>2. c \in 0 .. made[j].n - 1
      BY <3>1 DEF Cells
    <3>3. /\ row * made[j].n + c \in Nat
          /\ row * made[j].n + c < made[j].rows * made[j].n
      BY <3>1, <3>2, SlotInRange
    <3>4. made[j].rows * made[j].n \in Nat
      BY <3>1
    <3> QED BY <3>3, <3>4 DEF Cells
  <2> QED BY <2>2, <2>3, PathsDiffer, SameParts
<1> QED BY <1>1, Inductive, PTL

=============================================================================
