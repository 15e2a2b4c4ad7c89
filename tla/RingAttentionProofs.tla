------------------------- MODULE RingAttentionProofs -------------------------
(***************************************************************************)
(* What RingAttention keeps for any number of ranks.                       *)
(* A rank's stream runs the same 3 * WorldSize jobs in every call: the     *)
(* copy, then a launch, an exchange of K and one of V for each step, the   *)
(* last step's exchanges left out, then the combine.  How many of them a   *)
(* rank has done is no variable of the model, for the host does not know   *)
(* it; the inductive invariant says that there is such a number for each   *)
(* rank, and everything else follows from it: what is queued, how many     *)
(* messages have gone and come, which chunk each buffer and message holds. *)
(***************************************************************************)
EXTENDS RingAttention, TLAPS

\* The buffer of each pair that is sent from, and read, at a step.
Side(s) == s % 2

\* The rank whose chunk a rank holds at a step.
Holds(r, s) == (r + WorldSize - s) % WorldSize

\* The steps that end with an exchange.
Early == {s \in Ranks : s < WorldSize - 1}

\* w is the launch, an exchange, that is job n of rank r.
IsLaunch(r, n, w) ==
  \E s \in Ranks : n = 1 + 3 * s /\ w = [op |-> "attend", from |-> Side(s), split |-> Holds(r, s)]
IsExchange(n, w) ==
  \E s \in Early, x \in Tensors :
    /\ n = (IF x = "k" THEN 2 ELSE 3) + 3 * s
    /\ w = [op |-> "exchange", tensor |-> x, from |-> Side(s), to |-> 1 - Side(s)]

\* w is job n of rank r.
IsJob(r, n, w) ==
  \/ n = 0 /\ w = [op |-> "copy"]
  \/ IsLaunch(r, n, w)
  \/ IsExchange(n, w)
  \/ n = 3 * WorldSize - 1 /\ w = [op |-> "combine"]

\* How many of a rank's first n jobs are exchanges.
Exchanges(n) ==
  IF n = 0 THEN 0
  ELSE IF n >= 3 * WorldSize - 1 THEN 2 * (WorldSize - 1)
  ELSE 2 * ((n - 1) \div 3) + ((n - 1) % 3) \div 2

\* How many messages a rank has handed over, and how many it has got.
Posted(d, r) == Exchanges(d[r]) + (IF posted[r] THEN 1 ELSE 0)
Got(d, r) == Exchanges(d[r]) + (IF received[r] THEN 1 ELSE 0)

\* The host is as far in the program as what is done and what is queued.
Host(d, r) ==
  LET n == d[r] + Len(stream[r]) IN
    /\ n <= 3 * WorldSize
    /\ role[r] = Side(step[r])
    /\ at[r] = "bootstrap" => n = 0 /\ step[r] = 0
    /\ at[r] = "attend" => n = 1 + 3 * step[r]
    /\ at[r] = "sendK" => n = 2 + 3 * step[r] /\ step[r] \in Early
    /\ at[r] = "sendV" => n = 3 + 3 * step[r] /\ step[r] \in Early
    /\ at[r] = "combine" => n = 3 * WorldSize - 1
    /\ at[r] = "returned" => n = 3 * WorldSize

\* What is queued is the program from the first job not done.
Queue(d, r) == \A i \in 1 .. Len(stream[r]) : IsJob(r, d[r] + i - 1, stream[r][i])

\* Half an exchange is only done at an exchange.
Halves(r) == posted[r] \/ received[r] => AtHead(r, "exchange")

\* On their way to r are the messages its neighbour has handed over and it has not
\* got: those of the neighbour's steps, K before V.
Wire(d, r) ==
  LET p == PrevRank(r) IN
    /\ Len(link[p]) = Posted(d, p) - Got(d, r)
    /\ \A i \in 1 .. Len(link[p]), s \in Ranks :
         Got(d, r) + i - 1 \in {2 * s, 2 * s + 1} => link[p][i] = Holds(p, s)

\* The chunk of a step is in the buffers of its side until its exchanges are done,
\* the next step's in the others as soon as it has come.
Buffers(d, r) ==
  \A s \in Ranks :
    /\ d[r] \in {1 + 3 * s, 2 + 3 * s} => buffer[r].k[Side(s)] = Holds(r, s)
    /\ d[r] \in {1 + 3 * s, 2 + 3 * s, 3 + 3 * s} => buffer[r].v[Side(s)] = Holds(r, s)
    /\ s \in Early =>
         /\ d[r] = 3 + 3 * s \/ (d[r] = 2 + 3 * s /\ received[r])
              => buffer[r].k[1 - Side(s)] = Holds(r, s + 1)
         /\ d[r] = 3 + 3 * s /\ received[r] => buffer[r].v[1 - Side(s)] = Holds(r, s + 1)

\* The places of the steps done are written.
Places(d, r) == \A s \in Ranks : d[r] > 1 + 3 * s => partial[r][Holds(r, s)] # Nothing

Ring(d) ==
  \A r \in Ranks :
    Host(d, r) /\ Queue(d, r) /\ Halves(r) /\ Wire(d, r) /\ Buffers(d, r) /\ Places(d, r)

\* The inductive invariant.
IInv ==
  /\ TypeOK
  /\ PartialsAreOwners
  /\ CombineFindsAllPlaces
  /\ \E done \in [Ranks -> 0 .. 3 * WorldSize] : Ring(done)

-----------------------------------------------------------------------------
(* The arithmetic of the ring.                                             *)

\* Which steps there are.
LEMMA RankFacts ==
  /\ 0 \in Ranks
  /\ \A s \in Early : s \in Ranks /\ s + 1 \in Ranks
  /\ \A s \in Ranks : s \in Nat /\ (s \in Early \/ s = WorldSize - 1)
  BY RingOK DEF Ranks, Early

\* A number below twice the modulus.
LEMMA ModOnce ==
  ASSUME NEW w \in Nat \ {0}, NEW x \in 0 .. 2 * w - 1
  PROVE  x % w = IF x < w THEN x ELSE x - w
<1>1. CASE x < w
  BY <1>1
<1>2. CASE x >= w
  BY <1>2
<1> QED BY <1>1, <1>2

\* Where in the program the steps are.
LEMMA StepFacts ==
  ASSUME NEW s \in Ranks
  PROVE  /\ 2 + 3 * s <= 3 * WorldSize - 1
         /\ s \in Early => 1 + 3 * (s + 1) = (3 + 3 * s) + 1 /\ 1 + 3 * (s + 1) <= 3 * WorldSize - 2
         /\ IF s + 1 < WorldSize THEN s \in Early ELSE 2 + 3 * s = 3 * WorldSize - 1
  BY RingOK DEF Ranks, Early

\* A job is of one step, and of one kind.
LEMMA JobsDistinct ==
  ASSUME NEW s \in Ranks, NEW t \in Ranks
  PROVE  /\ 1 + 3 * s # 2 + 3 * t /\ 1 + 3 * s # 3 + 3 * t /\ 2 + 3 * s # 3 + 3 * t
         /\ 1 + 3 * s = 1 + 3 * t => s = t
         /\ 2 + 3 * s = 2 + 3 * t => s = t
         /\ 3 + 3 * s = 3 + 3 * t => s = t
         /\ 2 + 3 * s > 1 + 3 * t => s = t \/ 1 + 3 * s > 1 + 3 * t
         /\ 3 + 3 * s > 1 + 3 * t => 2 + 3 * s > 1 + 3 * t
         /\ 4 + 3 * s > 1 + 3 * t => 3 + 3 * s > 1 + 3 * t
<1>1. s \in Nat /\ t \in Nat
  BY RankFacts
<1> QED BY <1>1

\* A message is of one step.
LEMMA MessageStep ==
  ASSUME NEW s \in Nat, NEW t \in Nat, NEW n, n \in {2 * s, 2 * s + 1}, n \in {2 * t, 2 * t + 1}
  PROVE  s = t
  OBVIOUS

\* The buffers of each pair take turns.
LEMMA SideFacts ==
  ASSUME NEW s \in Nat
  PROVE  Side(s) \in {0, 1} /\ 1 - Side(s) \in {0, 1} /\ Side(s + 1) = 1 - Side(s)
  BY DEF Side

\* The neighbour before, and of one rank only.
LEMMA PrevFacts ==
  /\ \A r \in Ranks : PrevRank(r) = IF r = 0 THEN WorldSize - 1 ELSE r - 1
  /\ \A r \in Ranks : PrevRank(r) \in Ranks
  /\ \A r, q \in Ranks : PrevRank(r) = PrevRank(q) => r = q
<1>1. ASSUME NEW r \in Ranks
      PROVE  PrevRank(r) = IF r = 0 THEN WorldSize - 1 ELSE r - 1
  <2> DEFINE x == r + WorldSize - 1
  <2>1. x \in 0 .. 2 * WorldSize - 1
    BY RingOK DEF Ranks
  <2> HIDE DEF x
  <2>2. x % WorldSize = IF x < WorldSize THEN x ELSE x - WorldSize
    BY <2>1, ModOnce, RingOK
  <2> QED BY <2>2, RingOK DEF PrevRank, Ranks, x
<1> QED BY <1>1, RingOK DEF Ranks

\* A rank holds its own chunk first and its neighbour's of the step before then, and
\* by the last step it has held them all.
LEMMA HoldsFacts ==
  ASSUME NEW r \in Ranks
  PROVE  /\ \A s \in Ranks : Holds(r, s) \in Ranks
         /\ Holds(r, 0) = r
         /\ \A s \in Early : Holds(r, s + 1) = Holds(PrevRank(r), s)
         /\ \A q \in Ranks : \E s \in Ranks : Holds(r, s) = q
<1>1. ASSUME NEW q \in Ranks, NEW s \in Ranks
      PROVE  Holds(q, s) = IF q < s THEN q + WorldSize - s ELSE q - s
  <2> DEFINE x == q + WorldSize - s
  <2>1. x \in 0 .. 2 * WorldSize - 1
    BY RingOK DEF Ranks
  <2> HIDE DEF x
  <2>2. x % WorldSize = IF x < WorldSize THEN x ELSE x - WorldSize
    BY <2>1, ModOnce, RingOK
  <2> QED BY <2>2, RingOK DEF Holds, Ranks, x
<1>2. PrevRank(r) = IF r = 0 THEN WorldSize - 1 ELSE r - 1
  BY PrevFacts
<1>3. ASSUME NEW s \in Ranks PROVE Holds(r, s) \in Ranks
  <2>1. Holds(r, s) = IF r < s THEN r + WorldSize - s ELSE r - s
    BY <1>1
  <2> QED BY <2>1, RingOK DEF Ranks
<1>4. Holds(r, 0) = r
  <2>1. 0 \in Ranks
    BY RankFacts
  <2>2. Holds(r, 0) = IF r < 0 THEN r + WorldSize - 0 ELSE r - 0
    BY <1>1, <2>1
  <2> QED BY <2>2 DEF Ranks
<1>5. ASSUME NEW s \in Early
      PROVE  Holds(r, s + 1) = Holds(PrevRank(r), s)
  <2>1. s \in Ranks /\ s + 1 \in Ranks /\ PrevRank(r) \in Ranks
    BY RankFacts, PrevFacts
  <2>2. /\ Holds(r, s + 1) = IF r < s + 1 THEN r + WorldSize - (s + 1) ELSE r - (s + 1)
        /\ Holds(PrevRank(r), s)
             = IF PrevRank(r) < s THEN PrevRank(r) + WorldSize - s ELSE PrevRank(r) - s
    BY <1>1, <2>1
  <2> QED BY <1>2, <2>1, <2>2, RingOK DEF Ranks, Early
<1>6. ASSUME NEW q \in Ranks
      PROVE  \E s \in Ranks : Holds(r, s) = q
  <2> DEFINE s == IF q <= r THEN r - q ELSE r + WorldSize - q
  <2>1. s \in Ranks /\ Holds(r, s) = q
    BY <1>1, RingOK DEF Ranks
  <2> QED BY <2>1
<1> QED BY <1>3, <1>4, <1>5, <1>6

\* How many exchanges are done before each job.
LEMMA ExchangesFacts ==
  /\ Exchanges(0) = 0 /\ Exchanges(1) = 0
  /\ \A n \in Nat : Exchanges(n) \in Nat
  /\ \A s \in Ranks : Exchanges(1 + 3 * s) = 2 * s /\ Exchanges(2 + 3 * s) = 2 * s
  /\ \A s \in Early : Exchanges(3 + 3 * s) = 2 * s + 1 /\ Exchanges(4 + 3 * s) = 2 * s + 2
  /\ Exchanges(3 * WorldSize - 1) = Exchanges(3 * WorldSize)
<1>1. \A s \in Ranks : Exchanges(1 + 3 * s) = 2 * s /\ Exchanges(2 + 3 * s) = 2 * s
  BY RingOK DEF Exchanges, Ranks
<1>2. \A s \in Early : Exchanges(3 + 3 * s) = 2 * s + 1
  BY RingOK DEF Exchanges, Ranks, Early
<1>3. \A s \in Early : Exchanges(4 + 3 * s) = 2 * s + 2
  <2>1. ASSUME NEW s \in Early PROVE Exchanges(1 + 3 * (s + 1)) = 2 * (s + 1)
    BY <1>1, RankFacts
  <2> QED BY <2>1, RankFacts
<1>4. Exchanges(0) = 0 /\ Exchanges(1) = 0
  <2>1. Exchanges(1 + 3 * 0) = 2 * 0
    BY <1>1, RankFacts
  <2> QED BY <2>1 DEF Exchanges
<1>5. Exchanges(3 * WorldSize - 1) = Exchanges(3 * WorldSize)
  BY RingOK DEF Exchanges
<1>6. \A n \in Nat : Exchanges(n) \in Nat
  BY RingOK DEF Exchanges
<1> QED BY <1>1, <1>2, <1>3, <1>4, <1>5, <1>6
-----------------------------------------------------------------------------
(* The ends of a queue.                                                    *)

\* A job more at the end.
LEMMA AppendFacts ==
  ASSUME NEW S, NEW s \in Seq(S), NEW x \in S
  PROVE  /\ Append(s, x) \in Seq(S) /\ Len(Append(s, x)) = Len(s) + 1
         /\ \A i \in 1 .. Len(s) : Append(s, x)[i] = s[i]
         /\ Append(s, x)[Len(s) + 1] = x
         /\ s # <<>> => Append(s, x) # <<>> /\ Head(Append(s, x)) = Head(s)
  OBVIOUS

\* A job less at the front.
LEMMA TailFacts ==
  ASSUME NEW S, NEW s \in Seq(S), s # <<>>
  PROVE  /\ Head(s) \in S /\ Head(s) = s[1] /\ Len(s) \in Nat \ {0}
         /\ Tail(s) \in Seq(S) /\ Len(Tail(s)) = Len(s) - 1
         /\ \A i \in 1 .. Len(s) - 1 : Tail(s)[i] = s[i + 1]
  OBVIOUS

-----------------------------------------------------------------------------
(* The steps of the host: one more job at the end of the queue.            *)

\* A job enqueued where the program has it leaves the ring as it was.
LEMMA EnqueueStep ==
  ASSUME TypeOK, NEW d \in [Ranks -> 0 .. 3 * WorldSize], Ring(d), NEW r \in Ranks,
         NEW w \in Work, Enqueue(r, w), IsJob(r, d[r] + Len(stream[r]), w),
         \A q \in Ranks \ {r} : at'[q] = at[q] /\ step'[q] = step[q] /\ role'[q] = role[q],
         Host(d, r)', UNCHANGED <<commVars, memVars>>
  PROVE  Ring(d)'
<1>1. /\ stream[r] \in Seq(Work) /\ stream'[r] = Append(stream[r], w)
      /\ \A q \in Ranks \ {r} : stream'[q] = stream[q]
  BY DEF TypeOK, Enqueue
<1>2. d[r] \in Nat
  OBVIOUS
<1>3. ASSUME NEW q \in Ranks PROVE Host(d, q)'
  BY <1>1 DEF Ring, Host
<1>4. ASSUME NEW q \in Ranks PROVE Queue(d, q)'
  <2>1. CASE q = r
    <3>1. Queue(d, r)
      BY DEF Ring
    <3>2. ASSUME NEW i \in 1 .. Len(stream'[r]) PROVE IsJob(r, d[r] + i - 1, stream'[r][i])
      BY <1>1, <1>2, <3>1 DEF Queue
    <3> QED BY <2>1, <3>2 DEF Queue
  <2>2. CASE q # r
    BY <1>1, <2>2 DEF Ring, Queue
  <2> QED BY <2>1, <2>2
<1>5. ASSUME NEW q \in Ranks PROVE Halves(q)'
  <2>1. stream[r] # <<>> => stream'[r] # <<>> /\ Head(stream'[r]) = Head(stream[r])
    BY <1>1, AppendFacts
  <2>2. AtHead(q, "exchange") => AtHead(q, "exchange")'
    BY <1>1, <2>1 DEF AtHead
  <2>3. Halves(q) /\ posted' = posted /\ received' = received
    BY DEF Ring, commVars
  <2> QED BY <2>2, <2>3 DEF Halves
<1>6. ASSUME NEW q \in Ranks PROVE Wire(d, q)' /\ Buffers(d, q)' /\ Places(d, q)'
  <2>1. Wire(d, q) /\ Buffers(d, q) /\ Places(d, q)
    BY DEF Ring
  <2>2. /\ posted' = posted /\ received' = received /\ link' = link
        /\ buffer' = buffer /\ partial' = partial
    BY DEF commVars, memVars
  <2>3. Wire(d, q)'
    BY <2>1, <2>2 DEF Wire, Posted, Got
  <2>4. Buffers(d, q)'
    BY <2>1, <2>2 DEF Buffers
  <2>5. Places(d, q)'
    BY <2>1, <2>2 DEF Places
  <2> QED BY <2>3, <2>4, <2>5
<1> QED BY <1>3, <1>4, <1>5, <1>6 DEF Ring
\* Every step of a host preserves the invariant.
LEMMA HostKeeps ==
  ASSUME IInv, NEW r \in Ranks, UNCHANGED eager, HostStep(r)
  PROVE  IInv'
<1>1. PICK d \in [Ranks -> 0 .. 3 * WorldSize] : Ring(d)
  BY DEF IInv
<1> DEFINE n == d[r] + Len(stream[r])
<1>2. Host(d, r) /\ step[r] \in Ranks /\ stream[r] \in Seq(Work) /\ n \in Nat
  BY <1>1 DEF Ring, IInv, TypeOK
<1>3. /\ step[r] \in Nat /\ Side(step[r]) \in {0, 1} /\ 1 - Side(step[r]) \in {0, 1}
      /\ Side(step[r] + 1) = 1 - Side(step[r]) /\ Owner(r) = Holds(r, step[r]) /\ Owner(r) \in Ranks
  BY <1>2, RankFacts, SideFacts, HoldsFacts DEF Owner, Holds
<1>4. role[r] = Side(step[r])
  BY <1>2 DEF Host
<1>5. ASSUME NEW w \in Work, Enqueue(r, w)
      PROVE  /\ stream' \in [Ranks -> Seq(Work)] /\ d[r] + Len(stream'[r]) = n + 1
  BY <1>2, <1>5, AppendFacts DEF IInv, TypeOK, Enqueue
<1> SUFFICES TypeOK' /\ Ring(d)' /\ UNCHANGED <<partial, output>>
  BY DEF IInv, PartialsAreOwners, CombineFindsAllPlaces
<1>6. CASE Bootstrap(r)
  <2> DEFINE w == [op |-> "copy"]
  <2>1. w \in Work /\ Enqueue(r, w)
    BY <1>6 DEF Bootstrap, Work
  <2>2. n = 0 /\ step[r] = 0
    BY <1>2, <1>6 DEF Bootstrap, Host
  <2>3. IsJob(r, n, w)
    BY <2>2 DEF IsJob
  <2>4. Host(d, r)'
    <3>1. at'[r] = "attend" /\ step'[r] = 0 /\ role'[r] = role[r]
      BY <1>6, <2>2 DEF Bootstrap, Goto, IInv, TypeOK
    <3>2. d[r] + Len(stream'[r]) = 1
      BY <1>5, <2>1, <2>2
    <3>3. Side(step'[r]) = role'[r]
      BY <1>4, <2>2, <3>1
    <3> QED BY <3>1, <3>2, <3>3, RingOK DEF Host
  <2>5. Ring(d)'
    BY <1>1, <1>6, <2>1, <2>3, <2>4, EnqueueStep DEF Bootstrap, Goto, IInv, TypeOK
  <2>6. TypeOK'
    BY <1>5, <1>6, <2>1 DEF Bootstrap, Goto, IInv, TypeOK, commVars, memVars
  <2> QED BY <1>6, <2>5, <2>6 DEF Bootstrap, memVars
<1>7. CASE LaunchSplitKv(r)
  <2> DEFINE w == [op |-> "attend", from |-> role[r], split |-> Owner(r)]
  <2>1. w \in Work /\ Enqueue(r, w)
    BY <1>3, <1>4, <1>7 DEF LaunchSplitKv, LaunchUpTo, Work
  <2>2. n = 1 + 3 * step[r]
    BY <1>2, <1>7 DEF LaunchSplitKv, LaunchUpTo, Host
  <2>3. IsJob(r, n, w)
    BY <1>2, <1>3, <1>4, <2>2 DEF IsJob, IsLaunch
  <2>4. Host(d, r)'
    <3>1. d[r] + Len(stream'[r]) = n + 1
      BY <1>5, <2>1
    <3>2. at'[r] = (IF step[r] + 1 < WorldSize THEN "sendK" ELSE "combine")
          /\ step'[r] = step[r] /\ role'[r] = role[r]
      BY <1>7 DEF LaunchSplitKv, LaunchUpTo, Goto, IInv, TypeOK
    <3>3. d[r] + Len(stream'[r]) = 2 + 3 * step[r]
      BY <1>3, <2>2, <3>1, StepFacts
    <3> QED BY <1>2, <1>4, <1>3, <2>2, <3>2, <3>3, StepFacts, RingOK DEF Host
  <2>5. Ring(d)'
    BY <1>1, <1>7, <2>1, <2>3, <2>4, EnqueueStep DEF LaunchSplitKv, LaunchUpTo, Goto, IInv, TypeOK
  <2>6. TypeOK'
    BY <1>3, <1>4, <1>5, <1>7, <2>1, <2>2, RankFacts
     DEF LaunchSplitKv, LaunchUpTo, Goto, IInv, TypeOK, commVars, memVars
  <2> QED BY <1>7, <2>5, <2>6 DEF LaunchSplitKv, LaunchUpTo, memVars
<1>8. CASE SendRecvK(r)
  <2> DEFINE w == [op |-> "exchange", tensor |-> "k", from |-> role[r], to |-> 1 - role[r]]
  <2>1. w \in Work /\ Enqueue(r, w)
    BY <1>3, <1>4, <1>8 DEF SendRecvK, Work, Tensors
  <2>2. n = 2 + 3 * step[r] /\ step[r] \in Early
    BY <1>2, <1>8 DEF SendRecvK, Host
  <2>3. IsJob(r, n, w)
    BY <1>3, <1>4, <2>2 DEF IsJob, IsExchange, Tensors
  <2>4. Host(d, r)'
    <3>1. d[r] + Len(stream'[r]) = n + 1
      BY <1>5, <2>1
    <3>2. at'[r] = "sendV" /\ step'[r] = step[r] /\ role'[r] = role[r]
      BY <1>8 DEF SendRecvK, Goto, IInv, TypeOK
    <3>3. d[r] + Len(stream'[r]) = 3 + 3 * step[r]
      BY <1>3, <2>2, <3>1, StepFacts
    <3> QED BY <1>2, <1>4, <1>3, <2>2, <3>2, <3>3, StepFacts, RingOK DEF Host
  <2>5. Ring(d)'
    BY <1>1, <1>8, <2>1, <2>3, <2>4, EnqueueStep DEF SendRecvK, Goto, IInv, TypeOK
  <2>6. TypeOK'
    BY <1>3, <1>4, <1>5, <1>8, <2>1, <2>2, RankFacts
     DEF SendRecvK, Goto, IInv, TypeOK, commVars, memVars
  <2> QED BY <1>8, <2>5, <2>6 DEF SendRecvK, memVars
<1>9. CASE SendRecvV(r)
  <2> DEFINE w == [op |-> "exchange", tensor |-> "v", from |-> role[r], to |-> 1 - role[r]]
  <2>1. w \in Work /\ Enqueue(r, w)
    BY <1>3, <1>4, <1>9 DEF SendRecvV, Work, Tensors
  <2>2. n = 3 + 3 * step[r] /\ step[r] \in Early
    BY <1>2, <1>9 DEF SendRecvV, Host
  <2>3. IsJob(r, n, w)
    BY <1>3, <1>4, <2>2 DEF IsJob, IsExchange, Tensors
  <2>4. Host(d, r)'
    <3>1. d[r] + Len(stream'[r]) = n + 1
      BY <1>5, <2>1
    <3>2. at'[r] = "attend" /\ step'[r] = step[r] + 1 /\ role'[r] = 1 - role[r]
      BY <1>9 DEF SendRecvV, Goto, IInv, TypeOK
    <3>3. d[r] + Len(stream'[r]) = 1 + 3 * (step[r] + 1)
      BY <1>3, <2>2, <3>1, StepFacts
    <3> QED BY <1>2, <1>4, <1>3, <2>2, <3>2, <3>3, StepFacts, RingOK DEF Host
  <2>5. Ring(d)'
    BY <1>1, <1>9, <2>1, <2>3, <2>4, EnqueueStep DEF SendRecvV, Goto, IInv, TypeOK
  <2>6. TypeOK'
    BY <1>3, <1>4, <1>5, <1>9, <2>1, <2>2, RankFacts
     DEF SendRecvV, Goto, IInv, TypeOK, commVars, memVars
  <2> QED BY <1>9, <2>5, <2>6 DEF SendRecvV, memVars
<1>10. CASE LaunchCombine(r)
  <2> DEFINE w == [op |-> "combine"]
  <2>1. w \in Work /\ Enqueue(r, w)
    BY <1>3, <1>4, <1>10 DEF LaunchCombine, Work
  <2>2. n = 3 * WorldSize - 1
    BY <1>2, <1>10 DEF LaunchCombine, Host
  <2>3. IsJob(r, n, w)
    BY <2>2 DEF IsJob
  <2>4. Host(d, r)'
    <3>1. d[r] + Len(stream'[r]) = n + 1
      BY <1>5, <2>1
    <3>2. at'[r] = "returned" /\ step'[r] = step[r] /\ role'[r] = role[r]
      BY <1>10 DEF LaunchCombine, Goto, IInv, TypeOK
    <3>3. d[r] + Len(stream'[r]) = 3 * WorldSize
      BY <1>3, <2>2, <3>1, RingOK
    <3> QED BY <1>2, <1>4, <1>3, <2>2, <3>2, <3>3, StepFacts, RingOK DEF Host
  <2>5. Ring(d)'
    BY <1>1, <1>10, <2>1, <2>3, <2>4, EnqueueStep DEF LaunchCombine, Goto, IInv, TypeOK
  <2>6. TypeOK'
    BY <1>3, <1>4, <1>5, <1>10, <2>1, <2>2, RankFacts
     DEF LaunchCombine, Goto, IInv, TypeOK, commVars, memVars
  <2> QED BY <1>10, <2>5, <2>6 DEF LaunchCombine, memVars
<1> QED BY <1>6, <1>7, <1>8, <1>9, <1>10 DEF HostStep

\* A call that fails preserves the invariant: its queue stays as it is.
LEMMA FailKeeps ==
  ASSUME IInv, NEW r \in Ranks, UNCHANGED eager, EnqueueFails(r)
  PROVE  IInv'
<1>1. PICK d \in [Ranks -> 0 .. 3 * WorldSize] : Ring(d)
  BY DEF IInv
<1>2. TypeOK'
  BY DEF IInv, TypeOK, EnqueueFails, Goto, commVars, memVars
<1>3. at' = [at EXCEPT ![r] = "failed"] /\ UNCHANGED <<step, role, stream, commVars, memVars>>
  BY DEF EnqueueFails, Goto
<1>4. at \in [Ranks -> {"bootstrap", "attend", "sendK", "sendV", "combine", "returned", "failed"}]
  BY DEF IInv, TypeOK
<1>5. ASSUME NEW q \in Ranks PROVE Host(d, q)'
  BY <1>1, <1>3, <1>4 DEF Ring, Host
<1>6. ASSUME NEW q \in Ranks
      PROVE  Queue(d, q)' /\ Halves(q)' /\ Wire(d, q)' /\ Buffers(d, q)' /\ Places(d, q)'
  <2>1. Queue(d, q) /\ Halves(q) /\ Wire(d, q) /\ Buffers(d, q) /\ Places(d, q)
    BY <1>1 DEF Ring
  <2>2. /\ stream' = stream /\ posted' = posted /\ received' = received /\ link' = link
        /\ buffer' = buffer /\ partial' = partial
    BY <1>3 DEF commVars, memVars
  <2> QED BY <2>1, <2>2 DEF Queue, Halves, AtHead, Wire, Posted, Got, Buffers, Places
<1>7. Ring(d)' /\ UNCHANGED <<partial, output>>
  BY <1>3, <1>5, <1>6 DEF Ring, memVars
<1> QED BY <1>2, <1>7 DEF IInv, PartialsAreOwners, CombineFindsAllPlaces

-----------------------------------------------------------------------------
(* The steps of the stream: the job at the head of the queue.              *)

\* What a job of each kind is.
LEMMA JobKinds ==
  ASSUME NEW r \in Ranks, NEW n \in Nat, NEW w, IsJob(r, n, w)
  PROVE  /\ w.op = "copy" => n = 0
         /\ w.op = "attend" =>
              \E s \in Ranks : n = 1 + 3 * s /\ w.from = Side(s) /\ w.split = Holds(r, s)
         /\ w.op = "exchange" =>
              \E s \in Early : /\ w.from = Side(s) /\ w.to = 1 - Side(s)
                              /\ \/ n = 2 + 3 * s /\ w.tensor = "k"
                                 \/ n = 3 + 3 * s /\ w.tensor = "v"
         /\ w.op = "combine" => n = 3 * WorldSize - 1
<1>1. CASE w.op = "copy"
  BY <1>1 DEF IsJob, IsLaunch, IsExchange
<1>2. CASE w.op = "attend"
  <2>1. IsLaunch(r, n, w)
    BY <1>2 DEF IsJob, IsExchange
  <2> QED BY <1>2, <2>1 DEF IsLaunch
<1>3. CASE w.op = "exchange"
  <2>1. IsExchange(n, w)
    BY <1>3 DEF IsJob, IsLaunch
  <2> QED BY <1>3, <2>1 DEF IsExchange, Tensors
<1>4. CASE w.op = "combine"
  BY <1>4 DEF IsJob, IsLaunch, IsExchange
<1> QED BY <1>1, <1>2, <1>3, <1>4

\* The job at the head of the queue is the first one not done.
LEMMA HeadJob ==
  ASSUME TypeOK, NEW d \in [Ranks -> 0 .. 3 * WorldSize], Ring(d), NEW r \in Ranks,
         stream[r] # <<>>
  PROVE  /\ Head(stream[r]) \in Work /\ IsJob(r, d[r], Head(stream[r]))
         /\ d[r] \in Nat /\ d[r] + 1 \in 0 .. 3 * WorldSize
<1>1. stream[r] \in Seq(Work)
  BY DEF TypeOK
<1>2. Queue(d, r) /\ d[r] + Len(stream[r]) <= 3 * WorldSize
  BY DEF Ring, Host
<1>3. Head(stream[r]) \in Work /\ Head(stream[r]) = stream[r][1] /\ Len(stream[r]) \in Nat \ {0}
  BY <1>1, TailFacts
<1>4. d[r] \in Nat
  OBVIOUS
<1>5. IsJob(r, d[r] + 1 - 1, stream[r][1])
  BY <1>2, <1>3 DEF Queue
<1>6. d[r] + 1 - 1 = d[r]
  BY <1>4
<1>7. IsJob(r, d[r], Head(stream[r]))
  BY <1>3, <1>5, <1>6
<1> QED BY <1>2, <1>3, <1>4, <1>7, RingOK

\* A job done leaves the host, the queues and the messages as they were.
LEMMA PopStep ==
  ASSUME TypeOK, NEW d \in [Ranks -> 0 .. 3 * WorldSize], Ring(d), NEW r \in Ranks,
         stream[r] # <<>>, Pop(r), UNCHANGED <<hostVars, link>>,
         posted' = [posted EXCEPT ![r] = FALSE], received' = [received EXCEPT ![r] = FALSE],
         NEW e, e = [d EXCEPT ![r] = @ + 1],
         Posted(e, r)' = Posted(d, r), Got(e, r)' = Got(d, r)
  PROVE  /\ e \in [Ranks -> 0 .. 3 * WorldSize]
         /\ \A q \in Ranks : Host(e, q)' /\ Queue(e, q)' /\ Halves(q)' /\ Wire(e, q)'
<1>1. /\ stream[r] \in Seq(Work) /\ stream'[r] = Tail(stream[r])
      /\ \A q \in Ranks \ {r} : stream'[q] = stream[q]
  BY DEF TypeOK, Pop
<1>2. /\ Len(stream[r]) \in Nat /\ Len(stream'[r]) \in Nat /\ Len(stream'[r]) = Len(stream[r]) - 1
      /\ \A i \in 1 .. Len(stream'[r]) : stream'[r][i] = stream[r][i + 1]
  BY <1>1, TailFacts
<1>3. e \in [Ranks -> 0 .. 3 * WorldSize]
  BY HeadJob
<1>4. /\ d[r] \in Nat /\ e[r] = d[r] + 1 /\ \A q \in Ranks \ {r} : e[q] = d[q]
      /\ posted \in [Ranks -> BOOLEAN] /\ received \in [Ranks -> BOOLEAN]
  BY DEF TypeOK
<1>5. ASSUME NEW q \in Ranks PROVE Host(e, q)'
  <2>1. Host(d, q) /\ at' = at /\ step' = step /\ role' = role
    BY DEF Ring, hostVars
  <2>2. e[q] + Len(stream'[q]) = d[q] + Len(stream[q])
    <3> DEFINE n == Len(stream[r])
    <3>1. n \in Nat /\ d[r] + 1 + (n - 1) = d[r] + n
      BY <1>2, <1>4
    <3>2. CASE q = r
      BY <1>2, <1>4, <3>1, <3>2
    <3>3. CASE q # r
      BY <1>1, <1>4, <3>3
    <3> QED BY <3>2, <3>3
  <2> QED BY <2>1, <2>2 DEF Host
<1>6. ASSUME NEW q \in Ranks PROVE Queue(e, q)'
  <2>1. CASE q = r
    <3>1. Queue(d, r)
      BY DEF Ring
    <3>2. ASSUME NEW i \in 1 .. Len(stream'[r]) PROVE IsJob(r, e[r] + i - 1, stream'[r][i])
      <4>1. i + 1 \in 1 .. Len(stream[r]) /\ e[r] + i - 1 = d[r] + (i + 1) - 1
        BY <1>1, <1>2, <1>4
      <4> QED BY <1>2, <3>1, <4>1 DEF Queue
    <3> QED BY <2>1, <3>2 DEF Queue
  <2>2. CASE q # r
    BY <1>1, <1>4, <2>2 DEF Ring, Queue
  <2> QED BY <2>1, <2>2
<1>7. ASSUME NEW q \in Ranks PROVE Halves(q)'
  <2>1. CASE q = r
    BY <1>4, <2>1 DEF Halves
  <2>2. CASE q # r
    <3>1. Halves(q)
      BY DEF Ring
    <3>2. stream'[q] = stream[q] /\ posted'[q] = posted[q] /\ received'[q] = received[q]
      BY <1>1, <1>4, <2>2
    <3> QED BY <3>1, <3>2 DEF Halves, AtHead
  <2> QED BY <2>1, <2>2
<1>8. ASSUME NEW q \in Ranks PROVE Posted(e, q)' = Posted(d, q) /\ Got(e, q)' = Got(d, q)
  BY <1>4 DEF Posted, Got
<1>9. ASSUME NEW q \in Ranks PROVE Wire(e, q)'
  <2>1. Wire(d, q)
    BY DEF Ring
  <2>2. PrevRank(q) \in Ranks /\ link' = link
    BY PrevFacts
  <2>3. Posted(e, PrevRank(q))' = Posted(d, PrevRank(q)) /\ Got(e, q)' = Got(d, q)
    BY <1>8, <2>2
  <2> QED BY <2>1, <2>2, <2>3 DEF Wire
<1> QED BY <1>3, <1>5, <1>6, <1>7, <1>9
\* What is left of a queue is a queue.
LEMMA PopType ==
  ASSUME TypeOK, NEW r \in Ranks, stream[r] # <<>>, Pop(r)
  PROVE  stream' \in [Ranks -> Seq(Work)]
BY TailFacts DEF TypeOK, Pop

\* A job that is no exchange does nothing to the messages.
LEMMA PlainStep ==
  ASSUME TypeOK, NEW d \in [Ranks -> 0 .. 3 * WorldSize], Ring(d), NEW r \in Ranks,
         stream[r] # <<>>, Head(stream[r]).op # "exchange", Pop(r),
         UNCHANGED <<hostVars, commVars>>, Exchanges(d[r] + 1) = Exchanges(d[r]),
         NEW e, e = [d EXCEPT ![r] = @ + 1]
  PROVE  /\ ~ posted[r] /\ ~ received[r]
         /\ e \in [Ranks -> 0 .. 3 * WorldSize]
         /\ \A q \in Ranks : Host(e, q)' /\ Queue(e, q)' /\ Halves(q)' /\ Wire(e, q)'
<1>1. posted[r] = FALSE /\ received[r] = FALSE
  <2>1. Halves(r)
    BY DEF Ring
  <2>2. posted[r] \in BOOLEAN /\ received[r] \in BOOLEAN
    BY DEF TypeOK
  <2> QED BY <2>1, <2>2 DEF Halves, AtHead
<1>2. posted' = [posted EXCEPT ![r] = FALSE] /\ received' = [received EXCEPT ![r] = FALSE]
  BY <1>1 DEF TypeOK, commVars
<1>3. e[r] = d[r] + 1
  OBVIOUS
<1>4. Posted(e, r)' = Posted(d, r) /\ Got(e, r)' = Got(d, r)
  BY <1>1, <1>2, <1>3 DEF Posted, Got, TypeOK, commVars
<1>5. UNCHANGED <<hostVars, link>>
  BY DEF commVars
<1> QED BY <1>1, <1>2, <1>4, <1>5, PopStep

\* A step of one rank's stream leaves the memory of the others alone.
LEMMA OtherMemory ==
  ASSUME NEW d, NEW e, NEW q \in Ranks, e[q] = d[q], Buffers(d, q), Places(d, q),
         buffer'[q] = buffer[q], received'[q] = received[q], partial'[q] = partial[q]
  PROVE  Buffers(e, q)' /\ Places(e, q)'
  BY DEF Buffers, Places

\* The copy puts a rank's own chunk where the first step looks for it.
LEMMA CopyKeeps ==
  ASSUME IInv, NEW r \in Ranks, UNCHANGED eager, RunCopy(r)
  PROVE  IInv'
<1>1. PICK d \in [Ranks -> 0 .. 3 * WorldSize] : Ring(d)
  BY DEF IInv
<1> DEFINE e == [d EXCEPT ![r] = @ + 1]
<1>2. stream[r] # <<>> /\ Head(stream[r]).op = "copy" /\ Pop(r) /\ UNCHANGED <<hostVars, commVars>>
  BY DEF RunCopy, AtHead
<1>3. d[r] = 0
  BY <1>1, <1>2, HeadJob, JobKinds DEF IInv
<1>4. /\ ~ received[r] /\ e \in [Ranks -> 0 .. 3 * WorldSize]
      /\ \A q \in Ranks : Host(e, q)' /\ Queue(e, q)' /\ Halves(q)' /\ Wire(e, q)'
  <2>1. TypeOK /\ e = [d EXCEPT ![r] = @ + 1]
    BY DEF IInv
  <2>2. Exchanges(d[r] + 1) = Exchanges(d[r])
    BY <1>3, ExchangesFacts
  <2>3. Head(stream[r]).op # "exchange"
    BY <1>2
  <2> HIDE DEF e
  <2> QED BY <1>1, <1>2, <2>1, <2>2, <2>3, PlainStep
<1>5. stream' \in [Ranks -> Seq(Work)]
  BY <1>2, PopType DEF IInv
<1>6. /\ buffer' = [buffer EXCEPT ![r] = [x \in Tensors |-> [@[x] EXCEPT ![0] = r]]]
      /\ partial' = partial
      /\ output' = output /\ received' = received
      /\ buffer \in [Ranks -> [Tensors -> [{0, 1} -> Content]]]
  BY DEF IInv, TypeOK, RunCopy, commVars
<1>7. TypeOK'
  <2>1. [x \in Tensors |-> [buffer[r][x] EXCEPT ![0] = r]] \in [Tensors -> [{0, 1} -> Content]]
    BY <1>6 DEF Content
  <2>2. buffer' \in [Ranks -> [Tensors -> [{0, 1} -> Content]]]
    BY <1>6, <2>1
  <2> QED BY <1>2, <1>5, <1>6, <2>2 DEF IInv, TypeOK, hostVars, commVars
<1>8. ASSUME NEW q \in Ranks PROVE Buffers(e, q)' /\ Places(e, q)'
  <2>1. CASE q = r
    <3>1. e[r] = 1 /\ ~ received'[r]
      BY <1>3, <1>4, <1>6
    <3>2. Side(0) = 0 /\ Holds(r, 0) = r
      BY HoldsFacts DEF Side
    <3>3. buffer'[r].k[0] = r /\ buffer'[r].v[0] = r
      <4>1. \A x \in Tensors : buffer'[r][x] = [buffer[r][x] EXCEPT ![0] = r]
        BY <1>6
      <4>2. \A x \in Tensors : buffer'[r][x][0] = r
        BY <1>6, <4>1
      <4> QED BY <4>2 DEF Tensors
    <3>5. Buffers(e, r)'
      <4>1. ASSUME NEW s \in Ranks
            PROVE  /\ e[r] \in {1 + 3 * s, 2 + 3 * s, 3 + 3 * s} => s = 0
                   /\ e[r] # 2 + 3 * s /\ e[r] # 3 + 3 * s
        <5>1. s \in Nat
          BY RankFacts
        <5> HIDE DEF e
        <5> QED BY <3>1, <5>1
      <4> HIDE DEF e
      <4> QED BY <3>1, <3>2, <3>3, <4>1 DEF Buffers
    <3>6. Places(e, r)'
      BY <3>1, RankFacts DEF Places
    <3> QED BY <2>1, <3>5, <3>6
  <2>2. CASE q # r
    <3>1. Buffers(d, q) /\ Places(d, q)
      BY <1>1 DEF Ring
    <3>2. /\ e[q] = d[q] /\ buffer'[q] = buffer[q]
          /\ received'[q] = received[q] /\ partial'[q] = partial[q]
      BY <1>6, <2>2
    <3> HIDE DEF e
    <3> QED BY <3>1, <3>2, OtherMemory
  <2> QED BY <2>1, <2>2
<1>9. Ring(e)'
  BY <1>4, <1>8 DEF Ring
<1> QED BY <1>4, <1>6, <1>7, <1>9 DEF IInv, PartialsAreOwners, CombineFindsAllPlaces
\* A launch finds the chunk its split number names in the buffers it was given.
LEMMA LaunchKeeps ==
  ASSUME IInv, NEW r \in Ranks, UNCHANGED eager, RunSplitKv(r)
  PROVE  IInv'
<1>1. PICK d \in [Ranks -> 0 .. 3 * WorldSize] : Ring(d)
  BY DEF IInv
<1> DEFINE e == [d EXCEPT ![r] = @ + 1]
           w == Head(stream[r])
           new == [k |-> buffer[r].k[w.from], v |-> buffer[r].v[w.from],
                   blocks |-> SplitBlocks(LocalBlocks, WorldSize, w.split)]
<1>2. /\ stream[r] # <<>> /\ w.op = "attend" /\ Pop(r) /\ UNCHANGED <<hostVars, commVars>>
      /\ partial' = [partial EXCEPT ![r][w.split] = new] /\ UNCHANGED <<buffer, output>>
  <2>1. AtHead(r, "attend") /\ Pop(r) /\ UNCHANGED <<hostVars, commVars, buffer, output>>
    BY DEF RunSplitKv
  <2>2. partial' = [partial EXCEPT ![r][w.split] = new]
    BY DEF RunSplitKv
  <2> QED BY <2>1, <2>2 DEF AtHead
<1>3. PICK s \in Ranks : d[r] = 1 + 3 * s /\ w.from = Side(s) /\ w.split = Holds(r, s)
  <2>1. IsJob(r, d[r], w) /\ d[r] \in Nat
    BY <1>1, <1>2, HeadJob DEF IInv
  <2> HIDE DEF w
  <2> QED BY <1>2, <2>1, JobKinds
<1>4. s \in Nat /\ Side(s) \in {0, 1} /\ Holds(r, s) \in Ranks
  BY RankFacts, SideFacts, HoldsFacts
<1>5. /\ ~ received[r] /\ e \in [Ranks -> 0 .. 3 * WorldSize]
      /\ \A q \in Ranks : Host(e, q)' /\ Queue(e, q)' /\ Halves(q)' /\ Wire(e, q)'
  <2>1. TypeOK /\ e = [d EXCEPT ![r] = @ + 1]
    BY DEF IInv
  <2>2. Exchanges(d[r] + 1) = Exchanges(d[r])
    <3>1. 1 + 3 * s + 1 = 2 + 3 * s
      BY <1>4
    <3> QED BY <1>3, <3>1, ExchangesFacts
  <2>3. w.op # "exchange"
    BY <1>2
  <2> HIDE DEF e
  <2> QED BY <1>1, <1>2, <2>1, <2>2, <2>3, PlainStep
<1>6. /\ buffer[r].k[Side(s)] = Holds(r, s) /\ buffer[r].v[Side(s)] = Holds(r, s)
  BY <1>1, <1>3 DEF Ring, Buffers
<1>7. new \in Partial /\ new # Nothing /\ new.k = w.split /\ new.v = w.split
  <2>1. SplitBlocks(LocalBlocks, WorldSize, w.split) \in SUBSET (0 .. LocalBlocks - 1)
    BY DEF SplitBlocks
  <2>2. new \in Partial /\ new.k = w.split /\ new.v = w.split
    BY <1>3, <1>4, <1>6, <2>1 DEF Partial, Content
  <2> QED BY <2>2, RingOK
<1> HIDE DEF new
<1>8. /\ partial \in [Ranks -> [Ranks -> Partial \cup {Nothing}]]
      /\ \A q, t \in Ranks : partial'[q][t] = IF q = r /\ t = w.split THEN new ELSE partial[q][t]
  BY <1>2, <1>3, <1>4 DEF IInv, TypeOK
<1>9. TypeOK'
  <2>1. stream' \in [Ranks -> Seq(Work)]
    BY <1>2, PopType DEF IInv
  <2>2. partial' \in [Ranks -> [Ranks -> Partial \cup {Nothing}]]
    BY <1>2, <1>3, <1>4, <1>7, <1>8
  <2> QED BY <1>2, <2>1, <2>2 DEF IInv, TypeOK, hostVars, commVars
<1>10. PartialsAreOwners'
  BY <1>7, <1>8 DEF IInv, PartialsAreOwners
<1>11. CombineFindsAllPlaces'
  BY <1>2 DEF IInv, CombineFindsAllPlaces
<1>12. ASSUME NEW q \in Ranks PROVE Buffers(e, q)' /\ Places(e, q)'
  <2>1. Buffers(d, q) /\ Places(d, q) /\ buffer' = buffer /\ received' = received
    BY <1>1, <1>2 DEF Ring, commVars
  <2>2. CASE q = r
    <3>1. e[r] = 2 + 3 * s /\ ~ received'[r]
      BY <1>3, <1>4, <1>5, <2>1
    <3>2. Buffers(e, r)'
      <4> HIDE DEF e
      <4> QED BY <1>6, <2>1, <3>1, JobsDistinct DEF Buffers
    <3>3. ASSUME NEW t \in Ranks, e[r] > 1 + 3 * t PROVE partial'[r][Holds(r, t)] # Nothing
      <4>1. s = t \/ d[r] > 1 + 3 * t
        BY <1>3, <3>1, <3>3, JobsDistinct
      <4>2. Holds(r, t) \in Ranks
        BY HoldsFacts
      <4> QED BY <1>3, <1>7, <1>8, <2>1, <2>2, <4>1, <4>2 DEF Places
    <3>4. Places(e, r)'
      BY <3>3 DEF Places
    <3> QED BY <2>2, <3>2, <3>4
  <2>3. CASE q # r
    <3>1. e[q] = d[q] /\ partial'[q] = partial[q]
      BY <1>2, <1>8, <2>3
    <3> HIDE DEF e
    <3> QED BY <2>1, <3>1, OtherMemory
  <2> QED BY <2>2, <2>3
<1>13. Ring(e)'
  BY <1>5, <1>12 DEF Ring
<1> QED BY <1>5, <1>9, <1>10, <1>11, <1>13 DEF IInv
\* By the time of the combine every place is written.
LEMMA CombineKeeps ==
  ASSUME IInv, NEW r \in Ranks, UNCHANGED eager, RunCombine(r)
  PROVE  IInv'
<1>1. PICK d \in [Ranks -> 0 .. 3 * WorldSize] : Ring(d)
  BY DEF IInv
<1> DEFINE e == [d EXCEPT ![r] = @ + 1]
           w == Head(stream[r])
           s == WorldSize - 1
<1>2. /\ stream[r] # <<>> /\ w.op = "combine" /\ Pop(r) /\ UNCHANGED <<hostVars, commVars>>
      /\ output' = [output EXCEPT ![r] = partial[r]] /\ UNCHANGED <<buffer, partial>>
  BY DEF RunCombine, AtHead
<1>3. d[r] = 3 * WorldSize - 1 /\ d[r] \in Nat
  <2>1. IsJob(r, d[r], w) /\ d[r] \in Nat
    BY <1>1, <1>2, HeadJob DEF IInv
  <2> HIDE DEF w
  <2> QED BY <1>2, <2>1, JobKinds
<1>4. /\ s \in Ranks /\ s \in Nat /\ s \notin Early /\ d[r] = 2 + 3 * s
      /\ \A t \in Ranks : d[r] > 1 + 3 * t
  BY <1>3, RingOK DEF Ranks, Early
<1>5. /\ ~ received[r] /\ e \in [Ranks -> 0 .. 3 * WorldSize]
      /\ \A q \in Ranks : Host(e, q)' /\ Queue(e, q)' /\ Halves(q)' /\ Wire(e, q)'
  <2>1. TypeOK /\ e = [d EXCEPT ![r] = @ + 1]
    BY DEF IInv
  <2>2. Exchanges(d[r] + 1) = Exchanges(d[r])
    <3>1. 3 * WorldSize - 1 + 1 = 3 * WorldSize
      BY RingOK
    <3> QED BY <1>3, <3>1, ExchangesFacts
  <2>3. w.op # "exchange"
    BY <1>2
  <2> HIDE DEF e
  <2> QED BY <1>1, <1>2, <2>1, <2>2, <2>3, PlainStep
<1>6. TypeOK'
  <2>1. stream' \in [Ranks -> Seq(Work)]
    BY <1>2, PopType DEF IInv
  <2>2. output' \in [Ranks -> [Ranks -> Partial \cup {Nothing}] \cup {Nothing}]
    BY <1>2 DEF IInv, TypeOK
  <2> QED BY <1>2, <2>1, <2>2 DEF IInv, TypeOK, hostVars, commVars
<1>7. PartialsAreOwners'
  BY <1>2 DEF IInv, PartialsAreOwners
<1>8. CombineFindsAllPlaces'
  <2>1. \A q \in Ranks : output'[q] = IF q = r THEN partial[r] ELSE output[q]
    BY <1>2 DEF IInv, TypeOK
  <2>2. ASSUME NEW p \in Ranks PROVE partial[r][p] # Nothing
    <3>1. PICK t \in Ranks : Holds(r, t) = p
      BY HoldsFacts
    <3>2. Places(d, r)
      BY <1>1 DEF Ring
    <3> QED BY <1>4, <3>1, <3>2 DEF Places
  <2> QED BY <2>1, <2>2 DEF IInv, CombineFindsAllPlaces
<1>9. ASSUME NEW q \in Ranks PROVE Buffers(e, q)' /\ Places(e, q)'
  <2>1. /\ Buffers(d, q) /\ Places(d, q) /\ buffer' = buffer /\ received' = received
        /\ partial' = partial
    BY <1>1, <1>2 DEF Ring, commVars
  <2>2. CASE q = r
    <3>1. e[r] = 3 + 3 * s /\ ~ received'[r]
      BY <1>4, <1>5, <2>1
    <3>2. buffer[r].v[Side(s)] = Holds(r, s)
      BY <1>4, <2>1, <2>2 DEF Buffers
    <3>3. Buffers(e, r)'
      <4> HIDE DEF e, s
      <4> QED BY <1>4, <2>1, <3>1, <3>2, JobsDistinct DEF Buffers
    <3>4. Places(e, r)'
      BY <1>4, <2>1, <2>2 DEF Places
    <3> QED BY <2>2, <3>3, <3>4
  <2>3. CASE q # r
    <3>1. e[q] = d[q]
      BY <2>3
    <3> HIDE DEF e
    <3> QED BY <2>1, <3>1, OtherMemory
  <2> QED BY <2>2, <2>3
<1>10. Ring(e)'
  BY <1>5, <1>9 DEF Ring
<1> QED BY <1>5, <1>6, <1>7, <1>8, <1>10 DEF IInv

\* After both halves of an exchange of V the next step's chunk is in the next step's buffers.
LEMMA FinishKeeps ==
  ASSUME IInv, NEW r \in Ranks, UNCHANGED eager, FinishExchange(r)
  PROVE  IInv'
<1>1. PICK d \in [Ranks -> 0 .. 3 * WorldSize] : Ring(d)
  BY DEF IInv
<1> DEFINE e == [d EXCEPT ![r] = @ + 1]
           w == Head(stream[r])
<1>2. /\ stream[r] # <<>> /\ w.op = "exchange" /\ posted[r] /\ received[r] /\ Pop(r)
      /\ posted' = [posted EXCEPT ![r] = FALSE] /\ received' = [received EXCEPT ![r] = FALSE]
      /\ UNCHANGED <<hostVars, link, buffer, partial, output>>
  BY DEF FinishExchange, AtHead, memVars
<1>3. PICK s \in Early : d[r] = 2 + 3 * s \/ d[r] = 3 + 3 * s
  <2>1. IsJob(r, d[r], w) /\ d[r] \in Nat
    BY <1>1, <1>2, HeadJob DEF IInv
  <2> HIDE DEF w
  <2> QED BY <1>2, <2>1, JobKinds
<1>4. s \in Ranks /\ s \in Nat /\ s + 1 \in Ranks /\ Side(s + 1) = 1 - Side(s)
  BY RankFacts, SideFacts
<1>5. Exchanges(d[r] + 1) = Exchanges(d[r]) + 1 /\ Exchanges(d[r]) \in Nat
  <2>1. 2 + 3 * s + 1 = 3 + 3 * s /\ 3 + 3 * s + 1 = 4 + 3 * s /\ 2 * s + 2 = 2 * s + 1 + 1
    BY <1>4
  <2> QED BY <1>3, <1>4, <2>1, ExchangesFacts
<1>6. /\ e \in [Ranks -> 0 .. 3 * WorldSize]
      /\ \A q \in Ranks : Host(e, q)' /\ Queue(e, q)' /\ Halves(q)' /\ Wire(e, q)'
  <2>1. TypeOK /\ e = [d EXCEPT ![r] = @ + 1] /\ e[r] = d[r] + 1 /\ UNCHANGED <<hostVars, link>>
    BY <1>2 DEF IInv
  <2>2. posted'[r] = FALSE /\ received'[r] = FALSE
    BY <1>2 DEF IInv, TypeOK
  <2> HIDE DEF e
  <2>3. Posted(e, r)' = Posted(d, r) /\ Got(e, r)' = Got(d, r)
    BY <1>2, <1>5, <2>1, <2>2 DEF Posted, Got
  <2> QED BY <1>1, <1>2, <2>1, <2>3, PopStep
<1>7. TypeOK'
  <2>1. stream' \in [Ranks -> Seq(Work)]
    BY <1>2, PopType DEF IInv
  <2> QED BY <1>2, <2>1 DEF IInv, TypeOK, hostVars
<1>8. ASSUME NEW q \in Ranks PROVE Buffers(e, q)' /\ Places(e, q)'
  <2>1. Buffers(d, q) /\ Places(d, q) /\ buffer' = buffer /\ partial' = partial
    BY <1>1, <1>2 DEF Ring
  <2>2. CASE q = r
    <3>1. ~ received'[r]
      BY <1>2 DEF IInv, TypeOK
    <3>2. CASE d[r] = 2 + 3 * s
      <4>1. e[r] = 3 + 3 * s
        BY <1>4, <3>2
      <4>2. buffer[r].v[Side(s)] = Holds(r, s) /\ buffer[r].k[1 - Side(s)] = Holds(r, s + 1)
        BY <1>2, <1>4, <2>1, <2>2, <3>2 DEF Buffers
      <4>3. Buffers(e, r)'
        <5> HIDE DEF e
        <5> QED BY <1>4, <2>1, <3>1, <4>1, <4>2, JobsDistinct DEF Buffers
      <4>4. Places(e, r)'
        <5> HIDE DEF e
        <5> QED BY <1>4, <2>1, <2>2, <3>2, <4>1, JobsDistinct DEF Places
      <4> QED BY <2>2, <4>3, <4>4
    <3>3. CASE d[r] = 3 + 3 * s
      <4>1. e[r] = 1 + 3 * (s + 1) /\ e[r] = 4 + 3 * s
        BY <1>4, <3>3
      <4>2. buffer[r].v[Side(s + 1)] = Holds(r, s + 1) /\ buffer[r].k[Side(s + 1)] = Holds(r, s + 1)
        BY <1>2, <1>4, <2>1, <2>2, <3>3 DEF Buffers
      <4>3. Buffers(e, r)'
        <5> HIDE DEF e
        <5> QED BY <1>4, <2>1, <3>1, <4>1, <4>2, JobsDistinct DEF Buffers
      <4>4. Places(e, r)'
        <5> HIDE DEF e
        <5> QED BY <1>4, <2>1, <2>2, <3>3, <4>1, JobsDistinct DEF Places
      <4> QED BY <2>2, <4>3, <4>4
    <3> QED BY <1>3, <3>2, <3>3
  <2>3. CASE q # r
    <3>1. e[q] = d[q] /\ received'[q] = received[q]
      BY <1>2, <2>3 DEF IInv, TypeOK
    <3> HIDE DEF e
    <3> QED BY <2>1, <3>1, OtherMemory
  <2> QED BY <2>2, <2>3
<1>9. Ring(e)'
  BY <1>6, <1>8 DEF Ring
<1> QED BY <1>2, <1>6, <1>7, <1>9 DEF IInv, PartialsAreOwners, CombineFindsAllPlaces
\* The message posted is the next one of the rank's own program.
LEMMA PostKeeps ==
  ASSUME IInv, NEW r \in Ranks, UNCHANGED eager, PostSend(r)
  PROVE  IInv'
<1>1. PICK d \in [Ranks -> 0 .. 3 * WorldSize] : Ring(d)
  BY DEF IInv
<1> DEFINE w == Head(stream[r])
           m == buffer[r][w.tensor][w.from]
<1>2. /\ stream[r] # <<>> /\ w.op = "exchange" /\ ~ posted[r]
      /\ link' = [link EXCEPT ![r] = Append(@, m)] /\ posted' = [posted EXCEPT ![r] = TRUE]
      /\ UNCHANGED <<hostVars, stream, received, memVars>>
  BY DEF PostSend, AtHead
<1>3. PICK s \in Early : /\ w.from = Side(s)
                        /\ \/ d[r] = 2 + 3 * s /\ w.tensor = "k"
                           \/ d[r] = 3 + 3 * s /\ w.tensor = "v"
  <2>1. IsJob(r, d[r], w) /\ d[r] \in Nat
    BY <1>1, <1>2, HeadJob DEF IInv
  <2> HIDE DEF w
  <2> QED BY <1>2, <2>1, JobKinds
<1>4. s \in Ranks /\ s \in Nat
  BY RankFacts
<1>5. m = Holds(r, s) /\ m \in Content
  <2>1. m = Holds(r, s)
    BY <1>1, <1>3, <1>4 DEF Ring, Buffers
  <2> QED BY <1>4, <2>1, HoldsFacts DEF Content
<1> HIDE DEF m
<1>6. /\ link \in [Ranks -> Seq(Content)] /\ posted \in [Ranks -> BOOLEAN]
      /\ \A q \in Ranks \ {r} : link'[q] = link[q] /\ posted'[q] = posted[q]
      /\ link'[r] = Append(link[r], m) /\ posted'[r] = TRUE
  BY <1>2 DEF IInv, TypeOK
<1>7. /\ Len(link[r]) \in Nat /\ Len(link'[r]) = Len(link[r]) + 1 /\ link'[r] \in Seq(Content)
      /\ \A i \in 1 .. Len(link[r]) : link'[r][i] = link[r][i]
      /\ link'[r][Len(link[r]) + 1] = m
  BY <1>5, <1>6, AppendFacts
<1>8. TypeOK'
  <2>1. link' \in [Ranks -> Seq(Content)]
    BY <1>2, <1>6, <1>7
  <2> QED BY <1>2, <2>1 DEF IInv, TypeOK, hostVars, memVars
<1>9. /\ d[r] \in Nat /\ Posted(d, r) = Exchanges(d[r]) /\ Posted(d, r)' = Posted(d, r) + 1
      /\ Posted(d, r) \in {2 * s, 2 * s + 1} /\ Posted(d, r) \in Nat
      /\ \A q \in Ranks \ {r} : Posted(d, q)' = Posted(d, q)
      /\ \A q \in Ranks : Got(d, q)' = Got(d, q) /\ Got(d, q) \in Nat
  <2>1. d[r] \in Nat /\ \A q \in Ranks : Exchanges(d[q]) \in Nat
    BY ExchangesFacts
  <2>2. Exchanges(d[r]) \in {2 * s, 2 * s + 1}
    BY <1>3, <1>4, ExchangesFacts
  <2> QED BY <1>2, <1>6, <2>1, <2>2 DEF Posted, Got
<1>10. ASSUME NEW q \in Ranks PROVE Wire(d, q)'
  <2> DEFINE p == PrevRank(q)
  <2>1. Wire(d, q) /\ p \in Ranks
    BY <1>1, PrevFacts DEF Ring
  <2>2. CASE p = r
    <3>1. Len(link[r]) = Posted(d, r) - Got(d, q)
      BY <2>1, <2>2 DEF Wire
    <3>2. Len(link'[r]) = Posted(d, r)' - Got(d, q)'
      BY <1>4, <1>7, <1>9, <3>1
    <3>3. ASSUME NEW i \in 1 .. Len(link'[r]), NEW t \in Ranks,
                 Got(d, q) + i - 1 \in {2 * t, 2 * t + 1}
          PROVE  link'[r][i] = Holds(r, t)
      <4>1. CASE i \in 1 .. Len(link[r])
        BY <1>7, <2>1, <2>2, <3>3, <4>1 DEF Wire
      <4>2. CASE i = Len(link[r]) + 1
        <5>1. Got(d, q) + i - 1 = Posted(d, r)
          BY <1>9, <1>7, <3>1, <4>2
        <5>2. s = t
          <6>1. t \in Nat
            BY RankFacts
          <6> QED BY <1>4, <1>9, <3>3, <5>1, <6>1, MessageStep
        <5> QED BY <1>5, <1>7, <4>2, <5>2
      <4> QED BY <1>7, <4>1, <4>2
    <3> QED BY <1>9, <2>2, <3>2, <3>3 DEF Wire
  <2>3. CASE p # r
    <3>1. link'[p] = link[p] /\ Posted(d, p)' = Posted(d, p) /\ Got(d, q)' = Got(d, q)
      BY <1>6, <1>9, <2>1, <2>3
    <3> QED BY <2>1, <3>1 DEF Wire
  <2> QED BY <2>2, <2>3
<1>11. ASSUME NEW q \in Ranks
       PROVE  Host(d, q)' /\ Queue(d, q)' /\ Halves(q)' /\ Buffers(d, q)' /\ Places(d, q)'
  <2>1. Host(d, q) /\ Queue(d, q) /\ Halves(q) /\ Buffers(d, q) /\ Places(d, q)
    BY <1>1 DEF Ring
  <2>2. /\ at' = at /\ step' = step /\ role' = role /\ stream' = stream /\ received' = received
        /\ buffer' = buffer /\ partial' = partial
    BY <1>2 DEF hostVars, memVars
  <2>3. Host(d, q)' /\ Queue(d, q)' /\ Buffers(d, q)' /\ Places(d, q)'
    BY <2>1, <2>2 DEF Host, Queue, Buffers, Places
  <2>4. Halves(q)'
    <3>1. CASE q = r
      BY <1>2, <3>1 DEF Halves, AtHead
    <3>2. CASE q # r
      <4>1. posted'[q] = posted[q]
        BY <1>6, <3>2
      <4> QED BY <2>1, <2>2, <4>1 DEF Halves, AtHead
    <3> QED BY <3>1, <3>2
  <2> QED BY <2>3, <2>4
<1>12. Ring(d)' /\ UNCHANGED <<partial, output>>
  BY <1>2, <1>10, <1>11 DEF Ring, memVars
<1> QED BY <1>8, <1>12 DEF IInv, PartialsAreOwners, CombineFindsAllPlaces

\* The message received is the chunk of the next step, of the tensor the exchange is of.
LEMMA ReceiveKeeps ==
  ASSUME IInv, NEW r \in Ranks, UNCHANGED eager, Receive(r)
  PROVE  IInv'
<1>1. PICK d \in [Ranks -> 0 .. 3 * WorldSize] : Ring(d)
  BY DEF IInv
<1> DEFINE w == Head(stream[r])
           p == PrevRank(r)
           m == Head(link[p])
<1>2. /\ stream[r] # <<>> /\ w.op = "exchange" /\ ~ received[r] /\ link[p] # <<>>
      /\ buffer' = [buffer EXCEPT ![r][w.tensor][w.to] = m]
      /\ link' = [link EXCEPT ![p] = Tail(@)] /\ received' = [received EXCEPT ![r] = TRUE]
      /\ UNCHANGED <<hostVars, stream, posted, partial, output>>
  BY DEF Receive, AtHead
<1>3. PICK s \in Early : /\ w.to = 1 - Side(s)
                        /\ \/ d[r] = 2 + 3 * s /\ w.tensor = "k"
                           \/ d[r] = 3 + 3 * s /\ w.tensor = "v"
  <2>1. IsJob(r, d[r], w) /\ d[r] \in Nat
    BY <1>1, <1>2, HeadJob DEF IInv
  <2> HIDE DEF w
  <2> QED BY <1>2, <2>1, JobKinds
<1>4. /\ s \in Ranks /\ s \in Nat /\ p \in Ranks
      /\ Side(s) \in {0, 1} /\ 1 - Side(s) \in {0, 1} /\ Side(s) # 1 - Side(s)
  BY RankFacts, SideFacts, PrevFacts
<1>5. /\ link \in [Ranks -> Seq(Content)] /\ received \in [Ranks -> BOOLEAN]
      /\ \A q \in Ranks \ {p} : link'[q] = link[q]
      /\ \A q \in Ranks \ {r} : received'[q] = received[q]
      /\ link'[p] = Tail(link[p]) /\ received'[r] = TRUE /\ link[p] \in Seq(Content)
  BY <1>2, <1>4 DEF IInv, TypeOK
<1>6. /\ m \in Content /\ m = link[p][1] /\ Len(link[p]) \in Nat \ {0}
      /\ link'[p] \in Seq(Content) /\ Len(link'[p]) = Len(link[p]) - 1
      /\ \A i \in 1 .. Len(link'[p]) : link'[p][i] = link[p][i + 1]
  <2>1. link[p] \in Seq(Content) /\ link[p] # <<>>
    BY <1>2, <1>5
  <2>2. /\ m \in Content /\ m = link[p][1] /\ Len(link[p]) \in Nat \ {0}
        /\ Tail(link[p]) \in Seq(Content) /\ Len(Tail(link[p])) = Len(link[p]) - 1
        /\ \A i \in 1 .. Len(link[p]) - 1 : Tail(link[p])[i] = link[p][i + 1]
    BY <2>1, TailFacts
  <2> HIDE DEF m, p
  <2> QED BY <1>5, <2>2
<1>7. /\ d[r] \in Nat /\ Got(d, r) \in {2 * s, 2 * s + 1} /\ Got(d, r)' = Got(d, r) + 1
      /\ Got(d, r) \in Nat
      /\ \A q \in Ranks \ {r} : Got(d, q)' = Got(d, q)
      /\ \A q \in Ranks : Posted(d, q)' = Posted(d, q) /\ Posted(d, q) \in Nat
  <2>1. d[r] \in Nat /\ \A q \in Ranks : Exchanges(d[q]) \in Nat
    BY ExchangesFacts
  <2>2. Exchanges(d[r]) \in {2 * s, 2 * s + 1}
    BY <1>3, <1>4, ExchangesFacts
  <2> QED BY <1>2, <1>5, <2>1, <2>2 DEF Posted, Got
<1>8. m = Holds(r, s + 1)
  <2>1. Wire(d, r)
    BY <1>1 DEF Ring
  <2>2. Got(d, r) + 1 - 1 = Got(d, r) /\ 1 \in 1 .. Len(link[p])
    BY <1>6, <1>7
  <2>3. link[p][1] = Holds(p, s)
    BY <1>4, <1>7, <2>1, <2>2 DEF Wire
  <2> QED BY <1>6, <2>3, HoldsFacts
<1> HIDE DEF m
<1>9. /\ w.tensor \in Tensors /\ w.to \in {0, 1}
      /\ buffer \in [Ranks -> [Tensors -> [{0, 1} -> Content]]]
      /\ \A q \in Ranks, x \in Tensors, i \in {0, 1} :
           buffer'[q][x][i] = IF q = r /\ x = w.tensor /\ i = w.to THEN m ELSE buffer[q][x][i]
  <2>1. w.tensor \in Tensors /\ w.to \in {0, 1}
    BY <1>3, <1>4 DEF Tensors
  <2> HIDE DEF w
  <2> QED BY <1>2, <2>1 DEF IInv, TypeOK
<1>10. TypeOK'
  <2>1. link' \in [Ranks -> Seq(Content)]
    BY <1>2, <1>5, <1>6
  <2>2. buffer' \in [Ranks -> [Tensors -> [{0, 1} -> Content]]]
    BY <1>2, <1>6, <1>9
  <2> QED BY <1>2, <2>1, <2>2 DEF IInv, TypeOK, hostVars
<1>11. ASSUME NEW q \in Ranks PROVE Wire(d, q)'
  <2>1. Wire(d, q) /\ PrevRank(q) \in Ranks
    BY <1>1, PrevFacts DEF Ring
  <2>2. CASE q = r
    <3>1. Len(link'[p]) = Posted(d, p)' - Got(d, r)'
      <4>1. Len(link[p]) = Posted(d, p) - Got(d, r) /\ Posted(d, p) \in Nat
        BY <1>4, <1>7, <2>1, <2>2 DEF Wire
      <4> HIDE DEF p
      <4> QED BY <1>4, <1>6, <1>7, <4>1
    <3>2. ASSUME NEW i \in 1 .. Len(link'[p]), NEW t \in Ranks,
                 Got(d, r)' + i - 1 \in {2 * t, 2 * t + 1}
          PROVE  link'[p][i] = Holds(p, t)
      <4>1. i + 1 \in 1 .. Len(link[p]) /\ Got(d, r) + (i + 1) - 1 = Got(d, r)' + i - 1
        <5>1. i + 1 \in 1 .. Len(link[p])
          BY <1>6
        <5>2. Got(d, r) + (i + 1) - 1 = Got(d, r)' + i - 1
          BY <1>6, <1>7
        <5> QED BY <5>1, <5>2
      <4> QED BY <1>6, <2>1, <2>2, <3>2, <4>1 DEF Wire
    <3> QED BY <2>2, <3>1, <3>2 DEF Wire
  <2>3. CASE q # r
    <3>1. PrevRank(q) # p
      BY <2>3, PrevFacts
    <3>2. /\ link'[PrevRank(q)] = link[PrevRank(q)] /\ Got(d, q)' = Got(d, q)
          /\ Posted(d, PrevRank(q))' = Posted(d, PrevRank(q))
      BY <1>5, <1>7, <2>1, <2>3, <3>1
    <3> QED BY <2>1, <3>2 DEF Wire
  <2> QED BY <2>2, <2>3
<1>12. ASSUME NEW q \in Ranks PROVE Buffers(d, q)' /\ Places(d, q)'
  <2>1. Buffers(d, q) /\ Places(d, q) /\ partial' = partial
    BY <1>1, <1>2 DEF Ring
  <2>2. CASE q = r
    <3>1. CASE d[r] = 2 + 3 * s /\ w.tensor = "k"
      <4>1. /\ buffer'[r].k[1 - Side(s)] = Holds(r, s + 1)
            /\ buffer'[r].k[Side(s)] = Holds(r, s) /\ buffer'[r].v[Side(s)] = Holds(r, s)
        BY <1>3, <1>4, <1>8, <1>9, <2>1, <2>2, <3>1 DEF Buffers, Tensors
      <4> QED BY <1>4, <2>1, <2>2, <3>1, <4>1, JobsDistinct DEF Buffers, Places
    <3>2. CASE d[r] = 3 + 3 * s /\ w.tensor = "v"
      <4>1. /\ buffer'[r].v[1 - Side(s)] = Holds(r, s + 1)
            /\ buffer'[r].k[1 - Side(s)] = Holds(r, s + 1) /\ buffer'[r].v[Side(s)] = Holds(r, s)
        BY <1>3, <1>4, <1>8, <1>9, <2>1, <2>2, <3>2 DEF Buffers, Tensors
      <4> QED BY <1>4, <2>1, <2>2, <3>2, <4>1, JobsDistinct DEF Buffers, Places
    <3> QED BY <1>3, <3>1, <3>2
  <2>3. CASE q # r
    <3>1. buffer'[q] = buffer[q] /\ received'[q] = received[q]
      BY <1>2, <1>5, <2>3 DEF IInv, TypeOK
    <3> QED BY <2>1, <3>1, OtherMemory
  <2> QED BY <2>2, <2>3
<1>13. ASSUME NEW q \in Ranks PROVE Host(d, q)' /\ Queue(d, q)' /\ Halves(q)'
  <2>1. Host(d, q) /\ Queue(d, q) /\ Halves(q)
    BY <1>1 DEF Ring
  <2>2. /\ at' = at /\ step' = step /\ role' = role /\ stream' = stream /\ posted' = posted
    BY <1>2 DEF hostVars
  <2>3. Host(d, q)' /\ Queue(d, q)'
    BY <2>1, <2>2 DEF Host, Queue
  <2>4. Halves(q)'
    <3>1. CASE q = r
      BY <1>2, <3>1 DEF Halves, AtHead
    <3>2. CASE q # r
      <4>1. received'[q] = received[q]
        BY <1>5, <3>2
      <4> QED BY <2>1, <2>2, <4>1 DEF Halves, AtHead
    <3> QED BY <3>1, <3>2
  <2> QED BY <2>3, <2>4
<1>14. Ring(d)' /\ UNCHANGED <<partial, output>>
  BY <1>2, <1>11, <1>12, <1>13 DEF Ring
<1> QED BY <1>10, <1>14 DEF IInv, PartialsAreOwners, CombineFindsAllPlaces
-----------------------------------------------------------------------------
(* The theorems.                                                           *)

\* At first no job is done.
LEMMA InitKeeps ==
  Init => IInv
<1> SUFFICES ASSUME Init PROVE IInv
  OBVIOUS
<1> DEFINE d == [r \in Ranks |-> 0]
<1>1. TypeOK
  BY RankFacts DEF Init, TypeOK, Content
<1>2. PartialsAreOwners /\ CombineFindsAllPlaces
  BY DEF Init, PartialsAreOwners, CombineFindsAllPlaces
<1>3. d \in [Ranks -> 0 .. 3 * WorldSize]
  BY RingOK
<1>4. ASSUME NEW r \in Ranks
      PROVE  Host(d, r) /\ Queue(d, r) /\ Halves(r) /\ Buffers(d, r) /\ Places(d, r)
  <2>1. /\ d[r] = 0 /\ stream[r] = <<>> /\ step[r] = 0 /\ role[r] = 0 /\ at[r] = "bootstrap"
        /\ posted[r] = FALSE /\ received[r] = FALSE /\ Side(0) = 0
    BY DEF Init, Side
  <2>2. \A s \in Ranks : 0 # 1 + 3 * s /\ 0 # 2 + 3 * s /\ 0 # 3 + 3 * s /\ ~ 0 > 1 + 3 * s
    BY RankFacts
  <2> HIDE DEF d
  <2> QED BY <2>1, <2>2, RingOK DEF Host, Queue, Halves, Buffers, Places
<1>5. ASSUME NEW r \in Ranks PROVE Wire(d, r)
  <2>1. PrevRank(r) \in Ranks
    BY PrevFacts
  <2>2. link[PrevRank(r)] = <<>> /\ Posted(d, PrevRank(r)) = 0 /\ Got(d, r) = 0
    BY <2>1, ExchangesFacts DEF Init, Posted, Got
  <2> HIDE DEF d
  <2> QED BY <2>2 DEF Wire
<1> QED BY <1>1, <1>2, <1>3, <1>4, <1>5 DEF IInv, Ring

\* Nothing but the variables matters.
LEMMA StutterKeeps ==
  ASSUME IInv, UNCHANGED vars
  PROVE  IInv'
<1>1. PICK d \in [Ranks -> 0 .. 3 * WorldSize] : Ring(d)
  BY DEF IInv
<1>2. /\ eager' = eager /\ at' = at /\ step' = step /\ role' = role /\ stream' = stream
      /\ posted' = posted /\ received' = received /\ link' = link
      /\ buffer' = buffer /\ partial' = partial /\ output' = output
  BY DEF vars, hostVars, commVars, memVars
<1>3. TypeOK' /\ PartialsAreOwners' /\ CombineFindsAllPlaces'
  BY <1>2 DEF IInv, TypeOK, PartialsAreOwners, CombineFindsAllPlaces
<1>4. ASSUME NEW r \in Ranks
      PROVE  /\ Host(d, r)' /\ Queue(d, r)' /\ Halves(r)'
             /\ Wire(d, r)' /\ Buffers(d, r)' /\ Places(d, r)'
  <2>1. Host(d, r)' = Host(d, r) /\ Queue(d, r)' = Queue(d, r) /\ Places(d, r)' = Places(d, r)
    BY <1>2 DEF Host, Queue, Places
  <2>2. Halves(r)' = Halves(r) /\ Buffers(d, r)' = Buffers(d, r)
    BY <1>2 DEF Halves, AtHead, Buffers
  <2>3. Wire(d, r)' = Wire(d, r)
    BY <1>2 DEF Wire, Posted, Got
  <2> QED BY <1>1, <2>1, <2>2, <2>3 DEF Ring
<1>5. Ring(d)'
  BY <1>4 DEF Ring
<1> QED BY <1>3, <1>5 DEF IInv

\* The invariant holds in every reachable state, of any number of ranks.
THEOREM Inductive == Spec => []IInv
<1>1. Init => IInv
  BY InitKeeps
<1>2. IInv /\ [Next]_vars => IInv'
  <2> SUFFICES ASSUME IInv, [Next]_vars PROVE IInv'
    OBVIOUS
  <2>1. CASE Next
    <3>1. UNCHANGED eager
      BY <2>1 DEF Next
    <3>2. PICK r \in Ranks : HostStep(r) \/ StreamStep(r) \/ EnqueueFails(r)
      BY <2>1 DEF Next
    <3> QED BY <3>1, <3>2, HostKeeps, FailKeeps, CopyKeeps, LaunchKeeps, PostKeeps, ReceiveKeeps,
           FinishKeeps, CombineKeeps DEF StreamStep
  <2>2. CASE UNCHANGED vars
    BY <2>2, StutterKeeps
  <2> QED BY <2>1, <2>2
<1> QED BY <1>1, <1>2, PTL DEF Spec

\* The loop counter and the split numbers stay within the ring, and so on.
THEOREM TypeCorrect == Spec => []TypeOK
  BY Inductive, PTL DEF IInv

\* At a split's place lies what was computed from the chunk of that number, K and V
\* alike, on every rank: the split number the host took from its loop counter fits
\* the chunk the stream has got from the ring, for any number of ranks.
THEOREM PartialsCorrect == Spec => []PartialsAreOwners
  BY Inductive, PTL DEF IInv

\* Every place the combine kernel merges was written, for any number of ranks.
THEOREM CombineCorrect == Spec => []CombineFindsAllPlaces
  BY Inductive, PTL DEF IInv

=============================================================================
