---------------------------- MODULE RingAttention ----------------------------
(***************************************************************************)
(* Ring attention over several ranks:                                      *)
(*   distributed/ring_attention_distributed.rs                             *)
(*   distributed/nccl_transport.rs                                         *)
(* Every rank keeps one chunk of K and V and calls                         *)
(* ring_attention_bf16_distributed.  The host thread of a rank only        *)
(* enqueues work on its CUDA stream and returns; the stream runs the work  *)
(* in order and waits where an exchange has no partner yet.  The two       *)
(* buffers of K and the two of V change roles on the host, while the work  *)
(* that reads them may still be queued.                                    *)
(*                                                                         *)
(* A chunk is named by the rank that holds it at the start.  Tensors are   *)
(* abstracted to the chunk they hold, a partial output to the chunks of K  *)
(* and V and the split it was computed from.                               *)
(***************************************************************************)
EXTENDS KvSplits, Integers, Sequences, SequencesExt

CONSTANTS
  WorldSize,   \* ranks in the ring
  LocalBlocks, \* KV blocks in each rank's chunk
  Transports,  \* whether the transport may buffer a message until the peer takes it
  MaxFailures, \* bound: ranks at which an enqueue returns an error, if it may,
  MaxFailuresRendezvous, \* and if it may not
  Nothing

Ranks == 0 .. WorldSize - 1
Tensors == {"k", "v"}
Content == Ranks \cup {Nothing}    \* a zeroed buffer holds Nothing
Partial == [k : Content, v : Content, blocks : SUBSET (0 .. LocalBlocks - 1)]

ASSUME RingOK ==
  /\ WorldSize \in Nat \ {0}
  /\ LocalBlocks \in Nat
  /\ Transports \subseteq BOOLEAN /\ MaxFailures \in Nat /\ MaxFailuresRendezvous \in Nat
  /\ Nothing \notin Int \cup Partial

VARIABLES
  eager,     \* the transport buffers
  at,        \* where each rank's host thread is
  step,      \* its loop counter
  role,      \* which buffer of a pair is k_send and v_send
  stream,    \* the work enqueued and not yet run
  buffer,    \* what the K and V buffers of a rank hold
  posted,    \* the exchange at the head of the stream has handed over its message
  received,  \* and has got its own
  link,      \* messages on their way from a rank to the next
  partial,   \* the partial buffers, one place per split
  output     \* what the combine kernel merged

hostVars == <<at, step, role>>
commVars == <<posted, received, link>>
memVars == <<buffer, partial, output>>
vars == <<eager, hostVars, stream, commVars, memVars>>

Init ==
  /\ eager \in Transports
  /\ at = [r \in Ranks |-> "bootstrap"]
  /\ step = [r \in Ranks |-> 0]
  /\ role = [r \in Ranks |-> 0]
  /\ stream = [r \in Ranks |-> <<>>]
  /\ buffer = [r \in Ranks |-> [x \in Tensors |-> [i \in {0, 1} |-> Nothing]]]
  /\ posted = [r \in Ranks |-> FALSE]
  /\ received = [r \in Ranks |-> FALSE]
  /\ link = [r \in Ranks |-> <<>>]
  /\ partial = [r \in Ranks |-> [s \in Ranks |-> Nothing]]
  /\ output = [r \in Ranks |-> Nothing]

PrevRank(r) == (r + WorldSize - 1) % WorldSize

-----------------------------------------------------------------------------
(* The host thread of rank r.                                              *)

\* Mutant: counted from the rank before.
OwnerFromPrev(r) == (PrevRank(r) + WorldSize - step[r]) % WorldSize

Owner(r) == (r + WorldSize - step[r]) % WorldSize

Enqueue(r, work) == stream' = [stream EXCEPT ![r] = Append(@, work)]

Goto(r, l) == at' = [at EXCEPT ![r] = l]

\* Every ? of the function: the caller gets the error, the queue stays.
EnqueueFails(r) ==
  /\ Cardinality({q \in Ranks : at[q] = "failed"})
       < IF eager THEN MaxFailures ELSE MaxFailuresRendezvous
  /\ at[r] \notin {"returned", "failed"}
  /\ Goto(r, "failed")
  /\ UNCHANGED <<step, role, stream, commVars, memVars>>

Bootstrap(r) ==
  /\ at[r] = "bootstrap"
  /\ Enqueue(r, [op |-> "copy"])
  /\ Goto(r, "attend")
  /\ UNCHANGED <<step, role, commVars, memVars>>

LaunchUpTo(r, last) ==
  /\ at[r] = "attend"
  /\ Enqueue(r, [op |-> "attend", from |-> role[r], split |-> Owner(r)])
  /\ Goto(r, IF step[r] + 1 < last THEN "sendK" ELSE "combine")
  /\ UNCHANGED <<step, role, commVars, memVars>>

\* Mutants: one step short, one too many.
LaunchOneShort(r) == LaunchUpTo(r, WorldSize - 1)
LaunchOneMore(r) == LaunchUpTo(r, WorldSize + 1)

LaunchSplitKv(r) == LaunchUpTo(r, WorldSize)

SendRecvK(r) ==
  /\ at[r] = "sendK"
  /\ Enqueue(r, [op |-> "exchange", tensor |-> "k", from |-> role[r], to |-> 1 - role[r]])
  /\ Goto(r, "sendV")
  /\ UNCHANGED <<step, role, commVars, memVars>>

\* The second exchange, and the swap of both pairs.
SendRecvV(r) ==
  /\ at[r] = "sendV"
  /\ Enqueue(r, [op |-> "exchange", tensor |-> "v", from |-> role[r], to |-> 1 - role[r]])
  /\ role' = [role EXCEPT ![r] = 1 - @]
  /\ step' = [step EXCEPT ![r] = @ + 1]
  /\ Goto(r, "attend")
  /\ UNCHANGED <<commVars, memVars>>

LaunchCombine(r) ==
  /\ at[r] = "combine"
  /\ Enqueue(r, [op |-> "combine"])
  /\ Goto(r, "returned")
  /\ UNCHANGED <<step, role, commVars, memVars>>

-----------------------------------------------------------------------------
(* The stream of rank r.                                                   *)

AtHead(r, op) == stream[r] # <<>> /\ Head(stream[r]).op = op

Pop(r) == stream' = [stream EXCEPT ![r] = Tail(@)]

RunCopy(r) ==
  /\ AtHead(r, "copy")
  /\ buffer' = [buffer EXCEPT ![r] = [x \in Tensors |-> [@[x] EXCEPT ![0] = r]]]
  /\ Pop(r)
  /\ UNCHANGED <<hostVars, commVars, partial, output>>

\* One launch of the split-KV kernel.
RunSplitKv(r) ==
  /\ AtHead(r, "attend")
  /\ LET w == Head(stream[r]) IN
       partial' = [partial EXCEPT ![r][w.split] =
         [k |-> buffer[r].k[w.from], v |-> buffer[r].v[w.from],
          blocks |-> SplitBlocks(LocalBlocks, WorldSize, w.split)]]
  /\ Pop(r)
  /\ UNCHANGED <<hostVars, commVars, buffer, output>>

\* The exchange is one group of a send to the next rank and a receive from the
\* previous one; messages between two ranks match in the order they are posted.
PostSend(r) ==
  /\ AtHead(r, "exchange") /\ ~posted[r]
  /\ LET w == Head(stream[r]) IN link' = [link EXCEPT ![r] = Append(@, buffer[r][w.tensor][w.from])]
  /\ posted' = [posted EXCEPT ![r] = TRUE]
  /\ UNCHANGED <<hostVars, stream, received, memVars>>

\* Mutant: no group, the receive waits for the send.
ReceiveAfterSend(r) ==
  /\ AtHead(r, "exchange") /\ ~received[r]
  /\ posted[r] /\ link[r] = <<>>
  /\ link[PrevRank(r)] # <<>>
  /\ LET w == Head(stream[r]) IN
       buffer' = [buffer EXCEPT ![r][w.tensor][w.to] = Head(link[PrevRank(r)])]
  /\ link' = [link EXCEPT ![PrevRank(r)] = Tail(@)]
  /\ received' = [received EXCEPT ![r] = TRUE]
  /\ UNCHANGED <<hostVars, stream, posted, partial, output>>

Receive(r) ==
  /\ AtHead(r, "exchange") /\ ~received[r]
  /\ link[PrevRank(r)] # <<>>
  /\ LET w == Head(stream[r]) IN
       buffer' = [buffer EXCEPT ![r][w.tensor][w.to] = Head(link[PrevRank(r)])]
  /\ link' = [link EXCEPT ![PrevRank(r)] = Tail(@)]
  /\ received' = [received EXCEPT ![r] = TRUE]
  /\ UNCHANGED <<hostVars, stream, posted, partial, output>>

FinishExchange(r) ==
  /\ AtHead(r, "exchange") /\ posted[r] /\ received[r]
  /\ eager \/ link[r] = <<>>
  /\ posted' = [posted EXCEPT ![r] = FALSE]
  /\ received' = [received EXCEPT ![r] = FALSE]
  /\ Pop(r)
  /\ UNCHANGED <<hostVars, link, memVars>>

RunCombine(r) ==
  /\ AtHead(r, "combine")
  /\ output' = [output EXCEPT ![r] = partial[r]]
  /\ Pop(r)
  /\ UNCHANGED <<hostVars, commVars, buffer, partial>>

-----------------------------------------------------------------------------

HostStep(r) ==
  Bootstrap(r) \/ LaunchSplitKv(r) \/ SendRecvK(r) \/ SendRecvV(r) \/ LaunchCombine(r)

StreamStep(r) ==
  \/ RunCopy(r) \/ RunSplitKv(r) \/ PostSend(r) \/ Receive(r)
  \/ FinishExchange(r) \/ RunCombine(r)

Next == UNCHANGED eager /\ \E r \in Ranks : HostStep(r) \/ StreamStep(r) \/ EnqueueFails(r)

Spec == Init /\ [][Next]_vars

\* As long as a host thread or a stream can go on, one of them does.  No rank can do so
\* for ever, so more need not be assumed.
Fairness == WF_vars(UNCHANGED eager /\ \E r \in Ranks : HostStep(r) \/ StreamStep(r))
FairSpec == Spec /\ Fairness

-----------------------------------------------------------------------------
(* Properties.                                                             *)

Work ==
  [op : {"copy", "combine"}]
    \cup [op : {"attend"}, from : {0, 1}, split : Ranks]
    \cup [op : {"exchange"}, tensor : Tensors, from : {0, 1}, to : {0, 1}]

\* The variables have their types: the loop counter stays within the ring, so the
\* split a launch names is one the combine kernel reads.
TypeOK ==
  /\ eager \in Transports
  /\ at \in [Ranks -> {"bootstrap", "attend", "sendK", "sendV", "combine", "returned", "failed"}]
  /\ step \in [Ranks -> Ranks]
  /\ role \in [Ranks -> {0, 1}]
  /\ stream \in [Ranks -> Seq(Work)]
  /\ buffer \in [Ranks -> [Tensors -> [{0, 1} -> Content]]]
  /\ posted \in [Ranks -> BOOLEAN] /\ received \in [Ranks -> BOOLEAN]
  /\ link \in [Ranks -> Seq(Content)]
  /\ partial \in [Ranks -> [Ranks -> Partial \cup {Nothing}]]
  /\ output \in [Ranks -> [Ranks -> Partial \cup {Nothing}] \cup {Nothing}]

\* What lies at a split's place comes from the chunk of that number, K and V
\* alike, on every rank, however far the ranks and their streams drift apart
\* and whoever fails: the label the host chose when it enqueued the launch
\* fits what the buffer holds when the launch runs.
PartialsAreOwners ==
  \A r, s \in Ranks : partial[r][s] # Nothing => partial[r][s].k = s /\ partial[r][s].v = s

\* The combine kernel never merges a place that was not written.
CombineFindsAllPlaces ==
  \A r \in Ranks : output[r] # Nothing => \A s \in Ranks : output[r][s] # Nothing

\* If no rank fails, every rank gets its output: the ring never waits on itself.
RingCompletes ==
  (\A r \in Ranks : [](at[r] # "failed")) => <>(\A r \in Ranks : output[r] # Nothing)

\* nccl_ring_attention_sanity.rs expects of the output that it is that "of monolithic
\* single-node attention": every block of every chunk is attended.
AttendsWholeSequence ==
  \A r \in Ranks : output[r] # Nothing =>
    \A s \in Ranks : output[r][s].blocks = 0 .. LocalBlocks - 1

=============================================================================
