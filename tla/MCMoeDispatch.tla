---------------------------- MODULE MCMoeDispatch ----------------------------
(***************************************************************************)
(* A layer is run for a batch, by MoeDispatch, or for one token, by        *)
(* MoeDecode.  Two tokens, three experts on two devices and tiles of two   *)
(* rows; calls of the grouped products of every format with good and bad   *)
(* dimensions and buffers; two slots and up to three shards.               *)
(***************************************************************************)
EXTENDS MoeDispatch, MoeDecode

MCPlacement == [e \in 0 .. 2 |-> e \div 2]

Row(a, b, c) == [e \in 0 .. 2 |-> CASE e = 0 -> a [] e = 1 -> b [] e = 2 -> c]

\* Equal logits, a strict order, an expert masked out, all but one, all.
MCLogitRows == {Row(1, 2, 2), Row(3, 1, 2), Row(2, 0, 1), Row(0, 0, 1), Row(0, 0, 0)}

\* k = 40 suits no MMA kernel, k = 48 the formats with blocks of 16, k = 128 all;
\* n = 4096 is where the choice changes.
Call(f, m, n, k, b, s, o) ==
  [format |-> f, m_max |-> m, experts |-> 0, n |-> n, k |-> k,
   b |-> b, scales |-> s, offsets |-> o, active |-> 3]

MCCalls ==
  {Call(f, "max", n, k, b, s, 4) :
     f \in Formats, n \in {40, 64, 4096}, k \in {40, 48, 128},
     b \in {12288, 3 * 4096 * 128}, s \in {3, 3 * 4096 * 8}}
  \cup {Call(f, "all", 64, 128, 24576, 1536, o) : f \in Formats, o \in {3, 4}}

MCScoreRows == {Row(1, 2, 2), Row(3, 0, 2)}

\* The other layer does not vary.
MCInit ==
  /\ Init /\ DecodeInit
  /\ \/ shards = 0 /\ dual /\ scores = Row(1, 2, 2)
     \/ path = "device" /\ \A t \in Tokens : logits[t] = Row(0, 0, 0)
BatchStarted  == \E t \in Tokens : passes[t] > 0
DecodeStarted == chosen > 0

MCNext ==
  \/ ~DecodeStarted /\ Next /\ UNCHANGED decodeVars
  \/ ~BatchStarted /\ DecodeNext /\ UNCHANGED vars
  \/ DecodeDone /\ UNCHANGED <<vars, decodeVars>>

MCSpec == MCInit /\ [][MCNext]_<<vars, decodeVars>>
=============================================================================
