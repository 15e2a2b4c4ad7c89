------------------------------ MODULE OnceLoader ------------------------------
(***************************************************************************)
(* What the double-checked kernel caches of module.rs promise their        *)
(* callers: one function per key, chosen by whichever cold load completes  *)
(* first, and the same function for every later caller.  A call takes      *)
(* effect in one step between its beginning and its end, and a call that   *)
(* fails leaves the table as it was.                                       *)
(***************************************************************************)
CONSTANTS Clients, Names, Functions, None, Error

VARIABLES
  table,   \* the function of each name, None until it is loaded
  busy,    \* the clients inside a call
  wants,   \* the name each client asked for last
  answer   \* what its last call returned, None while it has no answer

vars == <<table, busy, wants, answer>>

Init ==
  /\ table = [n \in Names |-> None]
  /\ busy = {}
  /\ wants \in [Clients -> Names]
  /\ answer = [c \in Clients |-> None]

Ask(c, n) ==
  /\ c \notin busy
  /\ busy' = busy \cup {c}
  /\ wants' = [wants EXCEPT ![c] = n]
  /\ answer' = [answer EXCEPT ![c] = None]
  /\ UNCHANGED table

Found(c) ==
  /\ c \in busy /\ table[wants[c]] # None
  /\ busy' = busy \ {c}
  /\ answer' = [answer EXCEPT ![c] = table[wants[c]]]
  /\ UNCHANGED <<table, wants>>

Loaded(c, f) ==
  /\ c \in busy /\ table[wants[c]] = None
  /\ table' = [table EXCEPT ![wants[c]] = f]
  /\ busy' = busy \ {c}
  /\ answer' = [answer EXCEPT ![c] = f]
  /\ UNCHANGED wants

Failed(c) ==
  /\ c \in busy /\ table[wants[c]] = None
  /\ busy' = busy \ {c}
  /\ answer' = [answer EXCEPT ![c] = Error]
  /\ UNCHANGED <<table, wants>>

\* The client is done with the answer, or calls something else.
Forget(c) ==
  /\ c \notin busy
  /\ answer' = [answer EXCEPT ![c] = None]
  /\ \E n \in Names : wants' = [wants EXCEPT ![c] = n]
  /\ UNCHANGED <<table, busy>>

Next ==
  \E c \in Clients :
    \/ \E n \in Names : Ask(c, n)
    \/ Found(c) \/ Failed(c) \/ Forget(c)
    \/ \E f \in Functions : Loaded(c, f)

Spec == Init /\ [][Next]_vars
=============================================================================
