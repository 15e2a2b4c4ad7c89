------------------------------ MODULE Induction ------------------------------
(***************************************************************************)
(* Induction for the provers, over finite sets and over the naturals, and  *)
(* what the other proofs need of it.  The induction theorems of the        *)
(* library are about an operator, which no prover can instantiate; here    *)
(* the sets of which something holds are a set.  Everything comes from the *)
(* strict subsets of a finite set being well-founded.                      *)
(***************************************************************************)
EXTENDS Integers, FiniteSets, FiniteSetTheorems, TLAPS


\* A set of finite sets has a minimal one.
LEMMA MinimalSet ==
  ASSUME NEW F, F # {}, \A A \in F : IsFiniteSet(A)
  PROVE  \E A \in F : \A B \in F : B \subseteq A => B = A
<1> DEFINE S == UNION F
           R == StrictSubsetOrdering(S)
<1>1. F \subseteq FiniteSubsetsOf(S)
  BY DEF FiniteSubsetsOf
<1>2. IsWellFoundedOn(R, FiniteSubsetsOf(S))
  BY FS_StrictSubsetOrderingWellFounded
<1> HIDE DEF R
<1>3. PICK A \in F : \A B \in F : <<B, A>> \notin R
  BY <1>1, <1>2, WFMin
<1>4. ASSUME NEW B \in F, B \subseteq A PROVE B = A
  BY <1>3, <1>4 DEF R, StrictSubsetOrdering
<1> QED BY <1>4

\* A set of naturals has a least one.
LEMMA LeastNat ==
  ASSUME NEW T \in SUBSET Nat, T # {}
  PROVE  \E n \in T : \A m \in T : n <= m
<1> DEFINE F == {1 .. n : n \in T}
<1>1. F # {} /\ \A A \in F : IsFiniteSet(A)
  <2>1. \A n \in T : IsFiniteSet(1 .. n)
    BY FS_Interval
  <2> QED BY <2>1
<1>2. PICK A \in F : \A B \in F : B \subseteq A => B = A
  <2> HIDE DEF F
  <2> QED BY <1>1, MinimalSet
<1>3. PICK n \in T : A = 1 .. n
  <2>1. A \in F
    BY <1>2
  <2> QED BY <2>1
<1>4. ASSUME NEW m \in T, m < n PROVE FALSE
  <2>1. 1 .. m \in F /\ 1 .. m \subseteq 1 .. n
    BY <1>4
  <2>2. 1 .. m = 1 .. n
    BY <1>2, <1>3, <2>1
  <2>3. n \in 1 .. n /\ n \notin 1 .. m
    BY <1>4
  <2> QED BY <2>2, <2>3
<1> QED BY <1>4

\* What holds of 0, and of n + 1 when of n, holds of every natural.
LEMMA NaturalInduction ==
  ASSUME NEW T \in SUBSET Nat, 0 \in T, \A n \in T : n + 1 \in T
  PROVE  T = Nat
<1> SUFFICES ASSUME Nat \ T # {} PROVE FALSE
  OBVIOUS
<1>1. PICK n \in Nat \ T : \A m \in Nat \ T : n <= m
  BY LeastNat
<1>2. n # 0 /\ n - 1 \in Nat /\ n - 1 + 1 = n
  OBVIOUS
<1>3. n - 1 \in T
  BY <1>1, <1>2
<1> QED BY <1>2, <1>3

\* What holds of the empty set and survives a new element holds of a finite set.
LEMMA FiniteInduction ==
  ASSUME NEW S, IsFiniteSet(S), NEW F, {} \in F,
         \A A \in SUBSET S, x \in S : A \in F => A \cup {x} \in F
  PROVE  S \in F
<1> DEFINE G == {B \in SUBSET S : S \ B \in F}
<1>1. S \in G /\ \A B \in G : IsFiniteSet(B)
  BY FS_Subset
<1>2. PICK B \in G : \A C \in G : C \subseteq B => C = B
  <2> HIDE DEF G
  <2> QED BY <1>1, MinimalSet
<1>3. ASSUME NEW x \in B PROVE FALSE
  <2> DEFINE C == B \ {x}
  <2>1. S \ C = (S \ B) \cup {x} /\ S \ B \in SUBSET S /\ x \in S
    OBVIOUS
  <2>2. C \in G
    BY <2>1
  <2>3. C = B
    BY <1>2, <2>2
  <2> QED BY <2>3
<1> QED BY <1>3

\* A function on a finite set is greatest somewhere.
LEMMA GreatestAt ==
  ASSUME NEW S, IsFiniteSet(S), S # {}, NEW f \in [S -> Nat]
  PROVE  \E x \in S : \A y \in S : f[y] <= f[x]
<1> DEFINE F == {A \in SUBSET S : A # {} => \E x \in A : \A y \in A : f[y] <= f[x]}
<1>1. {} \in F
  OBVIOUS
<1>2. ASSUME NEW A \in SUBSET S, NEW x \in S, A \in F PROVE A \cup {x} \in F
  <2>1. CASE A = {}
    BY <2>1
  <2>2. CASE A # {}
    <3>1. PICK z \in A : \A y \in A : f[y] <= f[z]
      BY <1>2, <2>2
    <3>2. CASE f[z] <= f[x]
      BY <3>1, <3>2
    <3>3. CASE f[x] < f[z]
      BY <3>1, <3>3
    <3> QED BY <3>2, <3>3
  <2> QED BY <2>1, <2>2
<1>3. S \in F
  <2> HIDE DEF F
  <2> QED BY <1>1, <1>2, FiniteInduction
<1> QED BY <1>3

\* Dividing a number written with quotient and remainder.
LEMMA Divided ==
  ASSUME NEW d \in Nat \ {0}, NEW q \in Nat, NEW r \in 0 .. d - 1
  PROVE  (q * d + r) \div d = q /\ (q * d + r) % d = r
OBVIOUS

\* And every number can be so written.
LEMMA DividedBack ==
  ASSUME NEW d \in Nat \ {0}, NEW i \in Nat
  PROVE  \E q \in Nat, r \in 0 .. d - 1 : i \div d = q /\ i % d = r /\ i = q * d + r
<1> DEFINE q == i \div d
           r == i - q * d
<1>1. q \in Int /\ d * q <= i /\ i < d * q + d
  OBVIOUS
<1> HIDE DEF q
<1>2. d * q = q * d
  BY <1>1
<1>3. q >= 0
  <2> SUFFICES ASSUME q < 0 PROVE FALSE
    BY <1>1
  <2>1. - q - 1 \in Nat
    BY <1>1
  <2>2. d * (- q - 1) >= 0
    BY <2>1
  <2> QED BY <1>1, <2>2
<1>4. q \in Nat /\ r \in 0 .. d - 1 /\ i = q * d + r
  BY <1>1, <1>2, <1>3
<1> HIDE DEF r
<1>5. i % d = r
  BY <1>4, Divided
<1>6. i \div d = q
  BY DEF q
<1> QED BY <1>4, <1>5, <1>6
==============================================================================
