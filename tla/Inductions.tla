----------------------------- MODULE Inductions -----------------------------
(* Induction over the naturals for a set instead of a predicate, so that   *)
(* it can be cited where a loop of the code is a recursive function: the   *)
(* set is that of the numbers of rounds after which what is claimed holds. *)
EXTENDS Integers, WellFoundedInduction, TLAPS

(* The order of the naturals as the set of pairs that WFMin speaks of.     *)
LEMMA OrderOfNaturals ==
    \E R : IsWellFoundedOn(R, Nat) /\ \A x, y \in Nat : <<x, y>> \in R <=> x < y
<1>1. IsWellFoundedOn({ss \in Nat \X Nat : ss[1] < ss[2]}, Nat)
  BY NatLessThanWellFounded DEF OpToRel
<1>2. \A x, y \in Nat : <<x, y>> \in {ss \in Nat \X Nat : ss[1] < ss[2]} <=> x < y
  OBVIOUS
<1> QED BY <1>1, <1>2

(* Every set of naturals that is not empty has a least element.            *)
LEMMA LeastElement ==
    ASSUME NEW C, C \subseteq Nat, C # {}
    PROVE  \E x \in C : \A y \in C : x <= y
<1>1. PICK R : IsWellFoundedOn(R, Nat) /\ \A x, y \in Nat : <<x, y>> \in R <=> x < y
  BY OrderOfNaturals
<1>2. IsWellFoundedOn(R, Nat)
  BY <1>1
<1>3. PICK x \in C : \A y \in C : ~(<<y, x>> \in R)
  BY ONLY C \subseteq Nat, <1>2, C # {}, WFMin
<1>4. \A y \in C : x \in Nat /\ y \in Nat /\ ~(<<y, x>> \in R)
  BY <1>3
<1>5. \A y \in C : ~(y < x)
  BY <1>1, <1>4
<1>6. \A y \in C : x <= y
  BY <1>4, <1>5
<1> QED BY <1>6

(* A bounded set of naturals that is not empty has a greatest element.     *)
LEMMA GreatestElement ==
    ASSUME NEW N \in Nat, NEW S, S \subseteq 0 .. N, S # {}
    PROVE  \E g \in S : \A h \in S : h <= g
<1> DEFINE C == {m \in 0 .. N : N - m \in S}
<1>1. C \subseteq Nat
  OBVIOUS
<1>2. \A g \in S : g \in 0 .. N /\ N - g \in C
  BY SMT
<1>3. C # {}
  BY <1>2
<1> HIDE DEF C
<1>4. PICK m \in C : \A k \in C : m <= k
  BY <1>1, <1>3, LeastElement
<1>5. m \in 0 .. N /\ N - m \in S
  BY <1>4 DEF C
<1>6. \A h \in S : h <= N - m
  BY <1>2, <1>4, <1>5
<1> QED BY <1>5, <1>6

(* What holds after no round, and after one more round than it held        *)
(* before, holds after N rounds.                                           *)
LEMMA RoundInduction ==
    ASSUME NEW N \in Nat, NEW T, 0 \in T, \A n \in 0 .. N - 1 : n \in T => n + 1 \in T
    PROVE  \A n \in 0 .. N : n \in T
<1> DEFINE C == (0 .. N) \ T
<1> SUFFICES ASSUME C # {} PROVE FALSE
  OBVIOUS
<1>1. C \subseteq Nat
  OBVIOUS
<1>2. PICK x \in C : \A y \in C : x <= y
  BY <1>1, LeastElement
<1>3. x \in 1 .. N /\ x \notin T
  BY <1>2
<1>4. x - 1 \in 0 .. N - 1 /\ x - 1 \notin C
  BY <1>2, <1>3
<1> QED BY <1>3, <1>4

(* What each round keeps holds after every round.                          *)
LEMMA RoundsKeep ==
    ASSUME NEW D, NEW N \in Nat, NEW f, f[0] \in D, \A n \in 1 .. N : f[n - 1] \in D => f[n] \in D
    PROVE  \A n \in 0 .. N : f[n] \in D
<1> DEFINE T == {n \in Nat : f[n] \in D}
<1>1. 0 \in T
  OBVIOUS
<1>2. ASSUME NEW n \in 0 .. N - 1, n \in T PROVE n + 1 \in T
  <2>1. n + 1 \in 1 .. N /\ (n + 1) - 1 = n /\ n + 1 \in Nat
    OBVIOUS
  <2>2. f[(n + 1) - 1] \in D => f[n + 1] \in D
    BY <2>1
  <2>3. f[n] \in D
    BY <1>2
  <2> QED BY <2>1, <2>2, <2>3
<1> HIDE DEF T
<1>3. \A n \in 0 .. N : n \in T
  BY <1>1, <1>2, RoundInduction
<1> QED BY <1>3 DEF T

(* The results of N rounds that begin with o, the n-th of which takes x to *)
(* F[<<x, n>>].                                                            *)
RoundsOf(f, o, N, F) == f[0] = o /\ \A n \in 1 .. N : f[n] = F[<<f[n - 1], n>>]

(* There are such results.                                                 *)
LEMMA RoundsExist ==
    ASSUME NEW D, NEW o \in D, NEW N \in Nat, NEW F \in [D \X (1 .. N) -> D]
    PROVE  \E f \in [0 .. N -> D] : RoundsOf(f, o, N, F)
<1> DEFINE T == {m \in Nat : \E f \in [0 .. N -> D] :
                    f[0] = o /\ \A n \in 1 .. N : n <= m => f[n] = F[<<f[n - 1], n>>]}
<1>1. 0 \in T
  <2>1. [n \in 0 .. N |-> o] \in [0 .. N -> D] /\ [n \in 0 .. N |-> o][0] = o
    OBVIOUS
  <2>2. \A n \in 1 .. N : ~(n <= 0)
    OBVIOUS
  <2> DEFINE g == [n \in 0 .. N |-> o]
  <2>3. g \in [0 .. N -> D] /\ g[0] = o /\ \A n \in 1 .. N : n <= 0 => g[n] = F[<<g[n - 1], n>>]
    BY <2>1, <2>2
  <2> HIDE DEF g
  <2> QED BY <2>3
<1>2. ASSUME NEW m \in 0 .. N - 1, m \in T PROVE m + 1 \in T
  <2>1. PICK f \in [0 .. N -> D] : f[0] = o /\ \A n \in 1 .. N : n <= m => f[n] = F[<<f[n - 1], n>>]
    BY <1>2
  <2> DEFINE g == [n \in 0 .. N |-> IF n = m + 1 THEN F[<<f[m], m + 1>>] ELSE f[n]]
  <2>2. f[m] \in D /\ m + 1 \in 1 .. N
    OBVIOUS
  <2>3. F[<<f[m], m + 1>>] \in D
    BY <2>2
  <2>4. g \in [0 .. N -> D] /\ g[0] = o
    BY <2>1, <2>3
  <2>5. ASSUME NEW n \in 1 .. N, n <= m + 1 PROVE g[n] = F[<<g[n - 1], n>>]
    <3>1. CASE n = m + 1
      <4>1. g[n] = F[<<f[m], m + 1>>] /\ g[n - 1] = f[m]
        BY <3>1
      <4> HIDE DEF g
      <4> QED BY <3>1, <4>1
    <3>2. CASE n <= m
      <4>1. g[n] = f[n] /\ g[n - 1] = f[n - 1]
        BY <3>2
      <4>2. f[n] = F[<<f[n - 1], n>>]
        BY <2>1, <3>2
      <4> HIDE DEF g
      <4> QED BY <4>1, <4>2
    <3> QED BY <2>5, <3>1, <3>2
  <2> HIDE DEF g
  <2>6. m + 1 \in Nat
    OBVIOUS
  <2> QED BY <2>4, <2>5, <2>6
<1> HIDE DEF T
<1>3. N \in T
  BY <1>1, <1>2, RoundInduction
<1> QED BY <1>3 DEF T, RoundsOf
=============================================================================
