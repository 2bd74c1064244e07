------------------------- MODULE UsageLedger_proofs -------------------------
(* Proofs about the ledger of requests.                                    *)
EXTENDS UsageLedger, Inductions, FiniteSetTheorems, SequenceTheorems

-----------------------------------------------------------------------------
(* Sequences.                                                              *)

Kept(x, e, S) == IF e \in S THEN Append(x, e) ELSE x

(* The rounds of Only, whatever set its results stay in. *)
OnlyRounds(s, D, o, S) ==
    \E f \in [0 .. Len(s) -> D] :
        /\ f[0] = o /\ Only(s, S) = f[Len(s)]
        /\ \A n \in 1 .. Len(s) : f[n] = Kept(f[n - 1], s[n], S)

LEMMA OnlyRoundsExist ==
    ASSUME NEW S, NEW s, Len(s) \in Nat, NEW D, NEW o \in D, o = <<>>,
           \A x \in D, n \in 1 .. Len(s) : Kept(x, s[n], S) \in D
    PROVE  OnlyRounds(s, D, o, S)
<1> DEFINE N == Len(s)
           F == [e \in D \X (1 .. N) |-> Kept(e[1], s[e[2]], S)]
           f == CHOOSE f : f = [n \in 0 .. N |-> IF n = 0 THEN o ELSE Kept(f[n - 1], s[n], S)]
<1>1. Only(s, S) = f[N]
  BY DEF Only, Loop, Kept
<1> HIDE DEF N
<1>2. F \in [D \X (1 .. N) -> D] /\ \A x \in D, n \in 1 .. N : F[<<x, n>>] = Kept(x, s[n], S)
  BY DEF N
<1> HIDE DEF F
<1>3. N \in Nat /\ \A n \in 0 .. N : n # 0 => n \in 1 .. N /\ n - 1 \in 0 .. N
  BY DEF N
<1>4. PICK g \in [0 .. N -> D] : RoundsOf(g, o, N, F)
  BY <1>2, <1>3, RoundsExist
<1>5. g[0] = o /\ \A n \in 1 .. N : g[n] = F[<<g[n - 1], n>>]
  BY <1>4 DEF RoundsOf
<1>6. \A n \in 0 .. N : g[n] = IF n = 0 THEN o ELSE Kept(g[n - 1], s[n], S)
  BY <1>2, <1>3, <1>5
<1>7. g = [n \in 0 .. N |-> IF n = 0 THEN o ELSE Kept(g[n - 1], s[n], S)]
  BY <1>6
<1>8. f = [n \in 0 .. N |-> IF n = 0 THEN o ELSE Kept(f[n - 1], s[n], S)]
  BY <1>7
<1> HIDE DEF f
<1>9. \A n \in 0 .. N : f[n] = IF n = 0 THEN o ELSE Kept(f[n - 1], s[n], S)
  BY <1>8
<1>10. ASSUME NEW n \in 1 .. N, f[n - 1] \in D PROVE f[n] \in D
  <2>1. f[n] = Kept(f[n - 1], s[n], S) /\ n \in 1 .. Len(s)
    BY <1>3, <1>9 DEF N
  <2>2. Kept(f[n - 1], s[n], S) \in D
    BY <1>10, <2>1
  <2> QED BY <2>1, <2>2
<1>11. f[0] \in D
  BY <1>3, <1>9
<1>12. \A n \in 0 .. N : f[n] \in D
  BY <1>3, <1>10, <1>11, RoundsKeep
<1>13. f = [n \in 0 .. N |-> f[n]]
  BY <1>8
<1>14. f \in [0 .. N -> D]
  BY <1>12, <1>13
<1>15. f[0] = o /\ \A n \in 1 .. N : f[n] = Kept(f[n - 1], s[n], S)
  BY <1>3, <1>9
<1> QED BY <1>1, <1>14, <1>15 DEF N, OnlyRounds

(* What is picked from a sequence are entries of it that are in the set.   *)
LEMMA OnlyType ==
    ASSUME NEW X, NEW s \in Seq(X), NEW S
    PROVE  Only(s, S) \in Seq(Range(s) \cap S)
<1> DEFINE D == Seq(Range(s) \cap S)
           o == <<>>
<1>1. Len(s) \in Nat /\ DOMAIN s = 1 .. Len(s)
  BY LenProperties
<1>2. ASSUME NEW x \in D, NEW n \in 1 .. Len(s) PROVE Kept(x, s[n], S) \in D
  <2>1. s[n] \in Range(s)
    BY <1>1 DEF Range
  <2> QED BY <2>1, AppendProperties DEF Kept
<1>3. o \in D /\ o = <<>>
  OBVIOUS
<1> HIDE DEF D, o
<1>4. OnlyRounds(s, D, o, S)
  BY <1>1, <1>2, <1>3, OnlyRoundsExist
<1>5. PICK f \in [0 .. Len(s) -> D] : Only(s, S) = f[Len(s)]
  BY <1>4 DEF OnlyRounds
<1>6. f[Len(s)] \in D
  BY <1>1, <1>5
<1> QED BY <1>5, <1>6 DEF D

LEMMA OnlyKeeps ==
    ASSUME NEW X, NEW s \in Seq(X), NEW S
    PROVE  Only(s, S) \in Seq(X) /\ Range(Only(s, S)) \subseteq Range(s) \cap S
<1>1. Only(s, S) \in Seq(Range(s) \cap S)
  BY OnlyType
<1>2. Range(s) \subseteq X
  BY RangeOfSeq
<1>3. Range(Only(s, S)) \subseteq Range(s) \cap S
  BY <1>1, RangeOfSeq
<1>4. Only(s, S) \in Seq(X)
  BY <1>1, <1>2, SeqMonotonic
<1> QED BY <1>3, <1>4

LEMMA BesidesKeeps ==
    ASSUME NEW X, NEW s \in Seq(X), NEW S
    PROVE  Besides(s, S) \in Seq(X) /\ Range(Besides(s, S)) \subseteq Range(s) \ S
BY OnlyKeeps DEF Besides

LEMMA ConcatRange ==
    ASSUME NEW X, NEW s \in Seq(X), NEW t \in Seq(X)
    PROVE  s \o t \in Seq(X) /\ Range(s \o t) = Range(s) \cup Range(t)
BY ConcatProperties, RangeConcatenation

-----------------------------------------------------------------------------
(* Totals of a weight over a sequence, in whatever order it is.            *)

Added(t, e, w) == t + w[e]

Total(w, s) == LET Add(t, e) == Added(t, e, w) IN Loop(Add, 0, s)

(* The rounds of a total. *)
TotalRounds(s, D, o, w) ==
    \E f \in [0 .. Len(s) -> D] :
        /\ f[0] = o /\ Total(w, s) = f[Len(s)]
        /\ \A n \in 1 .. Len(s) : f[n] = Added(f[n - 1], s[n], w)

LEMMA TotalRoundsExist ==
    ASSUME NEW w, NEW s, Len(s) \in Nat, NEW D, NEW o \in D, o = 0,
           \A x \in D, n \in 1 .. Len(s) : Added(x, s[n], w) \in D
    PROVE  TotalRounds(s, D, o, w)
<1> DEFINE N == Len(s)
           F == [e \in D \X (1 .. N) |-> Added(e[1], s[e[2]], w)]
           f == CHOOSE f : f = [n \in 0 .. N |-> IF n = 0 THEN o ELSE Added(f[n - 1], s[n], w)]
<1>1. Total(w, s) = f[N]
  BY DEF Total, Loop
<1> HIDE DEF N
<1>2. F \in [D \X (1 .. N) -> D] /\ \A x \in D, n \in 1 .. N : F[<<x, n>>] = Added(x, s[n], w)
  BY DEF N
<1> HIDE DEF F
<1>3. N \in Nat /\ \A n \in 0 .. N : n # 0 => n \in 1 .. N /\ n - 1 \in 0 .. N
  BY DEF N
<1>4. PICK g \in [0 .. N -> D] : RoundsOf(g, o, N, F)
  BY <1>2, <1>3, RoundsExist
<1>5. g[0] = o /\ \A n \in 1 .. N : g[n] = F[<<g[n - 1], n>>]
  BY <1>4 DEF RoundsOf
<1>6. \A n \in 0 .. N : g[n] = IF n = 0 THEN o ELSE Added(g[n - 1], s[n], w)
  BY <1>2, <1>3, <1>5
<1>7. g = [n \in 0 .. N |-> IF n = 0 THEN o ELSE Added(g[n - 1], s[n], w)]
  BY <1>6
<1>8. f = [n \in 0 .. N |-> IF n = 0 THEN o ELSE Added(f[n - 1], s[n], w)]
  BY <1>7
<1> HIDE DEF f
<1>9. \A n \in 0 .. N : f[n] = IF n = 0 THEN o ELSE Added(f[n - 1], s[n], w)
  BY <1>8
<1>10. ASSUME NEW n \in 1 .. N, f[n - 1] \in D PROVE f[n] \in D
  <2>1. f[n] = Added(f[n - 1], s[n], w) /\ n \in 1 .. Len(s)
    BY <1>3, <1>9 DEF N
  <2>2. Added(f[n - 1], s[n], w) \in D
    BY <1>10, <2>1
  <2> QED BY <2>1, <2>2
<1>11. f[0] \in D
  BY <1>3, <1>9
<1>12. \A n \in 0 .. N : f[n] \in D
  BY <1>3, <1>10, <1>11, RoundsKeep
<1>13. f = [n \in 0 .. N |-> f[n]]
  BY <1>8
<1>14. f \in [0 .. N -> D]
  BY <1>12, <1>13
<1>15. f[0] = o /\ \A n \in 1 .. N : f[n] = Added(f[n - 1], s[n], w)
  BY <1>3, <1>9
<1> QED BY <1>1, <1>14, <1>15 DEF N, TotalRounds

(* The totals of the prefixes of a sequence.                               *)
TotalsOf(t, w, s) ==
    /\ t \in [0 .. Len(s) -> Nat]
    /\ t[0] = 0 /\ Total(w, s) = t[Len(s)]
    /\ \A n \in 1 .. Len(s) : t[n] = t[n - 1] + w[s[n]]

LEMMA TotalsExist ==
    ASSUME NEW X, NEW w \in [X -> Nat], NEW s \in Seq(X)
    PROVE  \E t : TotalsOf(t, w, s)
<1> DEFINE o == 0
<1>1. Len(s) \in Nat /\ \A n \in 1 .. Len(s) : s[n] \in X
  BY LenProperties, ElementOfSeq
<1>2. ASSUME NEW x \in Nat, NEW n \in 1 .. Len(s) PROVE Added(x, s[n], w) \in Nat
  <2>1. w[s[n]] \in Nat
    BY <1>1
  <2> QED BY <2>1 DEF Added
<1>3. o \in Nat /\ o = 0
  OBVIOUS
<1> HIDE DEF o
<1>4. TotalRounds(s, Nat, o, w)
  BY <1>1, <1>2, <1>3, TotalRoundsExist
<1> QED BY <1>3, <1>4 DEF TotalRounds, TotalsOf, Added

LEMMA TotalNat ==
    ASSUME NEW X, NEW w \in [X -> Nat], NEW s \in Seq(X)
    PROVE  Total(w, s) \in Nat
<1>1. PICK t : TotalsOf(t, w, s)
  BY TotalsExist
<1>2. Len(s) \in Nat
  BY LenProperties
<1>3. t \in [0 .. Len(s) -> Nat] /\ Total(w, s) = t[Len(s)]
  BY <1>1 DEF TotalsOf
<1>4. Len(s) \in 0 .. Len(s)
  BY <1>2
<1>5. t[Len(s)] \in Nat
  BY <1>3, <1>4
<1> QED BY <1>3, <1>5

LEMMA TotalEmpty ==
    ASSUME NEW X, NEW w \in [X -> Nat]
    PROVE  Total(w, <<>>) = 0
<1> DEFINE s == <<>>
<1>1. s \in Seq(X) /\ Len(s) = 0
  OBVIOUS
<1> HIDE DEF s
<1>2. PICK t : TotalsOf(t, w, s)
  BY <1>1, TotalsExist
<1>3. Total(w, s) = 0
  BY <1>1, <1>2 DEF TotalsOf
<1> QED BY <1>3 DEF s

LEMMA TotalConcat ==
    ASSUME NEW X, NEW w \in [X -> Nat], NEW s \in Seq(X), NEW u \in Seq(X)
    PROVE  Total(w, s \o u) = Total(w, s) + Total(w, u)
<1>1. PICK c : c = s \o u
  OBVIOUS
<1>2. /\ c \in Seq(X) /\ Len(c) = Len(s) + Len(u)
      /\ \A i \in 1 .. Len(s) + Len(u) : c[i] = IF i <= Len(s) THEN s[i] ELSE u[i - Len(s)]
  BY <1>1, ConcatProperties
<1>3. PICK N, K \in Nat : N = Len(s) /\ K = Len(u)
  BY LenProperties
<1>4. PICK a : TotalsOf(a, w, s)
  BY TotalsExist
<1>5. PICK b : TotalsOf(b, w, u)
  BY TotalsExist
<1>6. PICK t : TotalsOf(t, w, c)
  BY <1>2, TotalsExist
<1>7. /\ a \in [0 .. N -> Nat] /\ a[0] = 0 /\ Total(w, s) = a[N]
      /\ \A n \in 1 .. N : a[n] = a[n - 1] + w[s[n]]
  BY <1>3, <1>4 DEF TotalsOf
<1>8. /\ b \in [0 .. K -> Nat] /\ b[0] = 0 /\ Total(w, u) = b[K]
      /\ \A n \in 1 .. K : b[n] = b[n - 1] + w[u[n]]
  BY <1>3, <1>5 DEF TotalsOf
<1>9. /\ t \in [0 .. N + K -> Nat] /\ t[0] = 0 /\ Total(w, c) = t[N + K]
      /\ \A n \in 1 .. N + K : t[n] = t[n - 1] + w[c[n]]
  BY <1>2, <1>3, <1>6 DEF TotalsOf
<1> DEFINE T == {n \in Nat : t[n] = a[n]}
           R == {n \in Nat : t[N + n] = a[N] + b[n]}
<1>10. 0 \in T
  BY <1>7, <1>9
<1>11. ASSUME NEW n \in 0 .. N - 1, n \in T PROVE n + 1 \in T
  <2>1. n + 1 \in 1 .. N /\ n + 1 \in 1 .. N + K /\ (n + 1) - 1 = n /\ n + 1 <= N
    BY <1>3
  <2>2. c[n + 1] = s[n + 1]
    BY <1>2, <1>3, <2>1
  <2>3. t[n + 1] = t[n] + w[c[n + 1]] /\ a[n + 1] = a[n] + w[s[n + 1]]
    BY <1>7, <1>9, <2>1
  <2> QED BY <1>11, <2>2, <2>3
<1> HIDE DEF T
<1>12. \A n \in 0 .. N : n \in T
  BY <1>3, <1>10, <1>11, RoundInduction
<1>13. t[N] = a[N] /\ a[N] \in Nat
  BY <1>3, <1>7, <1>12 DEF T
<1>14. 0 \in R
  BY <1>3, <1>8, <1>13
<1>15. ASSUME NEW n \in 0 .. K - 1, n \in R PROVE n + 1 \in R
  <2>1. n + 1 \in 1 .. K /\ N + (n + 1) \in 1 .. N + K /\ (n + 1) - 1 = n /\ (N + (n + 1)) - 1 = N + n /\ n + 1 \in Nat
    BY <1>3
  <2>2. ~(N + (n + 1) <= N) /\ (N + (n + 1)) - N = n + 1
    BY <1>3
  <2>3. c[N + (n + 1)] = u[n + 1]
    BY <1>2, <1>3, <2>1, <2>2
  <2>4. t[N + (n + 1)] = t[N + n] + w[c[N + (n + 1)]]
    BY <1>9, <2>1
  <2>5. b[n + 1] = b[n] + w[u[n + 1]]
    BY <1>8, <2>1
  <2>6. u[n + 1] \in X
    BY <1>3, <2>1, ElementOfSeq
  <2>7. w[u[n + 1]] \in Nat /\ b[n] \in Nat
    BY <1>8, <2>6
  <2>8. t[N + n] = a[N] + b[n]
    BY <1>15
  <2>9. t[N + (n + 1)] = a[N] + b[n + 1]
    BY <1>13, <2>3, <2>4, <2>5, <2>7, <2>8
  <2> QED BY <2>1, <2>9
<1> HIDE DEF R
<1>16. \A n \in 0 .. K : n \in R
  BY <1>3, <1>14, <1>15, RoundInduction
<1>17. t[N + K] = a[N] + b[K]
  BY <1>3, <1>16 DEF R
<1> QED BY <1>1, <1>7, <1>8, <1>9, <1>17

LEMMA TotalOne ==
    ASSUME NEW X, NEW w \in [X -> Nat], NEW r \in X
    PROVE  Total(w, <<r>>) = w[r]
<1>1. PICK s : s = <<r>>
  OBVIOUS
<1>2. s \in Seq(X) /\ Len(s) = 1 /\ s[1] = r
  BY <1>1
<1>3. PICK t : TotalsOf(t, w, s)
  BY <1>2, TotalsExist
<1>4. t[0] = 0 /\ Total(w, s) = t[1] /\ t[1] = t[1 - 1] + w[s[1]]
  BY <1>2, <1>3 DEF TotalsOf
<1> QED BY <1>1, <1>2, <1>4

LEMMA TotalAppend ==
    ASSUME NEW X, NEW w \in [X -> Nat], NEW s \in Seq(X), NEW r \in X
    PROVE  Total(w, Append(s, r)) = Total(w, s) + w[r]
<1>1. PICK u : u = <<r>>
  OBVIOUS
<1>2. Append(s, r) = s \o u /\ u \in Seq(X)
  BY <1>1, AppendIsConcat
<1>3. Total(w, s \o u) = Total(w, s) + Total(w, u)
  BY <1>2, TotalConcat
<1>4. Total(w, u) = w[r]
  BY <1>1, TotalOne
<1> QED BY <1>2, <1>3, <1>4

(* What is picked and what is left add up to the whole.                    *)
LEMMA TotalSplit ==
    ASSUME NEW X, NEW w \in [X -> Nat], NEW s \in Seq(X), NEW S
    PROVE  Total(w, Only(s, S)) + Total(w, Besides(s, S)) = Total(w, s)
<1> DEFINE Q == Range(s) \ S
           D == Seq(X)
           o == <<>>
<1>1. Len(s) \in Nat /\ DOMAIN s = 1 .. Len(s) /\ \A n \in 1 .. Len(s) : s[n] \in X
  BY LenProperties, ElementOfSeq
<1>2. \A n \in 1 .. Len(s) : s[n] \in Q <=> s[n] \notin S
  BY <1>1 DEF Range
<1>3. o \in D /\ o = <<>>
  OBVIOUS
<1>4. ASSUME NEW x \in D, NEW n \in 1 .. Len(s), NEW P PROVE Kept(x, s[n], P) \in D
  BY <1>1, AppendProperties DEF Kept
<1> HIDE DEF Q, D, o
<1>5. OnlyRounds(s, D, o, S) /\ OnlyRounds(s, D, o, Q)
  BY <1>1, <1>3, <1>4, OnlyRoundsExist
<1>6. PICK f \in [0 .. Len(s) -> D] :
         /\ f[0] = o /\ Only(s, S) = f[Len(s)]
         /\ \A n \in 1 .. Len(s) : f[n] = Kept(f[n - 1], s[n], S)
  BY <1>5 DEF OnlyRounds
<1>7. PICK g \in [0 .. Len(s) -> D] :
         /\ g[0] = o /\ Only(s, Q) = g[Len(s)]
         /\ \A n \in 1 .. Len(s) : g[n] = Kept(g[n - 1], s[n], Q)
  BY <1>5 DEF OnlyRounds
<1>8. PICK t : TotalsOf(t, w, s)
  BY TotalsExist
<1> DEFINE T == {n \in Nat : Total(w, f[n]) + Total(w, g[n]) = t[n]}
<1>9. 0 \in T
  <2>1. Total(w, o) = 0
    BY <1>3, TotalEmpty
  <2> QED BY <1>6, <1>7, <1>8, <2>1 DEF TotalsOf
<1>10. ASSUME NEW n \in 0 .. Len(s) - 1, n \in T PROVE n + 1 \in T
  <2>1. n + 1 \in 1 .. Len(s) /\ n + 1 \in 0 .. Len(s) /\ n \in 0 .. Len(s) /\ (n + 1) - 1 = n
    BY <1>1
  <2>2. PICK a, b, e : a = f[n] /\ b = g[n] /\ e = s[n + 1]
    OBVIOUS
  <2>3. a \in Seq(X) /\ b \in Seq(X) /\ e \in X
    BY <1>1, <2>1, <2>2 DEF D
  <2>4. f[n + 1] = Kept(a, e, S) /\ g[n + 1] = Kept(b, e, Q)
    BY <1>6, <1>7, <2>1, <2>2
  <2>5. e \in Q <=> e \notin S
    BY <1>2, <2>1, <2>2
  <2>6. t[n + 1] = t[n] + w[e] /\ Total(w, a) + Total(w, b) = t[n]
    BY <1>8, <1>10, <2>1, <2>2 DEF TotalsOf
  <2>7. Total(w, a) \in Nat /\ Total(w, b) \in Nat /\ w[e] \in Nat
    BY <2>3, TotalNat
  <2>8. Total(w, Append(a, e)) = Total(w, a) + w[e] /\ Total(w, Append(b, e)) = Total(w, b) + w[e]
    BY <2>3, TotalAppend
  <2>9. CASE e \in S
    <3>1. Kept(a, e, S) = Append(a, e) /\ Kept(b, e, Q) = b
      BY <2>5, <2>9 DEF Kept
    <3>2. Total(w, f[n + 1]) + Total(w, g[n + 1]) = t[n + 1]
      BY <2>4, <2>6, <2>7, <2>8, <3>1
    <3> QED BY <2>1, <3>2
  <2>10. CASE e \notin S
    <3>1. Kept(a, e, S) = a /\ Kept(b, e, Q) = Append(b, e)
      BY <2>5, <2>10 DEF Kept
    <3>2. Total(w, f[n + 1]) + Total(w, g[n + 1]) = t[n + 1]
      BY <2>4, <2>6, <2>7, <2>8, <3>1
    <3> QED BY <2>1, <3>2
  <2> QED BY <2>9, <2>10
<1> HIDE DEF T
<1>11. \A n \in 0 .. Len(s) : n \in T
  BY <1>1, <1>9, <1>10, RoundInduction
<1>12. Total(w, f[Len(s)]) + Total(w, g[Len(s)]) = t[Len(s)]
  BY <1>1, <1>11 DEF T
<1> QED BY <1>6, <1>7, <1>8, <1>12 DEF Besides, Q, TotalsOf

(* The rounds of a sort. *)
PlacedRounds(s, D, o) ==
    \E f \in [0 .. Len(s) -> D] :
        /\ f[0] = o /\ Sorted(s) = f[Len(s)]
        /\ \A n \in 1 .. Len(s) : f[n] = Placed(f[n - 1], s[n])

LEMMA PlacedRoundsExist ==
    ASSUME NEW s, Len(s) \in Nat, NEW D, NEW o \in D, o = <<>>,
           \A x \in D, n \in 1 .. Len(s) : Placed(x, s[n]) \in D
    PROVE  PlacedRounds(s, D, o)
<1> DEFINE N == Len(s)
           F == [e \in D \X (1 .. N) |-> Placed(e[1], s[e[2]])]
           f == CHOOSE f : f = [n \in 0 .. N |-> IF n = 0 THEN o ELSE Placed(f[n - 1], s[n])]
<1>1. Sorted(s) = f[N]
  BY DEF Sorted, Loop
<1> HIDE DEF N
<1>2. F \in [D \X (1 .. N) -> D] /\ \A x \in D, n \in 1 .. N : F[<<x, n>>] = Placed(x, s[n])
  BY DEF N
<1> HIDE DEF F
<1>3. N \in Nat /\ \A n \in 0 .. N : n # 0 => n \in 1 .. N /\ n - 1 \in 0 .. N
  BY DEF N
<1>4. PICK g \in [0 .. N -> D] : RoundsOf(g, o, N, F)
  BY <1>2, <1>3, RoundsExist
<1>5. g[0] = o /\ \A n \in 1 .. N : g[n] = F[<<g[n - 1], n>>]
  BY <1>4 DEF RoundsOf
<1>6. \A n \in 0 .. N : g[n] = IF n = 0 THEN o ELSE Placed(g[n - 1], s[n])
  BY <1>2, <1>3, <1>5
<1>7. g = [n \in 0 .. N |-> IF n = 0 THEN o ELSE Placed(g[n - 1], s[n])]
  BY <1>6
<1>8. f = [n \in 0 .. N |-> IF n = 0 THEN o ELSE Placed(f[n - 1], s[n])]
  BY <1>7
<1> HIDE DEF f
<1>9. \A n \in 0 .. N : f[n] = IF n = 0 THEN o ELSE Placed(f[n - 1], s[n])
  BY <1>8
<1>10. ASSUME NEW n \in 1 .. N, f[n - 1] \in D PROVE f[n] \in D
  <2>1. f[n] = Placed(f[n - 1], s[n]) /\ n \in 1 .. Len(s)
    BY <1>3, <1>9 DEF N
  <2>2. Placed(f[n - 1], s[n]) \in D
    BY <1>10, <2>1
  <2> QED BY <2>1, <2>2
<1>11. f[0] \in D
  BY <1>3, <1>9
<1>12. \A n \in 0 .. N : f[n] \in D
  BY <1>3, <1>10, <1>11, RoundsKeep
<1>13. f = [n \in 0 .. N |-> f[n]]
  BY <1>8
<1>14. f \in [0 .. N -> D]
  BY <1>12, <1>13
<1>15. f[0] = o /\ \A n \in 1 .. N : f[n] = Placed(f[n - 1], s[n])
  BY <1>3, <1>9
<1> QED BY <1>1, <1>14, <1>15 DEF N, PlacedRounds

LEMMA PlacedKeeps ==
    ASSUME NEW X, NEW q \in Seq(X), NEW r \in X
    PROVE  /\ Placed(q, r) \in Seq(X)
           /\ \A w \in [X -> Nat] : Total(w, Placed(q, r)) = Total(w, q) + w[r]
<1>1. PICK later : later = {s \in Range(q) : At[r.x] < At[s.x]}
  OBVIOUS
<1>2. PICK a, b, one : a = Besides(q, later) /\ b = Only(q, later) /\ one = <<r>>
  OBVIOUS
<1>3. Placed(q, r) = (a \o one) \o b
  BY <1>1, <1>2 DEF Placed
<1>4. a \in Seq(X) /\ b \in Seq(X) /\ one \in Seq(X)
  BY <1>2, OnlyKeeps, BesidesKeeps
<1>5. a \o one \in Seq(X) /\ (a \o one) \o b \in Seq(X)
  BY <1>4, ConcatProperties
<1>6. ASSUME NEW w \in [X -> Nat] PROVE Total(w, Placed(q, r)) = Total(w, q) + w[r]
  <2>1. Total(w, (a \o one) \o b) = Total(w, a \o one) + Total(w, b)
    BY <1>4, <1>5, TotalConcat
  <2>2. Total(w, a \o one) = Total(w, a) + Total(w, one)
    BY <1>4, TotalConcat
  <2>3. Total(w, one) = w[r]
    BY <1>2, TotalOne
  <2>4. Total(w, b) + Total(w, a) = Total(w, q)
    BY <1>2, TotalSplit
  <2>5. Total(w, a) \in Nat /\ Total(w, b) \in Nat /\ w[r] \in Nat
    BY <1>4, TotalNat
  <2> QED BY <1>3, <2>1, <2>2, <2>3, <2>4, <2>5
<1> QED BY <1>3, <1>5, <1>6

(* A sort keeps the entries and their totals.                              *)
LEMMA SortedType ==
    ASSUME NEW X, NEW s \in Seq(X)
    PROVE  /\ Sorted(s) \in Seq(X)
           /\ \A w \in [X -> Nat] : Total(w, Sorted(s)) = Total(w, s)
<1> DEFINE D == Seq(X)
           o == <<>>
<1>1. Len(s) \in Nat /\ \A n \in 1 .. Len(s) : s[n] \in X
  BY LenProperties, ElementOfSeq
<1>2. o \in D /\ o = <<>>
  OBVIOUS
<1>3. ASSUME NEW q \in D, NEW n \in 1 .. Len(s) PROVE Placed(q, s[n]) \in D
  BY <1>1, PlacedKeeps
<1> HIDE DEF D, o
<1>4. PlacedRounds(s, D, o)
  BY <1>1, <1>2, <1>3, PlacedRoundsExist
<1>5. PICK f \in [0 .. Len(s) -> D] :
         /\ f[0] = o /\ Sorted(s) = f[Len(s)]
         /\ \A n \in 1 .. Len(s) : f[n] = Placed(f[n - 1], s[n])
  BY <1>4 DEF PlacedRounds
<1>6. ASSUME NEW w \in [X -> Nat] PROVE Total(w, Sorted(s)) = Total(w, s)
  <2>1. PICK t : TotalsOf(t, w, s)
    BY TotalsExist
  <2> DEFINE T == {n \in Nat : Total(w, f[n]) = t[n]}
  <2>2. 0 \in T
    BY <1>2, <1>5, <2>1, TotalEmpty DEF TotalsOf
  <2>3. ASSUME NEW n \in 0 .. Len(s) - 1, n \in T PROVE n + 1 \in T
    <3>1. n + 1 \in 1 .. Len(s) /\ n \in 0 .. Len(s) /\ (n + 1) - 1 = n /\ n + 1 \in Nat
      BY <1>1
    <3>2. PICK q, e : q = f[n] /\ e = s[n + 1]
      OBVIOUS
    <3>3. q \in Seq(X) /\ e \in X
      BY <1>1, <3>1, <3>2 DEF D
    <3>4. f[n + 1] = Placed(q, e)
      BY <1>5, <3>1, <3>2
    <3>5. t[n + 1] = t[n] + w[e] /\ Total(w, q) = t[n]
      BY <2>1, <2>3, <3>1, <3>2 DEF TotalsOf
    <3>6. Total(w, Placed(q, e)) = Total(w, q) + w[e]
      BY <3>3, PlacedKeeps
    <3> QED BY <3>1, <3>4, <3>5, <3>6
  <2> HIDE DEF T
  <2>4. \A n \in 0 .. Len(s) : n \in T
    BY <1>1, <2>2, <2>3, RoundInduction
  <2> QED BY <1>1, <1>5, <2>1, <2>4 DEF T, TotalsOf
<1>7. f[Len(s)] \in D
  BY <1>1, <1>5
<1> QED BY <1>5, <1>6, <1>7 DEF D

LEMMA SortedKeeps ==
    ASSUME NEW X, NEW s \in Seq(X)
    PROVE  /\ Sorted(s) \in Seq(X) /\ Range(Sorted(s)) \subseteq Range(s)
           /\ \A w \in [X -> Nat] : Total(w, Sorted(s)) = Total(w, s)
<1>1. s \in Seq(Range(s))
  BY SeqOfRange
<1>2. Sorted(s) \in Seq(Range(s))
  BY <1>1, SortedType
<1>3. Range(Sorted(s)) \subseteq Range(s)
  BY <1>2, RangeOfSeq
<1> QED BY <1>3, SortedType

(* A change of the entries that keeps their weights keeps the total.       *)
LEMMA TotalMapped ==
    ASSUME NEW X, NEW w \in [X -> Nat], NEW s \in Seq(X), NEW u \in Seq(X), Len(u) = Len(s),
           \A n \in 1 .. Len(s) : w[u[n]] = w[s[n]]
    PROVE  Total(w, u) = Total(w, s)
<1>1. Len(s) \in Nat
  BY LenProperties
<1>2. PICK t : TotalsOf(t, w, s)
  BY TotalsExist
<1>3. PICK v : TotalsOf(v, w, u)
  BY TotalsExist
<1> DEFINE T == {n \in Nat : v[n] = t[n]}
<1>4. 0 \in T
  BY <1>2, <1>3 DEF TotalsOf
<1>5. ASSUME NEW n \in 0 .. Len(s) - 1, n \in T PROVE n + 1 \in T
  <2>1. n + 1 \in 1 .. Len(s) /\ (n + 1) - 1 = n /\ n + 1 \in Nat
    BY <1>1
  <2>2. t[n + 1] = t[n] + w[s[n + 1]] /\ v[n + 1] = v[n] + w[u[n + 1]]
    BY <1>2, <1>3, <2>1 DEF TotalsOf
  <2>3. w[u[n + 1]] = w[s[n + 1]] /\ v[n] = t[n]
    BY <1>5, <2>1
  <2> QED BY <2>1, <2>2, <2>3
<1> HIDE DEF T
<1>6. \A n \in 0 .. Len(s) : n \in T
  BY <1>1, <1>4, <1>5, RoundInduction
<1>7. v[Len(s)] = t[Len(s)]
  BY <1>1, <1>6 DEF T
<1> QED BY <1>2, <1>3, <1>7 DEF TotalsOf

(* The two parts of a sequence.                                            *)
LEMMA Halves ==
    ASSUME NEW X, NEW s \in Seq(X), NEW m \in 0 .. Len(s)
    PROVE  LET a == SubSeq(s, 1, m)
               b == SubSeq(s, m + 1, Len(s))
           IN  /\ a \in Seq(X) /\ b \in Seq(X)
               /\ Range(a) \cup Range(b) = Range(s)
               /\ \A w \in [X -> Nat] : Total(w, a) + Total(w, b) = Total(w, s)
<1>1. PICK a, b : a = SubSeq(s, 1, m) /\ b = SubSeq(s, m + 1, Len(s))
  OBVIOUS
<1>2. Len(s) \in Nat /\ m \in Int /\ \A n \in 1 .. Len(s) : s[n] \in X
  BY LenProperties, ElementOfSeq
<1>3. (\A i \in 1 .. m : s[i] \in X) /\ (\A i \in m + 1 .. Len(s) : s[i] \in X)
  BY <1>2
<1>4. a \in Seq(X) /\ b \in Seq(X)
  <2>1. a \in Seq(X)
    BY <1>1, <1>2, <1>3, SubSeqProperties
  <2>2. m + 1 \in Int /\ Len(s) \in Int
    BY <1>2
  <2>3. b \in Seq(X)
    BY <1>1, <1>3, <2>2, SubSeqProperties
  <2> QED BY <2>1, <2>3
<1>5. a \o b = s
  <2>1. 1 \in 1 .. Len(s) + 1 /\ m \in 1 - 1 .. Len(s) /\ Len(s) \in m .. Len(s)
    BY <1>2
  <2>2. SubSeq(s, 1, m) \o SubSeq(s, m + 1, Len(s)) = SubSeq(s, 1, Len(s))
    BY <2>1, ConcatAdjacentSubSeq
  <2> QED BY <1>1, <2>2, SubSeqFull
<1>6. Range(a) \cup Range(b) = Range(s)
  <2>1. Range(a \o b) = Range(a) \cup Range(b)
    BY <1>4, RangeConcatenation
  <2> QED BY <1>5, <2>1
<1>7. \A w \in [X -> Nat] : Total(w, a) + Total(w, b) = Total(w, s)
  BY <1>4, <1>5, TotalConcat
<1> QED BY <1>1, <1>4, <1>6, <1>7

-----------------------------------------------------------------------------
(* Counters.                                                               *)

Counts   == [n : Nat, tokens : Nat]
Counters == [Dims -> Counts]

(* What one record adds to a figure of a counter, and that figure.         *)
Kinds == {"n", "tokens"}
Plain == {d \in Dims : d[1] # "client"}

Weight(d, k) ==
    [r \in LedgerRecords |-> IF d \in DimsOf(r) THEN IF k = "n" THEN 1 ELSE Tokens(r) ELSE 0]

Figure(c, d, k) == IF k = "n" THEN c[d].n ELSE c[d].tokens

LEMMA WeightType ==
    ASSUME NEW d, NEW k
    PROVE  Weight(d, k) \in [LedgerRecords -> Nat]
BY DEF Weight, Tokens

LEMMA FigureType ==
    ASSUME NEW c \in Counters, NEW d \in Dims, NEW k
    PROVE  Figure(c, d, k) \in Nat
BY DEF Figure, Counters, Counts

LEMMA ZeroType == Zero \in Counters /\ \A d \in Dims, k \in Kinds : Figure(Zero, d, k) = 0
BY DEF Zero, Counters, Counts, Figure

LEMMA CountedType ==
    ASSUME NEW c \in Counters, NEW r \in LedgerRecords
    PROVE  /\ Counted(c, r) \in Counters
           /\ \A d \in Dims, k \in Kinds : Figure(Counted(c, r), d, k) = Figure(c, d, k) + Weight(d, k)[r]
<1>1. Tokens(r) \in Nat
  BY DEF Tokens
<1>2. \A d \in Dims : c[d].n \in Nat /\ c[d].tokens \in Nat
  BY DEF Counters, Counts
<1>3. Counted(c, r) \in Counters
  <2>1. ASSUME NEW d \in Dims
        PROVE  (IF d \in DimsOf(r) THEN [n |-> c[d].n + 1, tokens |-> c[d].tokens + Tokens(r)] ELSE c[d]) \in Counts
    BY <1>1, <1>2 DEF Counts, Counters
  <2> QED BY <2>1 DEF Counted, Counters
<1>4. ASSUME NEW d \in Dims, NEW k \in Kinds
      PROVE  Figure(Counted(c, r), d, k) = Figure(c, d, k) + Weight(d, k)[r]
  <2>1. Counted(c, r)[d] = IF d \in DimsOf(r) THEN [n |-> c[d].n + 1, tokens |-> c[d].tokens + Tokens(r)]
                           ELSE c[d]
    BY DEF Counted
  <2>2. Weight(d, k)[r] = IF d \in DimsOf(r) THEN IF k = "n" THEN 1 ELSE Tokens(r) ELSE 0
    BY DEF Weight
  <2>3. CASE d \in DimsOf(r)
    <3>1. Counted(c, r)[d].n = c[d].n + 1 /\ Counted(c, r)[d].tokens = c[d].tokens + Tokens(r)
      BY <2>1, <2>3
    <3>2. Weight(d, k)[r] = IF k = "n" THEN 1 ELSE Tokens(r)
      BY <2>2, <2>3
    <3> QED BY <3>1, <3>2 DEF Figure
  <2>4. CASE d \notin DimsOf(r)
    <3>1. Counted(c, r)[d] = c[d] /\ Weight(d, k)[r] = 0
      BY <2>1, <2>2, <2>4
    <3>2. Figure(c, d, k) \in Nat
      BY FigureType
    <3>3. Figure(Counted(c, r), d, k) = Figure(c, d, k)
      BY <3>1 DEF Figure
    <3> QED BY <3>1, <3>2, <3>3
  <2> QED BY <2>3, <2>4
<1> QED BY <1>3, <1>4

LEMMA MinusType ==
    ASSUME NEW a \in Nat, NEW b \in Nat
    PROVE  Minus(a, b) \in Nat /\ (b <= a => Minus(a, b) = a - b) /\ Minus(a, b) <= a
BY DEF Minus

LEMMA UncountedType ==
    ASSUME NEW c \in Counters, NEW r \in LedgerRecords
    PROVE  /\ Uncounted(c, r) \in Counters
           /\ \A d \in Plain, k \in Kinds :
                Weight(d, k)[r] <= Figure(c, d, k)
                => Figure(Uncounted(c, r), d, k) = Figure(c, d, k) - Weight(d, k)[r]
<1>1. Tokens(r) \in Nat
  BY DEF Tokens
<1>2. \A d \in Dims : c[d].n \in Nat /\ c[d].tokens \in Nat /\ c[d] \in Counts
  BY DEF Counters, Counts
<1>3. ASSUME NEW d \in Dims
      PROVE  Less(c[d], r) \in Counts /\ Less(c[d], r).n = Minus(c[d].n, 1)
             /\ Less(c[d], r).tokens = Minus(c[d].tokens, Tokens(r))
  <2>1. Minus(c[d].n, 1) \in Nat /\ Minus(c[d].tokens, Tokens(r)) \in Nat
    BY <1>1, <1>2, MinusType
  <2> QED BY <2>1 DEF Less, Counts
<1>4. \A d \in Dims : ClientLess(c[d], r) \in Counts
  BY <1>3 DEF ClientLess, Counts
<1>5. Uncounted(c, r) \in Counters
  BY <1>2, <1>3, <1>4 DEF Uncounted, Counters
<1>6. ASSUME NEW d \in Plain, NEW k \in Kinds, Weight(d, k)[r] <= Figure(c, d, k)
      PROVE  Figure(Uncounted(c, r), d, k) = Figure(c, d, k) - Weight(d, k)[r]
  <2>1. d \in Dims /\ d[1] # "client"
    BY DEF Plain
  <2>2. Uncounted(c, r)[d] = IF d \notin DimsOf(r) THEN c[d] ELSE Less(c[d], r)
    BY <2>1 DEF Uncounted
  <2>3. Weight(d, k)[r] = IF d \in DimsOf(r) THEN IF k = "n" THEN 1 ELSE Tokens(r) ELSE 0
    BY DEF Weight
  <2>4. CASE d \notin DimsOf(r)
    <3>1. Figure(Uncounted(c, r), d, k) = Figure(c, d, k) /\ Weight(d, k)[r] = 0
      BY <2>2, <2>3, <2>4 DEF Figure
    <3>2. Figure(c, d, k) \in Nat
      BY <2>1, FigureType
    <3> QED BY <3>1, <3>2
  <2>5. CASE d \in DimsOf(r) /\ k = "n"
    <3>1. Figure(Uncounted(c, r), d, k) = Minus(c[d].n, 1) /\ Figure(c, d, k) = c[d].n /\ Weight(d, k)[r] = 1
      BY <1>3, <2>1, <2>2, <2>3, <2>5 DEF Figure
    <3>2. c[d].n \in Nat /\ 1 <= c[d].n
      BY <1>2, <1>6, <2>1, <3>1
    <3> QED BY <3>1, <3>2, MinusType
  <2>6. CASE d \in DimsOf(r) /\ k # "n"
    <3>1. /\ Figure(Uncounted(c, r), d, k) = Minus(c[d].tokens, Tokens(r))
          /\ Figure(c, d, k) = c[d].tokens /\ Weight(d, k)[r] = Tokens(r)
      BY <1>3, <2>1, <2>2, <2>3, <2>6 DEF Figure
    <3>2. c[d].tokens \in Nat /\ Tokens(r) <= c[d].tokens
      BY <1>2, <1>6, <2>1, <3>1
    <3> QED BY <1>1, <3>1, <3>2, MinusType
  <2> QED BY <2>4, <2>5, <2>6
<1> QED BY <1>5, <1>6

(* The rounds of counting. *)
CountedRounds(s, D, o) ==
    \E f \in [0 .. Len(s) -> D] :
        /\ f[0] = o /\ CountedAll(o, s) = f[Len(s)]
        /\ \A n \in 1 .. Len(s) : f[n] = Counted(f[n - 1], s[n])

LEMMA CountedRoundsExist ==
    ASSUME NEW s, Len(s) \in Nat, NEW D, NEW o \in D,
           \A x \in D, n \in 1 .. Len(s) : Counted(x, s[n]) \in D
    PROVE  CountedRounds(s, D, o)
<1> DEFINE N == Len(s)
           F == [e \in D \X (1 .. N) |-> Counted(e[1], s[e[2]])]
           f == CHOOSE f : f = [n \in 0 .. N |-> IF n = 0 THEN o ELSE Counted(f[n - 1], s[n])]
<1>1. CountedAll(o, s) = f[N]
  BY DEF CountedAll, Loop
<1> HIDE DEF N
<1>2. F \in [D \X (1 .. N) -> D] /\ \A x \in D, n \in 1 .. N : F[<<x, n>>] = Counted(x, s[n])
  BY DEF N
<1> HIDE DEF F
<1>3. N \in Nat /\ \A n \in 0 .. N : n # 0 => n \in 1 .. N /\ n - 1 \in 0 .. N
  BY DEF N
<1>4. PICK g \in [0 .. N -> D] : RoundsOf(g, o, N, F)
  BY <1>2, <1>3, RoundsExist
<1>5. g[0] = o /\ \A n \in 1 .. N : g[n] = F[<<g[n - 1], n>>]
  BY <1>4 DEF RoundsOf
<1>6. \A n \in 0 .. N : g[n] = IF n = 0 THEN o ELSE Counted(g[n - 1], s[n])
  BY <1>2, <1>3, <1>5
<1>7. g = [n \in 0 .. N |-> IF n = 0 THEN o ELSE Counted(g[n - 1], s[n])]
  BY <1>6
<1>8. f = [n \in 0 .. N |-> IF n = 0 THEN o ELSE Counted(f[n - 1], s[n])]
  BY <1>7
<1> HIDE DEF f
<1>9. \A n \in 0 .. N : f[n] = IF n = 0 THEN o ELSE Counted(f[n - 1], s[n])
  BY <1>8
<1>10. ASSUME NEW n \in 1 .. N, f[n - 1] \in D PROVE f[n] \in D
  <2>1. f[n] = Counted(f[n - 1], s[n]) /\ n \in 1 .. Len(s)
    BY <1>3, <1>9 DEF N
  <2>2. Counted(f[n - 1], s[n]) \in D
    BY <1>10, <2>1
  <2> QED BY <2>1, <2>2
<1>11. f[0] \in D
  BY <1>3, <1>9
<1>12. \A n \in 0 .. N : f[n] \in D
  BY <1>3, <1>10, <1>11, RoundsKeep
<1>13. f = [n \in 0 .. N |-> f[n]]
  BY <1>8
<1>14. f \in [0 .. N -> D]
  BY <1>12, <1>13
<1>15. f[0] = o /\ \A n \in 1 .. N : f[n] = Counted(f[n - 1], s[n])
  BY <1>3, <1>9
<1> QED BY <1>1, <1>14, <1>15 DEF N, CountedRounds

(* The rounds of taking out what was counted. *)
UncountedRounds(s, D, o) ==
    \E f \in [0 .. Len(s) -> D] :
        /\ f[0] = o /\ UncountedAll(o, s) = f[Len(s)]
        /\ \A n \in 1 .. Len(s) : f[n] = Uncounted(f[n - 1], s[n])

LEMMA UncountedRoundsExist ==
    ASSUME NEW s, Len(s) \in Nat, NEW D, NEW o \in D,
           \A x \in D, n \in 1 .. Len(s) : Uncounted(x, s[n]) \in D
    PROVE  UncountedRounds(s, D, o)
<1> DEFINE N == Len(s)
           F == [e \in D \X (1 .. N) |-> Uncounted(e[1], s[e[2]])]
           f == CHOOSE f : f = [n \in 0 .. N |-> IF n = 0 THEN o ELSE Uncounted(f[n - 1], s[n])]
<1>1. UncountedAll(o, s) = f[N]
  BY DEF UncountedAll, Loop
<1> HIDE DEF N
<1>2. F \in [D \X (1 .. N) -> D] /\ \A x \in D, n \in 1 .. N : F[<<x, n>>] = Uncounted(x, s[n])
  BY DEF N
<1> HIDE DEF F
<1>3. N \in Nat /\ \A n \in 0 .. N : n # 0 => n \in 1 .. N /\ n - 1 \in 0 .. N
  BY DEF N
<1>4. PICK g \in [0 .. N -> D] : RoundsOf(g, o, N, F)
  BY <1>2, <1>3, RoundsExist
<1>5. g[0] = o /\ \A n \in 1 .. N : g[n] = F[<<g[n - 1], n>>]
  BY <1>4 DEF RoundsOf
<1>6. \A n \in 0 .. N : g[n] = IF n = 0 THEN o ELSE Uncounted(g[n - 1], s[n])
  BY <1>2, <1>3, <1>5
<1>7. g = [n \in 0 .. N |-> IF n = 0 THEN o ELSE Uncounted(g[n - 1], s[n])]
  BY <1>6
<1>8. f = [n \in 0 .. N |-> IF n = 0 THEN o ELSE Uncounted(f[n - 1], s[n])]
  BY <1>7
<1> HIDE DEF f
<1>9. \A n \in 0 .. N : f[n] = IF n = 0 THEN o ELSE Uncounted(f[n - 1], s[n])
  BY <1>8
<1>10. ASSUME NEW n \in 1 .. N, f[n - 1] \in D PROVE f[n] \in D
  <2>1. f[n] = Uncounted(f[n - 1], s[n]) /\ n \in 1 .. Len(s)
    BY <1>3, <1>9 DEF N
  <2>2. Uncounted(f[n - 1], s[n]) \in D
    BY <1>10, <2>1
  <2> QED BY <2>1, <2>2
<1>11. f[0] \in D
  BY <1>3, <1>9
<1>12. \A n \in 0 .. N : f[n] \in D
  BY <1>3, <1>10, <1>11, RoundsKeep
<1>13. f = [n \in 0 .. N |-> f[n]]
  BY <1>8
<1>14. f \in [0 .. N -> D]
  BY <1>12, <1>13
<1>15. f[0] = o /\ \A n \in 1 .. N : f[n] = Uncounted(f[n - 1], s[n])
  BY <1>3, <1>9
<1> QED BY <1>1, <1>14, <1>15 DEF N, UncountedRounds

LEMMA CountedAllType ==
    ASSUME NEW c \in Counters, NEW s \in Seq(LedgerRecords)
    PROVE  /\ CountedAll(c, s) \in Counters
           /\ \A d \in Dims, k \in Kinds :
                Figure(CountedAll(c, s), d, k) = Figure(c, d, k) + Total(Weight(d, k), s)
<1>1. Len(s) \in Nat /\ \A n \in 1 .. Len(s) : s[n] \in LedgerRecords
  BY LenProperties, ElementOfSeq
<1>2. ASSUME NEW x \in Counters, NEW n \in 1 .. Len(s) PROVE Counted(x, s[n]) \in Counters
  BY <1>1, CountedType
<1>3. CountedRounds(s, Counters, c)
  BY <1>1, <1>2, CountedRoundsExist
<1>4. PICK f \in [0 .. Len(s) -> Counters] :
         /\ f[0] = c /\ CountedAll(c, s) = f[Len(s)]
         /\ \A n \in 1 .. Len(s) : f[n] = Counted(f[n - 1], s[n])
  BY <1>3 DEF CountedRounds
<1>5. ASSUME NEW d \in Dims, NEW k \in Kinds
      PROVE  Figure(CountedAll(c, s), d, k) = Figure(c, d, k) + Total(Weight(d, k), s)
  <2>1. PICK w \in [LedgerRecords -> Nat] : w = Weight(d, k)
    BY WeightType
  <2>2. PICK t : TotalsOf(t, w, s)
    BY TotalsExist
  <2> DEFINE T == {n \in Nat : Figure(f[n], d, k) = Figure(c, d, k) + t[n]}
  <2>3. Figure(c, d, k) \in Nat
    BY FigureType
  <2>4. 0 \in T
    BY <1>4, <2>2, <2>3 DEF TotalsOf
  <2>5. ASSUME NEW n \in 0 .. Len(s) - 1, n \in T PROVE n + 1 \in T
    <3>1. n + 1 \in 1 .. Len(s) /\ n \in 0 .. Len(s) /\ (n + 1) - 1 = n /\ n + 1 \in Nat
      BY <1>1
    <3>2. PICK x, e : x = f[n] /\ e = s[n + 1]
      OBVIOUS
    <3>3. x \in Counters /\ e \in LedgerRecords
      BY <1>1, <3>1, <3>2
    <3>4. f[n + 1] = Counted(x, e)
      BY <1>4, <3>1, <3>2
    <3>5. t[n + 1] = t[n] + w[e] /\ Figure(x, d, k) = Figure(c, d, k) + t[n] /\ t[n] \in Nat
      BY <2>2, <2>5, <3>1, <3>2 DEF TotalsOf
    <3>6. Figure(Counted(x, e), d, k) = Figure(x, d, k) + w[e]
      BY <2>1, <3>3, CountedType
    <3>7. w[e] \in Nat
      BY <3>3
    <3>8. Figure(f[n + 1], d, k) = Figure(c, d, k) + t[n + 1]
      BY <2>3, <3>4, <3>5, <3>6, <3>7
    <3> QED BY <3>1, <3>8
  <2> HIDE DEF T
  <2>6. \A n \in 0 .. Len(s) : n \in T
    BY <1>1, <2>4, <2>5, RoundInduction
  <2> QED BY <1>1, <1>4, <2>1, <2>2, <2>6 DEF T, TotalsOf
<1> QED BY <1>1, <1>4, <1>5

(* Nothing is cut off at zero while the figure holds what is taken out.    *)
LEMMA UncountedAllType ==
    ASSUME NEW c \in Counters, NEW s \in Seq(LedgerRecords)
    PROVE  /\ UncountedAll(c, s) \in Counters
           /\ \A d \in Plain, k \in Kinds :
                Total(Weight(d, k), s) <= Figure(c, d, k)
                => Figure(UncountedAll(c, s), d, k) = Figure(c, d, k) - Total(Weight(d, k), s)
<1>1. Len(s) \in Nat /\ \A n \in 1 .. Len(s) : s[n] \in LedgerRecords
  BY LenProperties, ElementOfSeq
<1>2. ASSUME NEW x \in Counters, NEW n \in 1 .. Len(s) PROVE Uncounted(x, s[n]) \in Counters
  BY <1>1, UncountedType
<1>3. UncountedRounds(s, Counters, c)
  BY <1>1, <1>2, UncountedRoundsExist
<1>4. PICK f \in [0 .. Len(s) -> Counters] :
         /\ f[0] = c /\ UncountedAll(c, s) = f[Len(s)]
         /\ \A n \in 1 .. Len(s) : f[n] = Uncounted(f[n - 1], s[n])
  BY <1>3 DEF UncountedRounds
<1>5. ASSUME NEW d \in Plain, NEW k \in Kinds, Total(Weight(d, k), s) <= Figure(c, d, k)
      PROVE  Figure(UncountedAll(c, s), d, k) = Figure(c, d, k) - Total(Weight(d, k), s)
  <2>1. PICK w \in [LedgerRecords -> Nat] : w = Weight(d, k)
    BY WeightType
  <2>2. PICK t : TotalsOf(t, w, s)
    BY TotalsExist
  <2>3. PICK all : all = Figure(c, d, k) /\ all \in Nat
    BY FigureType DEF Plain
  <2>4. /\ t \in [0 .. Len(s) -> Nat] /\ t[0] = 0 /\ t[Len(s)] <= all
        /\ \A n \in 1 .. Len(s) : t[n] = t[n - 1] + w[s[n]]
    BY <1>5, <2>1, <2>2, <2>3 DEF TotalsOf
  <2> DEFINE T == {n \in Nat : t[n] <= all => Figure(f[n], d, k) = all - t[n]}
  <2>5. 0 \in T
    BY <1>4, <2>3, <2>4
  <2>6. ASSUME NEW n \in 0 .. Len(s) - 1, n \in T PROVE n + 1 \in T
    <3>1. n + 1 \in 1 .. Len(s) /\ n \in 0 .. Len(s) /\ (n + 1) - 1 = n /\ n + 1 \in Nat
      BY <1>1
    <3>2. PICK x, e : x = f[n] /\ e = s[n + 1]
      OBVIOUS
    <3>3. x \in Counters /\ e \in LedgerRecords
      BY <1>1, <3>1, <3>2
    <3>4. f[n + 1] = Uncounted(x, e)
      BY <1>4, <3>1, <3>2
    <3>5. t[n + 1] = t[n] + w[e] /\ t[n] \in Nat /\ w[e] \in Nat
      BY <2>4, <3>1, <3>2, <3>3
    <3>6. w[e] <= Figure(x, d, k) => Figure(Uncounted(x, e), d, k) = Figure(x, d, k) - w[e]
      BY <2>1, <3>3, UncountedType
    <3>7. ASSUME t[n + 1] <= all PROVE Figure(f[n + 1], d, k) = all - t[n + 1]
      <4>1. Figure(x, d, k) = all - t[n]
        BY <2>3, <2>6, <3>2, <3>5, <3>7
      <4>2. w[e] <= all - t[n]
        BY <2>3, <3>5, <3>7
      <4>3. Figure(Uncounted(x, e), d, k) = (all - t[n]) - w[e]
        BY <3>6, <4>1, <4>2
      <4> QED BY <2>3, <3>4, <3>5, <4>3
    <3> QED BY <3>1, <3>7
  <2> HIDE DEF T
  <2>7. \A n \in 0 .. Len(s) : n \in T
    BY <1>1, <2>5, <2>6, RoundInduction
  <2>8. Figure(f[Len(s)], d, k) = all - t[Len(s)]
    BY <1>1, <2>4, <2>7 DEF T
  <2> QED BY <1>4, <2>1, <2>2, <2>3, <2>8 DEF TotalsOf
<1> QED BY <1>1, <1>4, <1>5

(* v weighs what w weighs in S, and nothing else.                          *)
WeighsOnly(v, w, S, X) == \A r \in X : v[r] = IF r \in S THEN w[r] ELSE 0

(* What is picked weighs what it weighs in the whole.                      *)
LEMMA TotalOnly ==
    ASSUME NEW X, NEW w \in [X -> Nat], NEW s \in Seq(X), NEW S,
           NEW v \in [X -> Nat], WeighsOnly(v, w, S, X)
    PROVE  Total(w, Only(s, S)) = Total(v, s)
<1>0. \A q \in Seq(X), r \in X : Total(w, Append(q, r)) = Total(w, q) + w[r]
  BY TotalAppend
<1> DEFINE D == Seq(X)
           o == <<>>
<1>1. Len(s) \in Nat /\ \A n \in 1 .. Len(s) : s[n] \in X
  BY LenProperties, ElementOfSeq
<1>3. o \in D /\ o = <<>>
  OBVIOUS
<1>4. ASSUME NEW x \in D, NEW n \in 1 .. Len(s) PROVE Kept(x, s[n], S) \in D
  BY <1>1, AppendProperties DEF Kept
<1> HIDE DEF D, o
<1>5. OnlyRounds(s, D, o, S)
  BY <1>1, <1>3, <1>4, OnlyRoundsExist
<1>6. PICK f \in [0 .. Len(s) -> D] :
         /\ f[0] = o /\ Only(s, S) = f[Len(s)]
         /\ \A n \in 1 .. Len(s) : f[n] = Kept(f[n - 1], s[n], S)
  BY <1>5 DEF OnlyRounds
<1>7. PICK t : TotalsOf(t, v, s)
  BY TotalsExist
<1> DEFINE T == {n \in Nat : Total(w, f[n]) = t[n]}
<1>8. 0 \in T
  BY <1>3, <1>6, <1>7, TotalEmpty DEF TotalsOf
<1>9. ASSUME NEW n \in 0 .. Len(s) - 1, n \in T PROVE n + 1 \in T
  <2>1. n + 1 \in 1 .. Len(s) /\ n \in 0 .. Len(s) /\ (n + 1) - 1 = n /\ n + 1 \in Nat
    BY <1>1
  <2>2. PICK a, e : a = f[n] /\ e = s[n + 1]
    OBVIOUS
  <2>3. a \in Seq(X) /\ e \in X
    BY <1>1, <2>1, <2>2 DEF D
  <2>4. f[n + 1] = Kept(a, e, S)
    BY <1>6, <2>1, <2>2
  <2>5. t[n + 1] = t[n] + v[e] /\ Total(w, a) = t[n]
    BY <1>7, <1>9, <2>1, <2>2 DEF TotalsOf
  <2>6. Total(w, a) \in Nat /\ v[e] = IF e \in S THEN w[e] ELSE 0
    BY <2>3, TotalNat DEF WeighsOnly
  <2>7. Total(w, Append(a, e)) = Total(w, a) + w[e]
    BY <1>0, <2>3
  <2>8. CASE e \in S
    <3>1. f[n + 1] = Append(a, e) /\ v[e] = w[e]
      BY <2>4, <2>6, <2>8 DEF Kept
    <3> QED BY <2>1, <2>5, <2>7, <3>1
  <2>9. CASE e \notin S
    <3>1. f[n + 1] = a /\ v[e] = 0
      BY <2>4, <2>6, <2>9 DEF Kept
    <3> QED BY <2>1, <2>5, <2>6, <3>1
  <2> QED BY <2>8, <2>9
<1> HIDE DEF T
<1>10. \A n \in 0 .. Len(s) : n \in T
  BY <1>1, <1>8, <1>9, RoundInduction
<1>11. Total(w, f[Len(s)]) = t[Len(s)]
  BY <1>1, <1>10 DEF T
<1> QED BY <1>6, <1>7, <1>11 DEF TotalsOf

(* v weighs each sequence as w weighs what is picked from it.             *)
PickWeighs(v, w, S, X) == \A q \in Seq(X) : Total(w, Only(q, S)) = Total(v, q)

LEMMA TotalOnlyEach ==
    ASSUME NEW X, NEW w \in [X -> Nat], NEW S
    PROVE  \E v \in [X -> Nat] : PickWeighs(v, w, S, X)
<1> DEFINE g == [r \in X |-> IF r \in S THEN w[r] ELSE 0]
<1>1. g \in [X -> Nat] /\ \A r \in X : g[r] = IF r \in S THEN w[r] ELSE 0
  OBVIOUS
<1> HIDE DEF g
<1>2. PICK v \in [X -> Nat] : v = g
  BY <1>1
<1>3. WeighsOnly(v, w, S, X)
  BY <1>1, <1>2 DEF WeighsOnly
<1>4. ASSUME NEW q \in Seq(X) PROVE Total(w, Only(q, S)) = Total(v, q)
  BY <1>3, TotalOnly
<1>5. PickWeighs(v, w, S, X)
  BY <1>4 DEF PickWeighs
<1> QED BY <1>5

PicksAddUp(w, s, u, S) == Total(w, Only(s \o u, S)) = Total(w, Only(s, S)) + Total(w, Only(u, S))

LEMMA TotalOnlyConcat ==
    ASSUME NEW X, NEW w \in [X -> Nat], NEW s \in Seq(X), NEW u \in Seq(X), NEW S
    PROVE  PicksAddUp(w, s, u, S)
<1>0. PICK all : all = s \o u
  OBVIOUS
<1>1. PICK v \in [X -> Nat] : PickWeighs(v, w, S, X)
  BY TotalOnlyEach
<1>2. all \in Seq(X)
  BY <1>0, ConcatProperties
<1>3. /\ Total(w, Only(all, S)) = Total(v, all)
      /\ Total(w, Only(s, S)) = Total(v, s) /\ Total(w, Only(u, S)) = Total(v, u)
  BY <1>1, <1>2 DEF PickWeighs
<1>4. Total(v, s \o u) = Total(v, s) + Total(v, u)
  BY TotalConcat
<1> QED BY <1>0, <1>3, <1>4 DEF PicksAddUp

-----------------------------------------------------------------------------
(* Types.                                                                  *)

(* The records of a ledger when W were recorded: an execution's own id     *)
(* belongs to one of those.                                                *)
Recs(W) == {r \in LedgerRecords : r.id = "own" => r.x \in W}

Ids == Items \X {"none", "legacy", "own"}

Facts == UNION {[I -> BOOLEAN] : I \in SUBSET Ids}
Tombs == UNION {[I -> Nat] : I \in SUBSET Ids}

Ledgers(W) ==
    [visible : Seq(Recs(W)), archive : Seq(Recs(W)), counters : Counters,
     facts : Facts, deleted : Tombs, cut : SUBSET Truncated, expiry : Nat \cup {Unset},
     dirty : BOOLEAN, retention : Retentions, repairing : BOOLEAN]

Files(W) ==
    [visible : Seq(Recs(W)), archive : Seq(Recs(W)), counters : Counters, quota : BOOLEAN,
     facts : Facts, deleted : Tombs, cut : SUBSET Truncated, at : Nat]

Lines(W) ==
    [kind : {"detail"}, r : Recs(W), archived : BOOLEAN, day : Nat]
    \cup [kind : {"quota"}, facts : Facts, deleted : Tombs, day : Nat]

LEMMA FactsAre ==
    \A f : f \in Facts <=> f = [i \in DOMAIN f |-> f[i]] /\ DOMAIN f \subseteq Ids /\ \A i \in DOMAIN f : f[i] \in BOOLEAN
BY DEF Facts

LEMMA TombsAre ==
    \A f : f \in Tombs <=> f = [i \in DOMAIN f |-> f[i]] /\ DOMAIN f \subseteq Ids /\ \A i \in DOMAIN f : f[i] \in Nat
BY DEF Tombs

LEMMA RecsType ==
    ASSUME NEW W, NEW s \in Seq(Recs(W))
    PROVE  s \in Seq(LedgerRecords) /\ Range(s) \subseteq Recs(W) /\ Recs(W) \subseteq LedgerRecords
<1>1. Recs(W) \subseteq LedgerRecords
  BY DEF Recs
<1> QED BY <1>1, SeqMonotonic, RangeOfSeq

LEMMA CutType ==
    ASSUME NEW cut \in SUBSET Truncated
    PROVE  CutRecords(cut) \in Seq(LedgerRecords)
<1>1. cut \subseteq Items /\ IsFiniteSet(cut)
  BY LedgerAssumption, FS_Subset
<1>2. PICK n \in Nat : n = Cardinality(cut)
  BY <1>1, FS_CardinalityType
<1>3. PICK f : f \in Bijection(1 .. n, cut)
  BY <1>1, <1>2, FS_CardinalityType DEF ExistsBijection
<1>4. f \in [1 .. n -> cut] /\ IsInjective(f)
  BY <1>3 DEF Bijection, Injection, IsInjective
<1>5. PICK q \in [1 .. n -> cut] : q = SetToSeq(cut)
  BY <1>2, <1>4 DEF SetToSeq
<1>6. \A i \in 1 .. n : Record(q[i], "none", q[i] \in Doubled, TRUE) \in LedgerRecords
  BY <1>1, <1>5 DEF Record, LedgerRecords
<1>7. CutRecords(cut) = [i \in 1 .. n |-> Record(q[i], "none", q[i] \in Doubled, TRUE)]
  BY <1>2, <1>5 DEF CutRecords
<1>8. CutRecords(cut) \in [1 .. n -> LedgerRecords]
  BY <1>6, <1>7
<1> QED BY <1>8

LEMMA LedgerRecs ==
    ASSUME NEW W, NEW r \in Recs(W)
    PROVE  /\ r.x \in Items /\ r.id \in {"none", "legacy", "own"} /\ r.doubled \in BOOLEAN /\ r.hashed \in BOOLEAN
           /\ RecordID(r) \in Ids /\ Legacy(r) \in Recs(W) /\ [r EXCEPT !.doubled = FALSE] \in Recs(W)
           /\ \A b \in BOOLEAN : [r EXCEPT !.doubled = b] \in Recs(W)
<1>1. r = [x |-> r.x, id |-> r.id, doubled |-> r.doubled, hashed |-> r.hashed] /\ r.x \in Items
      /\ r.id \in {"none", "legacy", "own"} /\ r.doubled \in BOOLEAN /\ r.hashed \in BOOLEAN
      /\ (r.id = "own" => r.x \in W)
  BY DEF Recs, LedgerRecords
<1>2. RecordID(r) \in Ids
  BY <1>1 DEF RecordID, Ids
<1>3. [r EXCEPT !.id = "legacy"] \in Recs(W)
  BY <1>1 DEF Recs, LedgerRecords
<1>4. \A b \in BOOLEAN : [r EXCEPT !.doubled = b] \in Recs(W)
  BY <1>1 DEF Recs, LedgerRecords
<1> QED BY <1>1, <1>2, <1>3, <1>4 DEF Legacy

-----------------------------------------------------------------------------
(* The balance of counters and records.                                    *)

Balanced(v, a, c, cut) ==
    \A d \in Plain, k \in Kinds :
        Figure(c, d, k) = (Total(Weight(d, k), v) + Total(Weight(d, k), a)) + Total(Weight(d, k), CutRecords(cut))

(* The totals of two pairs of sequences are the same, those of the first   *)
(* have r more, or those of the first have the entries of "gone" less.     *)
SameTotals(v, a, u, b) ==
    \A w \in [LedgerRecords -> Nat] : Total(w, v) + Total(w, a) = Total(w, u) + Total(w, b)

OneMore(v, a, u, b, r) ==
    \A w \in [LedgerRecords -> Nat] : Total(w, v) + Total(w, a) = (Total(w, u) + Total(w, b)) + w[r]

SoManyLess(v, a, u, b, gone) ==
    \A w \in [LedgerRecords -> Nat] : (Total(w, v) + Total(w, a)) + Total(w, gone) = Total(w, u) + Total(w, b)

LEMMA BalancedSame ==
    ASSUME NEW v, NEW a, NEW u, NEW b, NEW c, NEW cut, Balanced(u, b, c, cut), SameTotals(v, a, u, b)
    PROVE  Balanced(v, a, c, cut)
<1>1. ASSUME NEW d \in Plain, NEW k \in Kinds
      PROVE  Figure(c, d, k) = (Total(Weight(d, k), v) + Total(Weight(d, k), a)) + Total(Weight(d, k), CutRecords(cut))
  <2>1. PICK w \in [LedgerRecords -> Nat] : w = Weight(d, k)
    BY WeightType
  <2>2. Total(w, v) + Total(w, a) = Total(w, u) + Total(w, b)
    BY DEF SameTotals
  <2>3. Figure(c, d, k) = (Total(w, u) + Total(w, b)) + Total(w, CutRecords(cut))
    BY <2>1 DEF Balanced
  <2> QED BY <2>1, <2>2, <2>3
<1> QED BY <1>1 DEF Balanced

LEMMA BalancedMore ==
    ASSUME NEW v \in Seq(LedgerRecords), NEW a \in Seq(LedgerRecords), NEW u \in Seq(LedgerRecords),
           NEW b \in Seq(LedgerRecords), NEW c \in Counters, NEW cut \in SUBSET Truncated,
           NEW r \in LedgerRecords, Balanced(u, b, c, cut), OneMore(v, a, u, b, r)
    PROVE  Balanced(v, a, Counted(c, r), cut)
<1>1. ASSUME NEW d \in Plain, NEW k \in Kinds
      PROVE  Figure(Counted(c, r), d, k)
             = (Total(Weight(d, k), v) + Total(Weight(d, k), a)) + Total(Weight(d, k), CutRecords(cut))
  <2>1. PICK w \in [LedgerRecords -> Nat] : w = Weight(d, k)
    BY WeightType
  <2>2. Total(w, v) + Total(w, a) = (Total(w, u) + Total(w, b)) + w[r]
    BY DEF OneMore
  <2>3. Figure(c, d, k) = (Total(w, u) + Total(w, b)) + Total(w, CutRecords(cut))
    BY <2>1 DEF Balanced
  <2>4. Figure(Counted(c, r), d, k) = Figure(c, d, k) + w[r]
    BY <2>1, CountedType DEF Plain
  <2>5. Total(w, u) \in Nat /\ Total(w, b) \in Nat /\ w[r] \in Nat /\ Total(w, CutRecords(cut)) \in Nat
    BY TotalNat, CutType
  <2>6. ((Total(w, u) + Total(w, b)) + Total(w, CutRecords(cut))) + w[r]
        = ((Total(w, u) + Total(w, b)) + w[r]) + Total(w, CutRecords(cut))
    BY <2>5
  <2> QED BY <2>1, <2>2, <2>3, <2>4, <2>6
<1> QED BY <1>1 DEF Balanced

LEMMA BalancedLess ==
    ASSUME NEW v \in Seq(LedgerRecords), NEW a \in Seq(LedgerRecords), NEW u \in Seq(LedgerRecords),
           NEW b \in Seq(LedgerRecords), NEW c \in Counters, NEW cut \in SUBSET Truncated,
           NEW gone \in Seq(LedgerRecords), Balanced(u, b, c, cut), SoManyLess(v, a, u, b, gone)
    PROVE  Balanced(v, a, UncountedAll(c, gone), cut)
<1>1. ASSUME NEW d \in Plain, NEW k \in Kinds
      PROVE  Figure(UncountedAll(c, gone), d, k)
             = (Total(Weight(d, k), v) + Total(Weight(d, k), a)) + Total(Weight(d, k), CutRecords(cut))
  <2>1. PICK w \in [LedgerRecords -> Nat] : w = Weight(d, k)
    BY WeightType
  <2>2. (Total(w, v) + Total(w, a)) + Total(w, gone) = Total(w, u) + Total(w, b)
    BY DEF SoManyLess
  <2>3. Figure(c, d, k) = (Total(w, u) + Total(w, b)) + Total(w, CutRecords(cut))
    BY <2>1 DEF Balanced
  <2>4. Total(w, v) \in Nat /\ Total(w, a) \in Nat /\ Total(w, gone) \in Nat /\ Total(w, CutRecords(cut)) \in Nat
    BY TotalNat, CutType
  <2>5. PICK p, q, g, h \in Nat : p = Total(w, v) /\ q = Total(w, a) /\ g = Total(w, gone)
                                  /\ h = Total(w, CutRecords(cut))
    BY <2>4
  <2>6. Figure(c, d, k) = ((p + q) + g) + h
    BY <2>2, <2>3, <2>5
  <2>7. g <= ((p + q) + g) + h /\ (((p + q) + g) + h) - g = (p + q) + h
    OBVIOUS
  <2>8. Total(Weight(d, k), gone) <= Figure(c, d, k)
    BY <2>1, <2>5, <2>6, <2>7
  <2>9. Figure(UncountedAll(c, gone), d, k) = Figure(c, d, k) - Total(Weight(d, k), gone)
    BY <2>8, UncountedAllType
  <2>10. Figure(UncountedAll(c, gone), d, k) = (((p + q) + g) + h) - g
    BY <2>1, <2>5, <2>6, <2>9
  <2> QED BY <2>1, <2>5, <2>7, <2>10
<1> QED BY <1>1 DEF Balanced

(* The balance is what TotalsMatch says.                                   *)
LEMMA BalancedMatches ==
    ASSUME NEW l, l.visible \in Seq(LedgerRecords), l.archive \in Seq(LedgerRecords), l.counters \in Counters,
           l.cut \in SUBSET Truncated
    PROVE  TotalsMatch(l) <=> Balanced(l.visible, l.archive, l.counters, l.cut)
<1>1. PICK v, a, e \in Seq(LedgerRecords) : v = l.visible /\ a = l.archive /\ e = CutRecords(l.cut)
  BY CutType
<1>2. PICK all : all = (v \o a) \o e
  OBVIOUS
<1>3. Tally(l) = CountedAll(Zero, all)
  BY <1>1, <1>2 DEF Tally, Details
<1>4. v \o a \in Seq(LedgerRecords) /\ all \in Seq(LedgerRecords)
  BY <1>2, ConcatProperties
<1>5. PICK t \in Counters : t = Tally(l)
  BY <1>3, <1>4, ZeroType, CountedAllType
<1>6. ASSUME NEW d \in Plain, NEW k \in Kinds
      PROVE  Figure(t, d, k) = (Total(Weight(d, k), v) + Total(Weight(d, k), a)) + Total(Weight(d, k), e)
  <2>1. PICK w \in [LedgerRecords -> Nat] : w = Weight(d, k)
    BY WeightType
  <2>2. d \in Dims
    BY DEF Plain
  <2>3. Figure(t, d, k) = 0 + Total(w, all)
    BY <1>3, <1>4, <1>5, <2>1, <2>2, ZeroType, CountedAllType
  <2>4. Total(w, all) = Total(w, v \o a) + Total(w, e) /\ Total(w, v \o a) = Total(w, v) + Total(w, a)
    BY <1>2, <1>4, TotalConcat
  <2>5. Total(w, all) \in Nat
    BY <1>4, TotalNat
  <2>6. Figure(t, d, k) = Total(w, all)
    BY <2>3, <2>5
  <2> QED BY <2>1, <2>4, <2>6
<1>7. PICK c \in Counters : c = l.counters
  OBVIOUS
<1>8. ASSUME NEW d \in Plain
      PROVE  c[d] = t[d] <=> \A k \in Kinds : Figure(c, d, k) = Figure(t, d, k)
  <2>1. c[d] \in Counts /\ t[d] \in Counts
    BY DEF Plain, Counters
  <2>2. c[d] = t[d] <=> c[d].n = t[d].n /\ c[d].tokens = t[d].tokens
    <3>1. PICK y, z \in Counts : y = c[d] /\ z = t[d]
      BY <2>1
    <3>2. y = [n |-> y.n, tokens |-> y.tokens] /\ z = [n |-> z.n, tokens |-> z.tokens]
      BY DEF Counts
    <3> QED BY <3>1, <3>2
  <2>3. Figure(c, d, "n") = c[d].n /\ Figure(t, d, "n") = t[d].n
    BY DEF Figure
  <2>4. Figure(c, d, "tokens") = c[d].tokens /\ Figure(t, d, "tokens") = t[d].tokens
    BY DEF Figure
  <2>5. (\A k \in Kinds : Figure(c, d, k) = Figure(t, d, k))
        <=> Figure(c, d, "n") = Figure(t, d, "n") /\ Figure(c, d, "tokens") = Figure(t, d, "tokens")
    BY DEF Kinds
  <2> QED BY <2>2, <2>3, <2>4, <2>5
<1>9. TotalsMatch(l) <=> \A d \in Plain : c[d] = t[d]
  BY <1>5, <1>7 DEF TotalsMatch, Plain
<1>10. Balanced(v, a, c, l.cut) <=> \A d \in Plain, k \in Kinds : Figure(c, d, k) = Figure(t, d, k)
  BY <1>1, <1>6 DEF Balanced
<1>11. (\A d \in Plain : c[d] = t[d]) <=> \A d \in Plain, k \in Kinds : Figure(c, d, k) = Figure(t, d, k)
  BY <1>8
<1> QED BY <1>1, <1>7, <1>9, <1>10, <1>11

-----------------------------------------------------------------------------
(* What every operation keeps.                                             *)

(* Facts that follow the records: those of the open period.                *)
Shown(r) == r.x \in Eligible /\ At[r.x] >= PeriodStart

CoveredBy(r, facts, deleted, weak) ==
    /\ HasID(r) /\ RecordID(r) \in DOMAIN facts /\ RecordID(r) \notin DOMAIN deleted
    /\ weak \/ facts[RecordID(r)] = r.doubled

Covered(R, facts, deleted, weak) == \A r \in R : Shown(r) => CoveredBy(r, facts, deleted, weak)

(* While a repair is pending, between the loading of a snapshot and the    *)
(* pass over the records, the facts are repaired and the records are not:  *)
(* then the facts are there ("weak"), but do not yet agree.                *)
Good(l, W, weak) ==
    /\ l \in Ledgers(W)
    /\ Balanced(l.visible, l.archive, l.counters, l.cut)
    /\ Covered(Range(Details(l)), l.facts, l.deleted, weak)

LEMMA LedgerType ==
    ASSUME NEW W, NEW l \in Ledgers(W)
    PROVE  /\ l.visible \in Seq(Recs(W)) /\ l.archive \in Seq(Recs(W)) /\ l.counters \in Counters
           /\ l.facts \in Facts /\ l.deleted \in Tombs /\ l.cut \in SUBSET Truncated
           /\ l.expiry \in Nat \cup {Unset} /\ l.dirty \in BOOLEAN /\ l.retention \in Retentions
           /\ l.retention \in Nat /\ l.repairing \in BOOLEAN
           /\ l.visible \in Seq(LedgerRecords) /\ l.archive \in Seq(LedgerRecords)
           /\ Details(l) \in Seq(Recs(W)) /\ Details(l) \in Seq(LedgerRecords)
           /\ Range(Details(l)) = Range(l.visible) \cup Range(l.archive)
           /\ Range(Details(l)) \subseteq Recs(W)
<1>1. /\ l.visible \in Seq(Recs(W)) /\ l.archive \in Seq(Recs(W)) /\ l.counters \in Counters
      /\ l.facts \in Facts /\ l.deleted \in Tombs /\ l.cut \in SUBSET Truncated
      /\ l.expiry \in Nat \cup {Unset} /\ l.dirty \in BOOLEAN /\ l.retention \in Retentions
      /\ l.repairing \in BOOLEAN
  BY DEF Ledgers
<1>2. l.retention \in Nat
  BY <1>1, LedgerAssumption
<1>3. Details(l) \in Seq(Recs(W)) /\ Range(Details(l)) = Range(l.visible) \cup Range(l.archive)
  BY <1>1, ConcatRange DEF Details
<1> QED BY <1>1, <1>2, <1>3, RecsType

LEMMA TimeType ==
    ASSUME NEW r, r.x \in Items
    PROVE  At[r.x] \in Nat
BY LedgerAssumption

LEMMA RecordTime ==
    ASSUME NEW W, NEW r \in Recs(W)
    PROVE  At[r.x] \in Nat
BY LedgerRecs, TimeType

LEMMA LegacyRecord ==
    ASSUME NEW W, NEW r \in Recs(W)
    PROVE  /\ Legacy(r) \in Recs(W) /\ Legacy(r).x = r.x /\ Legacy(r).doubled = r.doubled
           /\ Legacy(r).hashed = r.hashed
           /\ (r.x \in Eligible => HasID(Legacy(r))) /\ (HasID(r) => Legacy(r) = r)
           /\ RecordID(Legacy(r)) \in Ids /\ Legacy(Legacy(r)) = Legacy(r)
           /\ (HasID(Legacy(r)) => HasID(r) \/ r.x \in Eligible)
<1>1. r = [x |-> r.x, id |-> r.id, doubled |-> r.doubled, hashed |-> r.hashed]
  BY DEF Recs, LedgerRecords
<1>2. Legacy(r) = IF ~HasID(r) /\ r.x \in Eligible THEN [r EXCEPT !.id = "legacy"] ELSE r
  BY DEF Legacy
<1>3. Legacy(r) \in Recs(W) /\ RecordID(Legacy(r)) \in Ids
  BY LedgerRecs
<1>4. CASE ~HasID(r) /\ r.x \in Eligible
  <2>1. PICK q : q = [r EXCEPT !.id = "legacy"]
    OBVIOUS
  <2>2. q.x = r.x /\ q.id = "legacy" /\ q.doubled = r.doubled /\ q.hashed = r.hashed
    BY <1>1, <2>1
  <2>3. Legacy(r) = q /\ HasID(q) /\ Legacy(q) = q
    BY <1>2, <1>4, <2>1, <2>2 DEF HasID, Legacy
  <2> QED BY <1>3, <1>4, <2>2, <2>3
<1>5. CASE ~(~HasID(r) /\ r.x \in Eligible)
  <2>1. Legacy(r) = r
    BY <1>2, <1>5
  <2> QED BY <1>3, <1>5, <2>1
<1> QED BY <1>4, <1>5

LEMMA WithType ==
    ASSUME NEW f \in Facts, NEW i \in Ids, NEW b \in BOOLEAN
    PROVE  /\ With(f, i, b) \in Facts /\ DOMAIN With(f, i, b) = DOMAIN f \cup {i} /\ With(f, i, b)[i] = b
           /\ \A j \in DOMAIN f : j # i => With(f, i, b)[j] = f[j]
<1>1. DOMAIN f \subseteq Ids /\ \A j \in DOMAIN f : f[j] \in BOOLEAN
  BY FactsAre
<1>2. PICK I : I = DOMAIN f \cup {i}
  OBVIOUS
<1>3. With(f, i, b) = [j \in I |-> IF j = i THEN b ELSE f[j]]
  BY <1>2 DEF With
<1>4. I \in SUBSET Ids /\ \A j \in I : (IF j = i THEN b ELSE f[j]) \in BOOLEAN
  BY <1>1, <1>2
<1>5. With(f, i, b) \in [I -> BOOLEAN]
  BY <1>3, <1>4
<1> QED BY <1>2, <1>3, <1>4, <1>5 DEF Facts

(* g is f without the entries under "ids". *)
Left(g, f, ids) == DOMAIN g = DOMAIN f \ ids /\ \A i \in DOMAIN g : g[i] = f[i]

LEMMA WithoutLeft ==
    ASSUME NEW ids, NEW f
    PROVE  Left(Without(f, ids), f, ids) /\ Without(f, ids) = [i \in DOMAIN Without(f, ids) |-> Without(f, ids)[i]]
<1>1. PICK g : g = Without(f, ids)
  OBVIOUS
<1>2. g = [i \in DOMAIN f \ ids |-> f[i]]
  BY <1>1 DEF Without
<1>3. Left(g, f, ids)
  BY <1>2 DEF Left
<1>4. g = [i \in DOMAIN g |-> g[i]]
  BY <1>2
<1> QED BY <1>1, <1>3, <1>4

LEMMA FactsWithout ==
    ASSUME NEW ids, NEW f \in Facts
    PROVE  Without(f, ids) \in Facts /\ Left(Without(f, ids), f, ids)
<1>1. PICK g : g = Without(f, ids)
  OBVIOUS
<1>2. Left(g, f, ids) /\ g = [i \in DOMAIN g |-> g[i]]
  BY <1>1, WithoutLeft
<1>3. DOMAIN f \subseteq Ids /\ \A i \in DOMAIN f : f[i] \in BOOLEAN
  BY FactsAre
<1>4. DOMAIN g \subseteq Ids /\ \A i \in DOMAIN g : g[i] \in BOOLEAN
  BY <1>2, <1>3 DEF Left
<1> QED BY <1>1, <1>2, <1>4, FactsAre

LEMMA TombsWithout ==
    ASSUME NEW ids, NEW f \in Tombs
    PROVE  Without(f, ids) \in Tombs /\ Left(Without(f, ids), f, ids)
<1>1. PICK g : g = Without(f, ids)
  OBVIOUS
<1>2. Left(g, f, ids) /\ g = [i \in DOMAIN g |-> g[i]]
  BY <1>1, WithoutLeft
<1>3. DOMAIN f \subseteq Ids /\ \A i \in DOMAIN f : f[i] \in Nat
  BY TombsAre
<1>4. DOMAIN g \subseteq Ids /\ \A i \in DOMAIN g : g[i] \in Nat
  BY <1>2, <1>3 DEF Left
<1> QED BY <1>1, <1>2, <1>4, TombsAre

(* No other record under the identity of r says otherwise.                 *)
Agrees(l, r, weak) ==
    weak \/ r.x \notin Eligible \/ \A s \in Range(Details(l)) : RecordID(s) = RecordID(Legacy(r)) => s.doubled = r.doubled

(* m is l with the fact of r, unless that is deleted.                      *)
FactAdded(m, l, r) ==
    /\ m = [l EXCEPT !.facts = m.facts]
    /\ m.facts \in Facts /\ DOMAIN l.facts \subseteq DOMAIN m.facts
    /\ \A i \in DOMAIN l.facts : i # RecordID(Legacy(r)) => m.facts[i] = l.facts[i]
    /\ RecordID(Legacy(r)) \in DOMAIN l.deleted \/ r.x \notin Eligible => m = l
    /\ RecordID(Legacy(r)) \notin DOMAIN l.deleted /\ r.x \in Eligible
       => RecordID(Legacy(r)) \in DOMAIN m.facts /\ m.facts[RecordID(Legacy(r))] = r.doubled

LEMMA AddFactDoes ==
    ASSUME NEW W, NEW l \in Ledgers(W), NEW r \in Recs(W)
    PROVE  FactAdded(AddFact(l, r), l, r) /\ AddFact(l, r) \in Ledgers(W)
<1>1. PICK i \in Ids : i = RecordID(Legacy(r))
  BY LegacyRecord
<1>2. r.doubled \in BOOLEAN
  BY LedgerRecs
<1>3. PICK f : f = l.facts
  OBVIOUS
<1>4. f \in Facts
  BY <1>3 DEF Ledgers
<1>5. CASE r.x \notin Eligible \/ i \in DOMAIN l.deleted
  <2>1. AddFact(l, r) = l
    BY <1>1, <1>5 DEF AddFact
  <2>2. l = [l EXCEPT !.facts = l.facts]
    BY DEF Ledgers
  <2> QED BY <1>1, <1>3, <1>4, <1>5, <2>1, <2>2 DEF FactAdded
<1>6. CASE ~(r.x \notin Eligible \/ i \in DOMAIN l.deleted)
  <2>1. PICK g : g = With(f, i, r.doubled)
    OBVIOUS
  <2>2. g \in Facts /\ DOMAIN g = DOMAIN f \cup {i} /\ g[i] = r.doubled
        /\ \A j \in DOMAIN f : j # i => g[j] = f[j]
    BY <1>2, <1>4, <2>1, WithType
  <2>3. AddFact(l, r) = [l EXCEPT !.facts = g]
    BY <1>1, <1>3, <1>6, <2>1 DEF AddFact
  <2>4. PICK m : m = [l EXCEPT !.facts = g]
    OBVIOUS
  <2>5. m \in Ledgers(W) /\ m.facts = g
    BY <2>2, <2>4 DEF Ledgers
  <2> QED BY <1>1, <1>3, <1>6, <2>2, <2>3, <2>4, <2>5 DEF FactAdded
<1> QED BY <1>5, <1>6

LEMMA AddFactGood ==
    ASSUME NEW W, NEW weak \in BOOLEAN, NEW l, Good(l, W, weak), NEW r \in Recs(W), Agrees(l, r, weak)
    PROVE  Good(AddFact(l, r), W, weak)
<1>1. l \in Ledgers(W)
  BY DEF Good
<1>2. PICK m : m = AddFact(l, r)
  OBVIOUS
<1>3. FactAdded(m, l, r) /\ m \in Ledgers(W)
  BY <1>1, <1>2, AddFactDoes
<1>4. PICK i : i = RecordID(Legacy(r))
  OBVIOUS
<1>5. m.visible = l.visible /\ m.archive = l.archive /\ m.counters = l.counters /\ m.cut = l.cut
      /\ m.deleted = l.deleted /\ Details(m) = Details(l)
  BY <1>1, <1>3 DEF FactAdded, Ledgers, Details
<1>6. ASSUME NEW s \in Range(Details(l)), Shown(s) PROVE CoveredBy(s, m.facts, l.deleted, weak)
  <2>1. CoveredBy(s, l.facts, l.deleted, weak)
    BY <1>6 DEF Good, Covered
  <2>2. RecordID(s) \in DOMAIN m.facts
    BY <1>3, <2>1 DEF FactAdded, CoveredBy
  <2>3. CASE weak
    BY <2>1, <2>2, <2>3 DEF CoveredBy
  <2>4. CASE ~weak /\ RecordID(s) # i
    BY <1>3, <1>4, <2>1, <2>2, <2>4 DEF FactAdded, CoveredBy
  <2>5. CASE ~weak /\ RecordID(s) = i
    <3>1. s.doubled = r.doubled \/ r.x \notin Eligible
      BY <1>4, <2>5 DEF Agrees
    <3>2. m = l \/ (m.facts[i] = r.doubled /\ r.x \in Eligible)
      BY <1>3, <1>4 DEF FactAdded
    <3> QED BY <2>1, <2>2, <2>5, <3>1, <3>2 DEF CoveredBy
  <2> QED BY <2>3, <2>4, <2>5
<1> QED BY <1>2, <1>3, <1>5, <1>6 DEF Good, Covered

(* The records are among those of l, whose facts and tombstones are kept.  *)
LEMMA CoveredStill ==
    ASSUME NEW R, NEW S, R \subseteq S, NEW facts, NEW deleted, NEW weak, Covered(S, facts, deleted, weak)
    PROVE  Covered(R, facts, deleted, weak)
BY DEF Covered

(* The next expiry is known.                                               *)
Known(l) ==
    l.retention > 0 => \A r \in Range(Details(l)) : l.expiry # Unset /\ l.expiry <= At[r.x] + l.retention

(* What an operation leaves alone. *)
SameSettings(m, l) == m.retention = l.retention /\ m.repairing = l.repairing /\ m.cut = l.cut

LEMMA PruneQuotaDoes ==
    ASSUME NEW W, clock \in Int, NEW l \in Ledgers(W)
    PROVE  /\ PruneQuota(l) \in Ledgers(W) /\ SameSettings(PruneQuota(l), l)
           /\ Details(PruneQuota(l)) = Details(l) /\ (Known(l) => Known(PruneQuota(l)))
           /\ \A weak \in BOOLEAN : Good(l, W, weak) => Good(PruneQuota(l), W, weak)
<1>1. PICK m : m = PruneQuota(l)
  OBVIOUS
<1>2. CASE l.retention = 0
  <2>1. PruneQuota(l) = l
    BY <1>2 DEF PruneQuota
  <2> QED BY <2>1 DEF SameSettings
<1>3. CASE l.retention # 0
  <2>1. PICK F : F = {i \in DOMAIN l.facts : ~(At[i[1]] >= PeriodStart) /\ At[i[1]] < clock - l.retention}
    OBVIOUS
  <2>2. PICK G : G = {i \in DOMAIN l.deleted : l.deleted[i] <
                       (IF PeriodStart < clock - l.retention THEN PeriodStart ELSE clock - l.retention)}
    OBVIOUS
  <2>3. m = [l EXCEPT !.facts = Without(@, F), !.deleted = Without(@, G)]
    BY <1>1, <1>3, <2>1, <2>2 DEF PruneQuota
  <2>4. l.facts \in Facts /\ l.deleted \in Tombs
    BY LedgerType
  <2>5. PICK f, g : f = Without(l.facts, F) /\ g = Without(l.deleted, G)
    OBVIOUS
  <2>6. f \in Facts /\ g \in Tombs /\ Left(f, l.facts, F) /\ Left(g, l.deleted, G)
    BY <2>4, <2>5, FactsWithout, TombsWithout
  <2>7. m = [l EXCEPT !.facts = f, !.deleted = g]
    BY <2>3, <2>5
  <2>8. /\ m \in Ledgers(W) /\ m.visible = l.visible /\ m.archive = l.archive /\ m.counters = l.counters
        /\ m.facts = f /\ m.deleted = g /\ m.cut = l.cut /\ m.expiry = l.expiry
        /\ m.retention = l.retention /\ m.repairing = l.repairing
    BY <2>6, <2>7 DEF Ledgers
  <2>9. Details(m) = Details(l)
    BY <2>8 DEF Details
  <2>10. ASSUME NEW weak \in BOOLEAN, Good(l, W, weak) PROVE Good(m, W, weak)
    <3>1. ASSUME NEW r \in Range(Details(l)), Shown(r) PROVE CoveredBy(r, f, g, weak)
      <4>1. CoveredBy(r, l.facts, l.deleted, weak)
        BY <2>10, <3>1 DEF Good, Covered
      <4>2. RecordID(r)[1] = r.x
        BY DEF RecordID
      <4>3. RecordID(r) \notin F
        BY <2>1, <3>1, <4>2 DEF Shown
      <4> QED BY <2>6, <4>1, <4>3 DEF CoveredBy, Left
    <3>2. Covered(Range(Details(m)), m.facts, m.deleted, weak)
      BY <2>8, <2>9, <3>1 DEF Covered
    <3> QED BY <2>8, <2>10, <3>2 DEF Good
  <2>11. Known(l) => Known(m)
    BY <2>8, <2>9 DEF Known
  <2> QED BY <1>1, <2>8, <2>9, <2>10, <2>11 DEF SameSettings
<1> QED BY <1>2, <1>3

(* m is l with the next expiry, which is not after that of r.              *)
ExpiryWatched(m, l, r) ==
    /\ m = [l EXCEPT !.expiry = m.expiry]
    /\ l.retention > 0 => /\ m.expiry # Unset /\ m.expiry <= At[r.x] + l.retention
                          /\ l.expiry # Unset => m.expiry <= l.expiry

LEMMA WatchedDoes ==
    ASSUME NEW W, NEW l \in Ledgers(W), NEW r \in Recs(W)
    PROVE  Watched(l, r) \in Ledgers(W) /\ ExpiryWatched(Watched(l, r), l, r)
<1>1. At[r.x] \in Nat
  BY RecordTime
<1>2. l.retention \in Nat /\ l.expiry \in Nat \cup {Unset} /\ Unset \notin Nat
  BY LedgerType, LedgerAssumption
<1>3. PICK e \in Nat : e = At[r.x] + l.retention
  BY <1>1, <1>2
<1>4. Watched(l, r) = IF l.retention > 0 /\ (l.expiry = Unset \/ e < l.expiry)
                      THEN [l EXCEPT !.expiry = e] ELSE l
  BY <1>3 DEF Watched
<1>5. CASE l.retention > 0 /\ (l.expiry = Unset \/ e < l.expiry)
  <2>1. PICK m : m = [l EXCEPT !.expiry = e]
    OBVIOUS
  <2>2. m \in Ledgers(W) /\ m.expiry = e
    BY <2>1 DEF Ledgers
  <2>3. l.expiry # Unset => e <= l.expiry
    BY <1>2, <1>5
  <2> QED BY <1>2, <1>3, <1>4, <1>5, <2>1, <2>2, <2>3 DEF ExpiryWatched
<1>6. CASE ~(l.retention > 0 /\ (l.expiry = Unset \/ e < l.expiry))
  <2>1. Watched(l, r) = l
    BY <1>4, <1>6
  <2>2. l = [l EXCEPT !.expiry = l.expiry]
    BY DEF Ledgers
  <2>3. l.retention > 0 => l.expiry # Unset /\ l.expiry <= e /\ l.expiry <= l.expiry
    BY <1>2, <1>6
  <2> QED BY <1>3, <2>1, <2>2, <2>3 DEF ExpiryWatched
<1> QED BY <1>5, <1>6

LEMMA WatchedGood ==
    ASSUME NEW W, NEW weak \in BOOLEAN, NEW l, Good(l, W, weak), NEW r \in Recs(W)
    PROVE  Good(Watched(l, r), W, weak)
<1>1. l \in Ledgers(W)
  BY DEF Good
<1>2. PICK m : m = Watched(l, r)
  OBVIOUS
<1>3. m \in Ledgers(W) /\ m = [l EXCEPT !.expiry = m.expiry]
  BY <1>1, <1>2, WatchedDoes DEF ExpiryWatched
<1>4. m.visible = l.visible /\ m.archive = l.archive /\ m.counters = l.counters /\ m.cut = l.cut
      /\ m.deleted = l.deleted /\ m.facts = l.facts
  BY <1>1, <1>3 DEF Ledgers
<1>5. Details(m) = Details(l)
  BY <1>4 DEF Details
<1> QED BY <1>2, <1>3, <1>4, <1>5 DEF Good

LEMMA AppendRange ==
    ASSUME NEW X, NEW s \in Seq(X), NEW r \in X
    PROVE  Append(s, r) \in Seq(X) /\ Range(Append(s, r)) = Range(s) \cup {r}
<1>1. PICK one : one = <<r>>
  OBVIOUS
<1>2. one \in Seq(X) /\ Append(s, r) = s \o one
  BY <1>1, AppendIsConcat
<1>3. Range(one) = {r}
  BY <1>1 DEF Range
<1> QED BY <1>2, <1>3, ConcatRange

(* What recording r adds. *)
Entered(m, l, r) ==
    /\ SameSettings(m, l) /\ m.deleted = l.deleted
    /\ Range(Details(m)) \subseteq Range(Details(l)) \cup {Legacy(r)}

LEMMA InsertGood ==
    ASSUME NEW W, NEW weak \in BOOLEAN, NEW l, Good(l, W, weak), NEW given \in Recs(W), Agrees(l, given, weak),
           NEW archived
    PROVE  /\ Good(Insert(l, given, archived), W, weak) /\ Entered(Insert(l, given, archived), l, given)
           /\ Known(l) => Known(Insert(l, given, archived))
<1>1. l \in Ledgers(W)
  BY DEF Good
<1>2. PICK r \in Recs(W) : r = Legacy(given)
  BY LegacyRecord
<1>3. /\ r.x = given.x /\ r.doubled = given.doubled /\ Legacy(r) = r
      /\ (r.x \in Eligible => HasID(r)) /\ r \in LedgerRecords /\ RecordID(r) = RecordID(Legacy(given))
  BY <1>2, LegacyRecord DEF Recs
<1>4. CASE HasID(r) /\ RecordID(r) \in DOMAIN l.deleted
  <2>1. Insert(l, given, archived) = l
    BY <1>2, <1>4 DEF Insert
  <2> QED BY <2>1 DEF Entered, SameSettings
<1>5. CASE ~(HasID(r) /\ RecordID(r) \in DOMAIN l.deleted)
  <2>1. PICK v, a, c, dirty : /\ v = IF archived THEN l.visible ELSE Append(l.visible, r)
                              /\ a = IF archived THEN Append(l.archive, r) ELSE l.archive
                              /\ c = Counted(l.counters, r) /\ dirty = (l.dirty \/ Correlates(r))
    OBVIOUS
  <2>2. PICK b : b = [l EXCEPT !.visible = v, !.archive = a, !.counters = c, !.dirty = dirty]
    OBVIOUS
  <2>3. PICK q : q = Watched(b, r)
    OBVIOUS
  <2>4. PICK m : m = AddFact(q, r)
    OBVIOUS
  <2>5. m = Insert(l, given, archived)
    <3>1. Insert(l, given, archived) =
            AddFact(Watched([l EXCEPT
                        !.visible = IF archived THEN @ ELSE Append(@, r),
                        !.archive = IF archived THEN Append(@, r) ELSE @,
                        !.counters = Counted(@, r),
                        !.dirty = @ \/ Correlates(r)], r), r)
      BY <1>2, <1>5 DEF Insert
    <3> QED BY <2>1, <2>2, <2>3, <2>4, <3>1
  <2>6. /\ Append(l.visible, r) \in Seq(Recs(W)) /\ Append(l.archive, r) \in Seq(Recs(W))
        /\ Range(Append(l.visible, r)) = Range(l.visible) \cup {r}
        /\ Range(Append(l.archive, r)) = Range(l.archive) \cup {r}
        /\ l.visible \in Seq(Recs(W)) /\ l.archive \in Seq(Recs(W))
    BY <1>1, LedgerType, AppendRange
  <2>7. v \in Seq(Recs(W)) /\ a \in Seq(Recs(W)) /\ Range(v) \cup Range(a) = Range(Details(l)) \cup {r}
    <3>1. Range(Details(l)) = Range(l.visible) \cup Range(l.archive)
      BY <1>1, LedgerType
    <3>2. CASE archived
      BY <2>1, <2>6, <3>1, <3>2
    <3>3. CASE ~archived
      BY <2>1, <2>6, <3>1, <3>3
    <3> QED BY <3>2, <3>3
  <2>8. c \in Counters /\ dirty \in BOOLEAN
    <3>1. l.counters \in Counters /\ l.dirty \in BOOLEAN
      BY <1>1, LedgerType
    <3>2. c \in Counters
      BY <1>3, <2>1, <3>1, CountedType
    <3>3. Correlates(r) \in BOOLEAN
      BY DEF Correlates
    <3>4. dirty \in BOOLEAN
      BY <2>1, <3>1, <3>3, Zenon
    <3> QED BY <3>2, <3>4
  <2>9. /\ b \in Ledgers(W) /\ b.visible = v /\ b.archive = a /\ b.counters = c /\ b.cut = l.cut
        /\ b.deleted = l.deleted /\ b.facts = l.facts /\ b.expiry = l.expiry
        /\ b.retention = l.retention /\ b.repairing = l.repairing
    BY <1>1, <2>2, <2>7, <2>8 DEF Ledgers
  <2>10. q \in Ledgers(W) /\ ExpiryWatched(q, b, r)
    BY <2>3, <2>9, WatchedDoes
  <2>11. /\ q.visible = v /\ q.archive = a /\ q.counters = c /\ q.cut = l.cut
         /\ q.deleted = l.deleted /\ q.facts = l.facts
         /\ q.retention = l.retention /\ q.repairing = l.repairing
    BY <2>9, <2>10 DEF ExpiryWatched, Ledgers
  <2>12. m \in Ledgers(W) /\ FactAdded(m, q, r)
    BY <2>4, <2>10, AddFactDoes
  <2>13. /\ m.visible = v /\ m.archive = a /\ m.counters = c /\ m.cut = l.cut
         /\ m.deleted = l.deleted /\ m.expiry = q.expiry
         /\ m.retention = l.retention /\ m.repairing = l.repairing
    BY <2>10, <2>11, <2>12 DEF FactAdded, Ledgers
  <2>14. Range(Details(m)) = Range(Details(l)) \cup {r}
    BY <2>7, <2>12, <2>13, LedgerType
  <2>15. Balanced(v, a, c, l.cut)
    <3>1. OneMore(v, a, l.visible, l.archive, r)
      <4>1. ASSUME NEW w \in [LedgerRecords -> Nat]
            PROVE  Total(w, v) + Total(w, a) = (Total(w, l.visible) + Total(w, l.archive)) + w[r]
        <5>1. l.visible \in Seq(LedgerRecords) /\ l.archive \in Seq(LedgerRecords)
          BY <1>1, LedgerType
        <5>2. Total(w, Append(l.visible, r)) = Total(w, l.visible) + w[r]
              /\ Total(w, Append(l.archive, r)) = Total(w, l.archive) + w[r]
          BY <1>3, <5>1, TotalAppend
        <5>3. Total(w, l.visible) \in Nat /\ Total(w, l.archive) \in Nat /\ w[r] \in Nat
          BY <1>3, <5>1, TotalNat
        <5>4. CASE archived
          BY <2>1, <5>2, <5>3, <5>4
        <5>5. CASE ~archived
          BY <2>1, <5>2, <5>3, <5>5
        <5> QED BY <5>4, <5>5
      <4> QED BY <4>1 DEF OneMore
    <3>2. v \in Seq(LedgerRecords) /\ a \in Seq(LedgerRecords)
      BY <2>7, RecsType
    <3>3. l.visible \in Seq(LedgerRecords) /\ l.archive \in Seq(LedgerRecords) /\ l.counters \in Counters
          /\ l.cut \in SUBSET Truncated
      BY <1>1, LedgerType
    <3>4. Balanced(l.visible, l.archive, l.counters, l.cut)
      BY DEF Good
    <3> QED BY <1>3, <2>1, <3>1, <3>2, <3>3, <3>4, BalancedMore
  <2>16. ASSUME NEW s \in Range(Details(m)), Shown(s) PROVE CoveredBy(s, m.facts, m.deleted, weak)
    <3>1. CASE s = r
      <4>1. HasID(r) /\ r.x \in Eligible /\ RecordID(r) \notin DOMAIN l.deleted
        BY <1>3, <1>5, <2>16, <3>1 DEF Shown
      <4>2. RecordID(r) \in DOMAIN m.facts /\ m.facts[RecordID(r)] = r.doubled
        BY <1>3, <2>11, <2>12, <4>1 DEF FactAdded
      <4> QED BY <2>13, <3>1, <4>1, <4>2 DEF CoveredBy
    <3>2. CASE s # r
      <4>1. s \in Range(Details(l))
        BY <2>14, <3>2
      <4>2. CoveredBy(s, l.facts, l.deleted, weak)
        BY <2>16, <4>1 DEF Good, Covered
      <4>3. RecordID(s) \in DOMAIN m.facts
        BY <2>11, <2>12, <4>2 DEF FactAdded, CoveredBy
      <4>4. CASE weak
        BY <2>13, <4>2, <4>3, <4>4 DEF CoveredBy
      <4>5. CASE ~weak /\ RecordID(s) # RecordID(r)
        BY <1>3, <2>11, <2>12, <2>13, <4>2, <4>3, <4>5 DEF FactAdded, CoveredBy
      <4>6. CASE ~weak /\ RecordID(s) = RecordID(r)
        <5>1. s.doubled = r.doubled \/ r.x \notin Eligible
          BY <1>3, <4>1, <4>6 DEF Agrees
        <5>2. m = q \/ (m.facts[RecordID(r)] = r.doubled /\ r.x \in Eligible)
          BY <1>3, <2>12 DEF FactAdded
        <5> QED BY <2>11, <2>13, <4>2, <4>3, <4>6, <5>1, <5>2 DEF CoveredBy
      <4> QED BY <4>4, <4>5, <4>6
    <3> QED BY <3>1, <3>2
  <2>17. Good(m, W, weak)
    BY <2>12, <2>13, <2>15, <2>16 DEF Good, Covered
  <2>18. ASSUME Known(l) PROVE Known(m)
    <3>1. ASSUME m.retention > 0, NEW s \in Range(Details(m))
          PROVE  m.expiry # Unset /\ m.expiry <= At[s.x] + m.retention
      <4>1. q.expiry # Unset /\ q.expiry <= At[r.x] + l.retention /\ (l.expiry # Unset => q.expiry <= l.expiry)
        BY <2>9, <2>10, <2>13, <3>1 DEF ExpiryWatched
      <4>2. CASE s = r
        BY <2>13, <4>1, <4>2
      <4>3. CASE s # r
        <5>1. s \in Range(Details(l))
          BY <2>14, <4>3
        <5>2. l.expiry # Unset /\ l.expiry <= At[s.x] + l.retention
          BY <2>13, <2>18, <3>1, <5>1 DEF Known
        <5>3. q.expiry <= l.expiry /\ q.expiry \in Nat /\ l.expiry \in Nat
          BY <1>1, <2>10, <4>1, <5>2, LedgerType
        <5>4. At[s.x] \in Nat /\ l.retention \in Nat
          BY <1>1, <5>1, LedgerType, RecordTime
        <5>5. q.expiry <= At[s.x] + l.retention
          BY <5>2, <5>3, <5>4
        <5> QED BY <2>13, <4>1, <5>5
      <4> QED BY <4>2, <4>3
    <3> QED BY <3>1 DEF Known
  <2>19. Entered(m, l, given)
    BY <1>2, <2>13, <2>14 DEF Entered, SameSettings
  <2> QED BY <2>5, <2>17, <2>18, <2>19
<1> QED BY <1>4, <1>5

(* The records of m are among those of l. *)
Lessened(m, l) == SameSettings(m, l) /\ Range(Details(m)) \subseteq Range(Details(l))

LEMMA LessenedTwice ==
    ASSUME NEW m, NEW l, NEW k, Lessened(m, l), Lessened(l, k)
    PROVE  Lessened(m, k)
BY DEF Lessened, SameSettings

LEMMA TrimGood ==
    ASSUME NEW W, NEW weak \in BOOLEAN, NEW l, Good(l, W, weak)
    PROVE  /\ Good(Trim(l), W, weak) /\ Lessened(Trim(l), l) /\ Trim(l).deleted = l.deleted
           /\ Known(l) => Known(Trim(l))
<1>1. l \in Ledgers(W)
  BY DEF Good
<1>2. PICK v, a : v = l.visible /\ a = l.archive
  OBVIOUS
<1>3. /\ v \in Seq(Recs(W)) /\ a \in Seq(Recs(W)) /\ v \in Seq(LedgerRecords) /\ a \in Seq(LedgerRecords)
      /\ Range(Details(l)) = Range(v) \cup Range(a)
  BY <1>1, <1>2, LedgerType
<1>4. PICK over : over = Minus(Len(v), MaxVisible)
  OBVIOUS
<1>5. over \in 0 .. Len(v)
  <2>1. Len(v) \in Nat /\ MaxVisible \in Nat
    BY <1>3, LenProperties, LedgerAssumption
  <2>2. over \in Nat /\ over <= Len(v)
    BY <1>4, <2>1, MinusType
  <2> QED BY <2>1, <2>2
<1>6. PICK p, q : p = SubSeq(v, 1, over) /\ q = SubSeq(v, over + 1, Len(v))
  OBVIOUS
<1>7. p \in Seq(Recs(W)) /\ q \in Seq(Recs(W)) /\ Range(p) \cup Range(q) = Range(v)
  BY <1>3, <1>5, <1>6, Halves
<1>8. \A w \in [LedgerRecords -> Nat] : Total(w, p) + Total(w, q) = Total(w, v)
  BY <1>3, <1>5, <1>6, Halves
<1>9. PICK b : b = a \o p
  OBVIOUS
<1>10. b \in Seq(Recs(W)) /\ Range(b) = Range(a) \cup Range(p)
  BY <1>3, <1>7, <1>9, ConcatRange
<1>11. PICK m : m = Trim(l)
  OBVIOUS
<1>12. m = [l EXCEPT !.archive = b, !.visible = q]
  BY <1>2, <1>4, <1>6, <1>9, <1>11 DEF Trim
<1>13. /\ m \in Ledgers(W) /\ m.visible = q /\ m.archive = b /\ m.counters = l.counters /\ m.facts = l.facts
       /\ m.deleted = l.deleted /\ m.cut = l.cut /\ m.expiry = l.expiry
       /\ m.retention = l.retention /\ m.repairing = l.repairing
  BY <1>1, <1>7, <1>10, <1>12 DEF Ledgers
<1>14. Range(Details(m)) = Range(Details(l))
  <2>1. Range(Details(m)) = Range(q) \cup Range(b)
    BY <1>13, LedgerType
  <2> QED BY <1>3, <1>7, <1>10, <2>1
<1>15. SameTotals(q, b, v, a)
  <2>1. ASSUME NEW w \in [LedgerRecords -> Nat]
        PROVE  Total(w, q) + Total(w, b) = Total(w, v) + Total(w, a)
    <3>1. p \in Seq(LedgerRecords) /\ q \in Seq(LedgerRecords)
      BY <1>7, RecsType
    <3>2. Total(w, b) = Total(w, a) + Total(w, p) /\ Total(w, p) + Total(w, q) = Total(w, v)
      BY <1>3, <1>8, <1>9, <3>1, TotalConcat
    <3>3. Total(w, p) \in Nat /\ Total(w, q) \in Nat /\ Total(w, a) \in Nat
      BY <1>3, <3>1, TotalNat
    <3> QED BY <3>2, <3>3
  <2> QED BY <2>1 DEF SameTotals
<1>16. Balanced(q, b, l.counters, l.cut)
  <2>1. Balanced(v, a, l.counters, l.cut)
    BY <1>2 DEF Good
  <2> QED BY <1>15, <2>1, BalancedSame
<1>17. Good(m, W, weak)
  BY <1>13, <1>14, <1>16 DEF Good
<1>18. Known(l) => Known(m)
  BY <1>13, <1>14 DEF Known
<1> QED BY <1>11, <1>13, <1>14, <1>17, <1>18 DEF Lessened, SameSettings

(* m and l differ in the next expiry alone. *)
ExpiryOnly(m, l) == m = [l EXCEPT !.expiry = m.expiry]

(* The rounds of looking for the next expiry. *)
WatchRounds(s, D, o) ==
    \E f \in [0 .. Len(s) -> D] :
        /\ f[0] = o /\ Loop(Watched, o, s) = f[Len(s)]
        /\ \A n \in 1 .. Len(s) : f[n] = Watched(f[n - 1], s[n])

LEMMA WatchRoundsExist ==
    ASSUME NEW s, Len(s) \in Nat, NEW D, NEW o \in D,
           \A x \in D, n \in 1 .. Len(s) : Watched(x, s[n]) \in D
    PROVE  WatchRounds(s, D, o)
<1> DEFINE N == Len(s)
           F == [e \in D \X (1 .. N) |-> Watched(e[1], s[e[2]])]
           f == CHOOSE f : f = [n \in 0 .. N |-> IF n = 0 THEN o ELSE Watched(f[n - 1], s[n])]
<1>1. Loop(Watched, o, s) = f[N]
  BY DEF Loop
<1> HIDE DEF N
<1>2. F \in [D \X (1 .. N) -> D] /\ \A x \in D, n \in 1 .. N : F[<<x, n>>] = Watched(x, s[n])
  BY DEF N
<1> HIDE DEF F
<1>3. N \in Nat /\ \A n \in 0 .. N : n # 0 => n \in 1 .. N /\ n - 1 \in 0 .. N
  BY DEF N
<1>4. PICK g \in [0 .. N -> D] : RoundsOf(g, o, N, F)
  BY <1>2, <1>3, RoundsExist
<1>5. g[0] = o /\ \A n \in 1 .. N : g[n] = F[<<g[n - 1], n>>]
  BY <1>4 DEF RoundsOf
<1>6. \A n \in 0 .. N : g[n] = IF n = 0 THEN o ELSE Watched(g[n - 1], s[n])
  BY <1>2, <1>3, <1>5
<1>7. g = [n \in 0 .. N |-> IF n = 0 THEN o ELSE Watched(g[n - 1], s[n])]
  BY <1>6
<1>8. f = [n \in 0 .. N |-> IF n = 0 THEN o ELSE Watched(f[n - 1], s[n])]
  BY <1>7
<1> HIDE DEF f
<1>9. \A n \in 0 .. N : f[n] = IF n = 0 THEN o ELSE Watched(f[n - 1], s[n])
  BY <1>8
<1>10. ASSUME NEW n \in 1 .. N, f[n - 1] \in D PROVE f[n] \in D
  <2>1. f[n] = Watched(f[n - 1], s[n]) /\ n \in 1 .. Len(s)
    BY <1>3, <1>9 DEF N
  <2>2. Watched(f[n - 1], s[n]) \in D
    BY <1>10, <2>1
  <2> QED BY <2>1, <2>2
<1>11. f[0] \in D
  BY <1>3, <1>9
<1>12. \A n \in 0 .. N : f[n] \in D
  BY <1>3, <1>10, <1>11, RoundsKeep
<1>13. f = [n \in 0 .. N |-> f[n]]
  BY <1>8
<1>14. f \in [0 .. N -> D]
  BY <1>12, <1>13
<1>15. f[0] = o /\ \A n \in 1 .. N : f[n] = Watched(f[n - 1], s[n])
  BY <1>3, <1>9
<1> QED BY <1>1, <1>14, <1>15 DEF N, WatchRounds

LEMMA WatchAll ==
    ASSUME NEW W, NEW left \in Ledgers(W), NEW s \in Seq(Recs(W)), Range(Details(left)) \subseteq Range(s)
    PROVE  LET m == Loop(Watched, left, s)
           IN  m \in Ledgers(W) /\ ExpiryOnly(m, left) /\ Known(m)
<1> DEFINE D == {m \in Ledgers(W) : ExpiryOnly(m, left)}
<1>1. Len(s) \in Nat /\ DOMAIN s = 1 .. Len(s) /\ \A n \in 1 .. Len(s) : s[n] \in Recs(W)
  BY LenProperties, ElementOfSeq
<1>2. left \in D
  <2>1. ExpiryOnly(left, left)
    BY DEF Ledgers, ExpiryOnly
  <2> QED BY <2>1
<1>3. ASSUME NEW x \in D, NEW n \in 1 .. Len(s) PROVE Watched(x, s[n]) \in D
  <2>1. PICK y : y = Watched(x, s[n])
    OBVIOUS
  <2>2. y \in Ledgers(W) /\ y = [x EXCEPT !.expiry = y.expiry] /\ x \in Ledgers(W)
    BY <1>1, <2>1, WatchedDoes DEF ExpiryWatched
  <2>3. x = [left EXCEPT !.expiry = x.expiry]
    BY DEF ExpiryOnly
  <2>4. y = [left EXCEPT !.expiry = y.expiry]
    BY <2>2, <2>3 DEF Ledgers
  <2>5. ExpiryOnly(y, left)
    BY <2>4 DEF ExpiryOnly
  <2> QED BY <2>1, <2>2, <2>5
<1>4. \A x \in D : x \in Ledgers(W) /\ ExpiryOnly(x, left)
  OBVIOUS
<1> HIDE DEF D
<1>5. WatchRounds(s, D, left)
  BY <1>1, <1>2, <1>3, WatchRoundsExist
<1>6. PICK f \in [0 .. Len(s) -> D] :
         /\ f[0] = left /\ Loop(Watched, left, s) = f[Len(s)]
         /\ \A n \in 1 .. Len(s) : f[n] = Watched(f[n - 1], s[n])
  BY <1>5 DEF WatchRounds
<1>7. ASSUME NEW x \in D
      PROVE  x.retention = left.retention /\ x.visible = left.visible /\ x.archive = left.archive
  BY <1>4 DEF Ledgers, ExpiryOnly
<1> DEFINE T == {n \in Nat : left.retention > 0 => \A i \in 1 .. n :
                    f[n].expiry # Unset /\ f[n].expiry <= At[s[i].x] + left.retention}
<1>8. 0 \in T
  OBVIOUS
<1>9. ASSUME NEW n \in 0 .. Len(s) - 1, n \in T PROVE n + 1 \in T
  <2>1. n + 1 \in 1 .. Len(s) /\ n \in 0 .. Len(s) /\ (n + 1) - 1 = n /\ n + 1 \in Nat /\ n + 1 \in 0 .. Len(s)
    BY <1>1
  <2>2. PICK x, y, r : x = f[n] /\ y = f[n + 1] /\ r = s[n + 1]
    OBVIOUS
  <2>3. x \in Ledgers(W) /\ y \in Ledgers(W) /\ r \in Recs(W) /\ y = Watched(x, r) /\ x.retention = left.retention
    BY <1>1, <1>4, <1>6, <1>7, <2>1, <2>2
  <2>4. ExpiryWatched(y, x, r)
    BY <2>3, WatchedDoes
  <2>5. ASSUME left.retention > 0, NEW i \in 1 .. n + 1
        PROVE  y.expiry # Unset /\ y.expiry <= At[s[i].x] + left.retention
    <3>1. y.expiry # Unset /\ y.expiry <= At[r.x] + left.retention /\ (x.expiry # Unset => y.expiry <= x.expiry)
      BY <2>3, <2>4, <2>5 DEF ExpiryWatched
    <3>2. CASE i = n + 1
      BY <2>2, <3>1, <3>2
    <3>3. CASE i # n + 1
      <4>1. i \in 1 .. n /\ i \in 1 .. Len(s)
        BY <2>1, <3>3
      <4>2. x.expiry # Unset /\ x.expiry <= At[s[i].x] + left.retention
        BY <1>9, <2>2, <2>5, <4>1
      <4>3. y.expiry \in Nat /\ x.expiry \in Nat /\ left.retention \in Nat
        BY <2>3, <3>1, <4>2, LedgerType
      <4>4. At[s[i].x] \in Nat
        BY <1>1, <4>1, RecordTime
      <4> QED BY <3>1, <4>2, <4>3, <4>4
    <3> QED BY <3>2, <3>3
  <2> QED BY <2>1, <2>2, <2>5
<1> HIDE DEF T
<1>10. \A n \in 0 .. Len(s) : n \in T
  BY <1>1, <1>8, <1>9, RoundInduction
<1>11. PICK m : m = f[Len(s)]
  OBVIOUS
<1>12. m \in D /\ Len(s) \in T
  BY <1>1, <1>6, <1>10, <1>11
<1>13. ASSUME left.retention > 0, NEW r \in Range(s)
       PROVE  m.expiry # Unset /\ m.expiry <= At[r.x] + left.retention
  <2>1. PICK i \in 1 .. Len(s) : r = s[i]
    BY <1>1 DEF Range
  <2> QED BY <1>11, <1>12, <1>13, <2>1 DEF T
<1>14. Details(m) = Details(left) /\ m.retention = left.retention
  BY <1>7, <1>12 DEF Details
<1>15. Known(m)
  BY <1>13, <1>14 DEF Known
<1> QED BY <1>4, <1>6, <1>11, <1>12, <1>15

LEMMA PrunedGood ==
    ASSUME NEW W, NEW weak \in BOOLEAN, clock \in Int, NEW l, Good(l, W, weak), NEW sorting \in BOOLEAN
    PROVE  /\ Good(Pruned(l, sorting), W, weak) /\ Lessened(Pruned(l, sorting), l)
           /\ Pruned(l, sorting).deleted = l.deleted /\ Known(Pruned(l, sorting))
<1>1. l \in Ledgers(W)
  BY DEF Good
<1>2. PICK old : old = {r \in Range(Details(l)) : l.retention > 0 /\ At[r.x] < clock - l.retention}
  OBVIOUS
<1>3. PICK a, v, ga, gv : /\ a = Besides(l.archive, old) /\ v = Besides(l.visible, old)
                          /\ ga = Only(l.archive, old) /\ gv = Only(l.visible, old)
  OBVIOUS
<1>4. PICK gone : gone = ga \o gv
  OBVIOUS
<1>5. PICK u : u = IF sorting THEN Sorted(v) ELSE v
  OBVIOUS
<1>6. PICK c : c = UncountedAll(l.counters, gone)
  OBVIOUS
<1>7. PICK left : left = [l EXCEPT !.archive = a, !.counters = c, !.expiry = Unset, !.visible = u]
  OBVIOUS
<1>8. Pruned(l, sorting) = Trim(Loop(Watched, left, a \o v))
  BY <1>2, <1>3, <1>4, <1>5, <1>6, <1>7 DEF Pruned
<1>9. /\ l.visible \in Seq(Recs(W)) /\ l.archive \in Seq(Recs(W)) /\ l.visible \in Seq(LedgerRecords)
      /\ l.archive \in Seq(LedgerRecords) /\ l.counters \in Counters /\ l.cut \in SUBSET Truncated
      /\ Range(Details(l)) = Range(l.visible) \cup Range(l.archive)
  BY <1>1, LedgerType
<1>10. /\ a \in Seq(Recs(W)) /\ v \in Seq(Recs(W)) /\ ga \in Seq(Recs(W)) /\ gv \in Seq(Recs(W))
       /\ Range(a) \subseteq Range(l.archive) /\ Range(v) \subseteq Range(l.visible)
  <2>1. a \in Seq(Recs(W)) /\ Range(a) \subseteq Range(l.archive)
    BY <1>3, <1>9, BesidesKeeps
  <2>2. v \in Seq(Recs(W)) /\ Range(v) \subseteq Range(l.visible)
    BY <1>3, <1>9, BesidesKeeps
  <2>3. ga \in Seq(Recs(W)) /\ gv \in Seq(Recs(W))
    BY <1>3, <1>9, OnlyKeeps
  <2> QED BY <2>1, <2>2, <2>3
<1>11. a \in Seq(LedgerRecords) /\ v \in Seq(LedgerRecords) /\ ga \in Seq(LedgerRecords) /\ gv \in Seq(LedgerRecords)
  BY <1>10, RecsType
<1>12. gone \in Seq(LedgerRecords) /\ \A w \in [LedgerRecords -> Nat] : Total(w, gone) = Total(w, ga) + Total(w, gv)
  BY <1>4, <1>11, ConcatProperties, TotalConcat
<1>13. /\ u \in Seq(Recs(W)) /\ Range(u) \subseteq Range(v) /\ u \in Seq(LedgerRecords)
       /\ \A w \in [LedgerRecords -> Nat] : Total(w, u) = Total(w, v)
  <2>1. CASE sorting
    <3>1. Sorted(v) \in Seq(Recs(W)) /\ Range(Sorted(v)) \subseteq Range(v)
      BY <1>10, SortedKeeps
    <3>2. Sorted(v) \in Seq(LedgerRecords) /\ \A w \in [LedgerRecords -> Nat] : Total(w, Sorted(v)) = Total(w, v)
      BY <1>11, SortedKeeps
    <3> QED BY <1>5, <2>1, <3>1, <3>2
  <2>2. CASE ~sorting
    BY <1>5, <1>10, <1>11, <2>2
  <2> QED BY <2>1, <2>2
<1>14. c \in Counters
  BY <1>6, <1>9, <1>12, UncountedAllType
<1>15. /\ left \in Ledgers(W) /\ left.visible = u /\ left.archive = a /\ left.counters = c
       /\ left.facts = l.facts /\ left.deleted = l.deleted /\ left.cut = l.cut
       /\ left.retention = l.retention /\ left.repairing = l.repairing
  BY <1>1, <1>7, <1>10, <1>13, <1>14 DEF Ledgers
<1>16. Range(Details(left)) = Range(u) \cup Range(a)
  BY <1>15, LedgerType
<1>17. SoManyLess(u, a, l.visible, l.archive, gone)
  <2>1. ASSUME NEW w \in [LedgerRecords -> Nat]
        PROVE  (Total(w, u) + Total(w, a)) + Total(w, gone) = Total(w, l.visible) + Total(w, l.archive)
    <3>1. Total(w, ga) + Total(w, a) = Total(w, l.archive) /\ Total(w, gv) + Total(w, v) = Total(w, l.visible)
      BY <1>3, <1>9, TotalSplit
    <3>2. Total(w, ga) \in Nat /\ Total(w, a) \in Nat /\ Total(w, gv) \in Nat /\ Total(w, v) \in Nat
      BY <1>11, TotalNat
    <3>3. Total(w, gone) = Total(w, ga) + Total(w, gv) /\ Total(w, u) = Total(w, v)
      BY <1>12, <1>13
    <3> QED BY <3>1, <3>2, <3>3
  <2> QED BY <2>1 DEF SoManyLess
<1>18. Balanced(u, a, c, l.cut)
  <2>1. Balanced(l.visible, l.archive, l.counters, l.cut)
    BY DEF Good
  <2> QED BY <1>6, <1>9, <1>11, <1>12, <1>13, <1>17, <2>1, BalancedLess
<1>19. PICK s : s = a \o v
  OBVIOUS
<1>20. s \in Seq(Recs(W)) /\ Range(s) = Range(a) \cup Range(v)
  BY <1>10, <1>19, ConcatRange
<1>21. PICK m : m = Loop(Watched, left, s)
  OBVIOUS
<1>22. m \in Ledgers(W) /\ ExpiryOnly(m, left) /\ Known(m)
  BY <1>13, <1>15, <1>16, <1>20, <1>21, WatchAll
<1>23. /\ m.visible = u /\ m.archive = a /\ m.counters = c /\ m.facts = l.facts /\ m.deleted = l.deleted
       /\ m.cut = l.cut /\ m.retention = l.retention /\ m.repairing = l.repairing
  BY <1>15, <1>22 DEF Ledgers, ExpiryOnly
<1>24. Range(Details(m)) \subseteq Range(Details(l))
  <2>1. Range(Details(m)) = Range(u) \cup Range(a)
    BY <1>22, <1>23, LedgerType
  <2> QED BY <1>9, <1>10, <1>13, <2>1
<1>25. Covered(Range(Details(m)), m.facts, m.deleted, weak)
  <2>1. Covered(Range(Details(l)), l.facts, l.deleted, weak)
    BY DEF Good
  <2> QED BY <1>23, <1>24, <2>1, CoveredStill
<1>26. Good(m, W, weak)
  BY <1>18, <1>22, <1>23, <1>25 DEF Good
<1>27. Lessened(m, l)
  BY <1>23, <1>24 DEF Lessened, SameSettings
<1>28. Pruned(l, sorting) = Trim(m)
  BY <1>8, <1>19, <1>21
<1>29. Good(Trim(m), W, weak) /\ Lessened(Trim(m), m) /\ Trim(m).deleted = m.deleted /\ Known(Trim(m))
  BY <1>22, <1>26, TrimGood
<1> QED BY <1>23, <1>27, <1>28, <1>29, LessenedTwice

LEMMA PruneExpiredGood ==
    ASSUME NEW W, NEW weak \in BOOLEAN, clock \in Int, NEW l, Good(l, W, weak)
    PROVE  /\ Good(PruneExpired(l), W, weak) /\ Lessened(PruneExpired(l), l)
           /\ Known(l) => Known(PruneExpired(l))
<1>1. CASE PruneExpired(l) = l
  BY <1>1 DEF Lessened, SameSettings
<1>2. CASE PruneExpired(l) = Pruned(l, FALSE)
  <2>1. PICK sorting \in BOOLEAN : sorting = FALSE
    OBVIOUS
  <2> QED BY <1>2, <2>1, PrunedGood
<1> QED BY <1>1, <1>2 DEF PruneExpired

(* What the removal of "gone" from v and a, and from the counters, leaves. *)
PartsLeft(W, v, a, c, cut, gone) ==
    LET u == Besides(v, gone)
        b == Besides(a, gone)
        d == UncountedAll(c, Only(v \o a, gone))
    IN  /\ u \in Seq(Recs(W)) /\ b \in Seq(Recs(W)) /\ d \in Counters
        /\ Range(u) \subseteq Range(v) \ gone /\ Range(b) \subseteq Range(a) \ gone
        /\ Balanced(v, a, c, cut) => Balanced(u, b, d, cut)

LEMMA PartsLeftAre ==
    ASSUME NEW W, NEW v \in Seq(Recs(W)), NEW a \in Seq(Recs(W)), NEW c \in Counters,
           NEW cut \in SUBSET Truncated, NEW gone
    PROVE  PartsLeft(W, v, a, c, cut, gone)
<1>1. PICK u, b, g : u = Besides(v, gone) /\ b = Besides(a, gone) /\ g = Only(v \o a, gone)
  OBVIOUS
<1>2. u \in Seq(Recs(W)) /\ Range(u) \subseteq Range(v) \ gone
  BY <1>1, BesidesKeeps
<1>3. b \in Seq(Recs(W)) /\ Range(b) \subseteq Range(a) \ gone
  BY <1>1, BesidesKeeps
<1>4. v \in Seq(LedgerRecords) /\ a \in Seq(LedgerRecords) /\ u \in Seq(LedgerRecords) /\ b \in Seq(LedgerRecords)
  BY <1>2, <1>3, RecsType
<1>5. v \o a \in Seq(LedgerRecords)
  BY <1>4, ConcatProperties
<1>6. g \in Seq(LedgerRecords)
  BY <1>1, <1>5, OnlyKeeps
<1>7. UncountedAll(c, g) \in Counters
  BY <1>6, UncountedAllType
<1>8. SoManyLess(u, b, v, a, g)
  <2>1. ASSUME NEW w \in [LedgerRecords -> Nat]
        PROVE  (Total(w, u) + Total(w, b)) + Total(w, g) = Total(w, v) + Total(w, a)
    <3>1. PICK p, q : p = Only(v, gone) /\ q = Only(a, gone)
      OBVIOUS
    <3>2. Total(w, g) = Total(w, p) + Total(w, q)
      <4>1. PicksAddUp(w, v, a, gone)
        BY <1>4, TotalOnlyConcat
      <4> QED BY <1>1, <3>1, <4>1 DEF PicksAddUp
    <3>3. Total(w, p) + Total(w, u) = Total(w, v) /\ Total(w, q) + Total(w, b) = Total(w, a)
      BY <1>1, <1>4, <3>1, TotalSplit
    <3>4. p \in Seq(LedgerRecords) /\ q \in Seq(LedgerRecords)
      BY <1>4, <3>1, OnlyKeeps
    <3>5. Total(w, p) \in Nat /\ Total(w, q) \in Nat /\ Total(w, u) \in Nat /\ Total(w, b) \in Nat
      BY <1>4, <3>4, TotalNat
    <3> QED BY <3>2, <3>3, <3>5
  <2> QED BY <2>1 DEF SoManyLess
<1>9. Balanced(v, a, c, cut) => Balanced(u, b, UncountedAll(c, g), cut)
  BY <1>4, <1>6, <1>8, BalancedLess
<1> QED BY <1>1, <1>2, <1>3, <1>7, <1>9 DEF PartsLeft

(* m is l without "gone". *)
Removed(m, l, gone) ==
    /\ SameSettings(m, l) /\ m.facts = l.facts /\ m.deleted = l.deleted
    /\ Range(Details(m)) \subseteq Range(Details(l)) \ gone
    /\ Balanced(l.visible, l.archive, l.counters, l.cut) => Balanced(m.visible, m.archive, m.counters, m.cut)
    /\ Known(l) => Known(m)

LEMMA RemoveAllDoes ==
    ASSUME NEW W, NEW l \in Ledgers(W), NEW gone
    PROVE  RemoveAll(l, gone) \in Ledgers(W) /\ Removed(RemoveAll(l, gone), l, gone)
<1>1. /\ l.visible \in Seq(Recs(W)) /\ l.archive \in Seq(Recs(W)) /\ l.counters \in Counters
      /\ l.cut \in SUBSET Truncated /\ Range(Details(l)) = Range(l.visible) \cup Range(l.archive)
  BY LedgerType
<1>2. PICK u, b, d : u = Besides(l.visible, gone) /\ b = Besides(l.archive, gone)
                     /\ d = UncountedAll(l.counters, Only(Details(l), gone))
  OBVIOUS
<1>3. PartsLeft(W, l.visible, l.archive, l.counters, l.cut, gone)
  BY <1>1, PartsLeftAre
<1>4. /\ u \in Seq(Recs(W)) /\ b \in Seq(Recs(W)) /\ d \in Counters
      /\ Range(u) \subseteq Range(l.visible) \ gone /\ Range(b) \subseteq Range(l.archive) \ gone
      /\ Balanced(l.visible, l.archive, l.counters, l.cut) => Balanced(u, b, d, l.cut)
  BY <1>2, <1>3 DEF PartsLeft, Details
<1>5. PICK m : m = RemoveAll(l, gone)
  OBVIOUS
<1>6. m = [l EXCEPT !.visible = u, !.archive = b, !.counters = d]
  BY <1>2, <1>5 DEF RemoveAll
<1>7. /\ m \in Ledgers(W) /\ m.visible = u /\ m.archive = b /\ m.counters = d /\ m.facts = l.facts
      /\ m.deleted = l.deleted /\ m.cut = l.cut /\ m.expiry = l.expiry
      /\ m.retention = l.retention /\ m.repairing = l.repairing
  BY <1>4, <1>6 DEF Ledgers
<1>8. Range(Details(m)) = Range(u) \cup Range(b)
  BY <1>7, LedgerType
<1>9. Range(Details(m)) \subseteq Range(Details(l)) \ gone
  BY <1>1, <1>4, <1>8
<1>10. Known(l) => Known(m)
  BY <1>7, <1>9 DEF Known
<1> QED BY <1>4, <1>5, <1>7, <1>9, <1>10 DEF Removed, SameSettings

(* m is l with tombstones for ids in the place of facts. *)
IsBuried(m, l, ids) ==
    /\ SameSettings(m, l) /\ Left(m.facts, l.facts, ids) /\ DOMAIN m.deleted = DOMAIN l.deleted \cup ids
    /\ m.visible = l.visible /\ m.archive = l.archive /\ m.counters = l.counters /\ m.expiry = l.expiry

LEMMA BuriedDoes ==
    ASSUME NEW W, NEW l \in Ledgers(W), NEW ids, ids \subseteq Ids
    PROVE  Buried(l, ids) \in Ledgers(W) /\ IsBuried(Buried(l, ids), l, ids)
<1>1. l.facts \in Facts /\ l.deleted \in Tombs
  BY LedgerType
<1>2. PICK I : I = DOMAIN l.deleted \cup ids
  OBVIOUS
<1>3. I \in SUBSET Ids
  BY <1>1, <1>2, TombsAre
<1>4. PICK g, f : g = [i \in I |-> At[i[1]]] /\ f = Without(l.facts, ids)
  OBVIOUS
<1>5. f \in Facts /\ Left(f, l.facts, ids)
  BY <1>1, <1>4, FactsWithout
<1>6. ASSUME NEW i \in I PROVE At[i[1]] \in Nat
  <2>1. i[1] \in Items
    BY <1>3 DEF Ids
  <2> QED BY <2>1, LedgerAssumption
<1>7. g \in [I -> Nat]
  BY <1>4, <1>6
<1>8. g \in Tombs /\ DOMAIN g = I
  BY <1>3, <1>7 DEF Tombs
<1>9. PICK m : m = Buried(l, ids)
  OBVIOUS
<1>10. m = [l EXCEPT !.facts = f, !.deleted = g]
  BY <1>2, <1>4, <1>9 DEF Buried
<1>11. /\ m \in Ledgers(W) /\ m.visible = l.visible /\ m.archive = l.archive /\ m.counters = l.counters
       /\ m.facts = f /\ m.deleted = g /\ m.cut = l.cut /\ m.expiry = l.expiry
       /\ m.retention = l.retention /\ m.repairing = l.repairing
  BY <1>5, <1>8, <1>10 DEF Ledgers
<1> QED BY <1>2, <1>5, <1>8, <1>9, <1>11 DEF IsBuried, SameSettings

(* What is left of l when the records of "ids" leave. *)
Deleted(m, l, W, weak, ids) ==
    /\ Good(m, W, weak) /\ Lessened(m, l) /\ DOMAIN m.deleted = DOMAIN l.deleted \cup ids
    /\ Left(m.facts, l.facts, ids)
    /\ Known(l) => Known(m)

(* Records that leave with a tombstone: all those under a buried identity. *)
LEMMA BuriedGood ==
    ASSUME NEW W, NEW weak \in BOOLEAN, NEW l, Good(l, W, weak), NEW ids, ids \subseteq Ids, NEW gone,
           \A r \in Range(Details(l)) \ gone : HasID(r) => RecordID(r) \notin ids
    PROVE  Deleted(RemoveAll(Buried(l, ids), gone), l, W, weak, ids)
<1>1. l \in Ledgers(W)
  BY DEF Good
<1>2. PICK b : b = Buried(l, ids)
  OBVIOUS
<1>3. b \in Ledgers(W) /\ IsBuried(b, l, ids)
  BY <1>1, <1>2, BuriedDoes
<1>4. PICK m : m = RemoveAll(b, gone)
  OBVIOUS
<1>5. m \in Ledgers(W) /\ Removed(m, b, gone)
  BY <1>3, <1>4, RemoveAllDoes
<1>6. Details(b) = Details(l) /\ b.cut = l.cut /\ b.retention = l.retention
  BY <1>3 DEF IsBuried, Details, SameSettings
<1>7. Range(Details(m)) \subseteq Range(Details(l)) \ gone
  BY <1>5, <1>6 DEF Removed
<1>8. Left(m.facts, l.facts, ids) /\ DOMAIN m.deleted = DOMAIN l.deleted \cup ids
  BY <1>3, <1>5 DEF Removed, IsBuried
<1>9. Balanced(m.visible, m.archive, m.counters, m.cut)
  <2>1. Balanced(b.visible, b.archive, b.counters, b.cut)
    BY <1>3, <1>6 DEF IsBuried, Good
  <2> QED BY <1>5, <2>1 DEF Removed
<1>10. ASSUME NEW r \in Range(Details(m)), Shown(r) PROVE CoveredBy(r, m.facts, m.deleted, weak)
  <2>1. CoveredBy(r, l.facts, l.deleted, weak)
    BY <1>7, <1>10 DEF Good, Covered
  <2>2. RecordID(r) \notin ids
    BY <1>7, <2>1 DEF CoveredBy
  <2> QED BY <1>8, <2>1, <2>2 DEF CoveredBy, Left
<1>11. Good(m, W, weak)
  BY <1>5, <1>9, <1>10 DEF Good, Covered
<1>12. Lessened(m, l)
  BY <1>3, <1>5, <1>7 DEF Removed, IsBuried, Lessened, SameSettings
<1>13. Known(l) => Known(m)
  <2>1. Known(l) => Known(b)
    BY <1>3, <1>6 DEF Known, IsBuried
  <2> QED BY <1>5, <2>1 DEF Removed
<1> QED BY <1>2, <1>4, <1>8, <1>11, <1>12, <1>13 DEF Deleted

LEMMA RetractGood ==
    ASSUME NEW W, NEW weak \in BOOLEAN, NEW l, Good(l, W, weak), NEW of
    PROVE  LET m == Retract(l, Superseded(Range(Details(l)), of))
           IN  Good(m, W, weak) /\ Lessened(m, l) /\ (Known(l) => Known(m))
<1>1. PICK gone : gone = Superseded(Range(Details(l)), of)
  OBVIOUS
<1>2. PICK ids : ids = {RecordID(r) : r \in {s \in gone : HasID(s)}}
  OBVIOUS
<1>3. gone \subseteq Recs(W)
  BY <1>1, LedgerType DEF Superseded, Good
<1>4. ids \subseteq Ids
  BY <1>2, <1>3, LedgerRecs
<1>5. ASSUME NEW r \in Range(Details(l)) \ gone, HasID(r), RecordID(r) \in ids PROVE FALSE
  <2>1. PICK s \in gone : RecordID(r) = RecordID(s)
    BY <1>2, <1>5
  <2>2. s.x = r.x
    BY <2>1 DEF RecordID
  <2> QED BY <1>1, <1>5, <2>2 DEF Superseded
<1>6. Retract(l, gone) = RemoveAll(Buried(l, ids), gone)
  BY <1>2 DEF Retract
<1>7. \A r \in Range(Details(l)) \ gone : HasID(r) => RecordID(r) \notin ids
  BY <1>5
<1>8. PICK m : m = RemoveAll(Buried(l, ids), gone)
  OBVIOUS
<1>9. Good(m, W, weak) /\ Lessened(m, l) /\ (Known(l) => Known(m))
  BY <1>4, <1>7, <1>8, BuriedGood DEF Deleted
<1> QED BY <1>1, <1>6, <1>8, <1>9

LEMMA ReconcileGood ==
    ASSUME NEW W, NEW weak \in BOOLEAN, clock \in Int, NEW l, Good(l, W, weak)
    PROVE  /\ Good(Reconcile(l), W, weak) /\ Lessened(Reconcile(l), l)
           /\ Known(l) => Known(Reconcile(l))
<1>1. l \in Ledgers(W)
  BY DEF Good
<1>2. PICK b : b = [l EXCEPT !.dirty = FALSE]
  OBVIOUS
<1>3. /\ b \in Ledgers(W) /\ b.visible = l.visible /\ b.archive = l.archive /\ b.counters = l.counters
      /\ b.facts = l.facts /\ b.deleted = l.deleted /\ b.cut = l.cut /\ b.expiry = l.expiry
      /\ b.retention = l.retention /\ b.repairing = l.repairing
  BY <1>1, <1>2 DEF Ledgers
<1>4. Details(b) = Details(l)
  BY <1>3 DEF Details
<1>5. Good(b, W, weak) /\ Lessened(b, l) /\ (Known(l) => Known(b))
  BY <1>3, <1>4 DEF Good, Lessened, SameSettings, Known
<1>6. PICK gone : gone = Superseded(Range(Details(b)), NativeOf)
  OBVIOUS
<1>7. Reconcile(l) = IF gone = {} THEN b ELSE Prune(Retract(b, gone))
  BY <1>2, <1>4, <1>6 DEF Reconcile
<1>8. PICK m : m = Retract(b, gone)
  OBVIOUS
<1>9. Good(m, W, weak) /\ Lessened(m, b)
  BY <1>5, <1>6, <1>8, RetractGood
<1>10. PICK sorting \in BOOLEAN : sorting = TRUE
  OBVIOUS
<1>11. Good(Pruned(m, sorting), W, weak) /\ Lessened(Pruned(m, sorting), m) /\ Known(Pruned(m, sorting))
  BY <1>9, PrunedGood
<1>12. Good(Prune(m), W, weak) /\ Lessened(Prune(m), m) /\ Known(Prune(m))
  BY <1>10, <1>11 DEF Prune
<1>13. Lessened(Prune(m), l)
  BY <1>5, <1>9, <1>12, LessenedTwice
<1> QED BY <1>5, <1>7, <1>8, <1>12, <1>13

LEMMA PruneGood ==
    ASSUME NEW W, NEW weak \in BOOLEAN, clock \in Int, NEW l, Good(l, W, weak)
    PROVE  Good(Prune(l), W, weak) /\ Lessened(Prune(l), l) /\ Known(Prune(l))
<1>1. PICK sorting \in BOOLEAN : sorting = TRUE
  OBVIOUS
<1>2. Good(Pruned(l, sorting), W, weak) /\ Lessened(Pruned(l, sorting), l) /\ Known(Pruned(l, sorting))
  BY PrunedGood
<1> QED BY <1>1, <1>2 DEF Prune

LEMMA DropCopiesGood ==
    ASSUME NEW W, NEW weak \in BOOLEAN, NEW l, Good(l, W, weak)
    PROVE  /\ Good(DropCopies(l), W, weak) /\ Lessened(DropCopies(l), l)
           /\ Known(l) => Known(DropCopies(l))
BY RetractGood DEF DropCopies

-----------------------------------------------------------------------------
(* The repair of doubled records.                                          *)

Repairs(W) == [r : {q \in Recs(W) : q.doubled = FALSE}, archived : BOOLEAN]

LEMMA AgainType ==
    ASSUME NEW W, NEW rs \in Seq(Recs(W)), NEW archived \in BOOLEAN
    PROVE  Again(rs, archived) \in Seq(Repairs(W)) /\ Len(Again(rs, archived)) = Len(rs)
<1>1. PICK n \in Nat : n = Len(rs) /\ DOMAIN rs = 1 .. n
  BY LenProperties
<1>2. \A i \in 1 .. n : rs[i] \in Recs(W)
  BY <1>1, ElementOfSeq
<1>3. ASSUME NEW r \in Recs(W) PROVE [r |-> [r EXCEPT !.doubled = FALSE], archived |-> archived] \in Repairs(W)
  <2>1. [r EXCEPT !.doubled = FALSE] \in Recs(W)
    BY LedgerRecs
  <2>2. [r EXCEPT !.doubled = FALSE].doubled = FALSE
    BY DEF Recs, LedgerRecords
  <2> QED BY <2>1, <2>2 DEF Repairs
<1>4. Again(rs, archived) = [i \in 1 .. n |-> [r |-> [rs[i] EXCEPT !.doubled = FALSE], archived |-> archived]]
  BY <1>1 DEF Again
<1>5. Again(rs, archived) \in [1 .. n -> Repairs(W)]
  BY <1>2, <1>3, <1>4
<1> QED BY <1>1, <1>5

LEMMA ReverseType ==
    ASSUME NEW X, NEW s \in Seq(X)
    PROVE  Reverse(s) \in Seq(X)
<1>1. PICK n \in Nat : n = Len(s)
  BY LenProperties
<1>2. \A i \in 1 .. n : (n - i) + 1 \in 1 .. n /\ s[(n - i) + 1] \in X
  BY <1>1, ElementOfSeq
<1>3. Reverse(s) = [i \in 1 .. n |-> s[(n - i) + 1]]
  BY <1>1 DEF Reverse
<1>4. Reverse(s) \in [1 .. n -> X]
  BY <1>2, <1>3
<1> QED BY <1>4

(* The rounds of recording entries. *)
EntryRounds(s, D, o) ==
    \E f \in [0 .. Len(s) -> D] :
        /\ f[0] = o /\ Loop(InsertEntry, o, s) = f[Len(s)]
        /\ \A n \in 1 .. Len(s) : f[n] = InsertEntry(f[n - 1], s[n])

LEMMA EntryRoundsExist ==
    ASSUME NEW s, Len(s) \in Nat, NEW D, NEW o \in D,
           \A x \in D, n \in 1 .. Len(s) : InsertEntry(x, s[n]) \in D
    PROVE  EntryRounds(s, D, o)
<1> DEFINE N == Len(s)
           F == [e \in D \X (1 .. N) |-> InsertEntry(e[1], s[e[2]])]
           f == CHOOSE f : f = [n \in 0 .. N |-> IF n = 0 THEN o ELSE InsertEntry(f[n - 1], s[n])]
<1>1. Loop(InsertEntry, o, s) = f[N]
  BY DEF Loop
<1> HIDE DEF N
<1>2. F \in [D \X (1 .. N) -> D] /\ \A x \in D, n \in 1 .. N : F[<<x, n>>] = InsertEntry(x, s[n])
  BY DEF N
<1> HIDE DEF F
<1>3. N \in Nat /\ \A n \in 0 .. N : n # 0 => n \in 1 .. N /\ n - 1 \in 0 .. N
  BY DEF N
<1>4. PICK g \in [0 .. N -> D] : RoundsOf(g, o, N, F)
  BY <1>2, <1>3, RoundsExist
<1>5. g[0] = o /\ \A n \in 1 .. N : g[n] = F[<<g[n - 1], n>>]
  BY <1>4 DEF RoundsOf
<1>6. \A n \in 0 .. N : g[n] = IF n = 0 THEN o ELSE InsertEntry(g[n - 1], s[n])
  BY <1>2, <1>3, <1>5
<1>7. g = [n \in 0 .. N |-> IF n = 0 THEN o ELSE InsertEntry(g[n - 1], s[n])]
  BY <1>6
<1>8. f = [n \in 0 .. N |-> IF n = 0 THEN o ELSE InsertEntry(f[n - 1], s[n])]
  BY <1>7
<1> HIDE DEF f
<1>9. \A n \in 0 .. N : f[n] = IF n = 0 THEN o ELSE InsertEntry(f[n - 1], s[n])
  BY <1>8
<1>10. ASSUME NEW n \in 1 .. N, f[n - 1] \in D PROVE f[n] \in D
  <2>1. f[n] = InsertEntry(f[n - 1], s[n]) /\ n \in 1 .. Len(s)
    BY <1>3, <1>9 DEF N
  <2>2. InsertEntry(f[n - 1], s[n]) \in D
    BY <1>10, <2>1
  <2> QED BY <2>1, <2>2
<1>11. f[0] \in D
  BY <1>3, <1>9
<1>12. \A n \in 0 .. N : f[n] \in D
  BY <1>3, <1>10, <1>11, RoundsKeep
<1>13. f = [n \in 0 .. N |-> f[n]]
  BY <1>8
<1>14. f \in [0 .. N -> D]
  BY <1>12, <1>13
<1>15. f[0] = o /\ \A n \in 1 .. N : f[n] = InsertEntry(f[n - 1], s[n])
  BY <1>3, <1>9
<1> QED BY <1>1, <1>14, <1>15 DEF N, EntryRounds

(* Facts that are all repaired. *)
AllRepaired(facts) == [i \in DOMAIN facts |-> FALSE]

LEMMA AllRepairedType ==
    ASSUME NEW f \in Facts
    PROVE  AllRepaired(f) \in Facts /\ DOMAIN AllRepaired(f) = DOMAIN f /\ \A i \in DOMAIN f : AllRepaired(f)[i] = FALSE
<1>1. PICK I \in SUBSET Ids : I = DOMAIN f
  BY FactsAre
<1>2. PICK g : g = [i \in I |-> FALSE]
  OBVIOUS
<1>3. g \in [I -> BOOLEAN] /\ DOMAIN g = I /\ \A i \in I : g[i] = FALSE
  BY <1>2
<1>4. AllRepaired(f) = g
  BY <1>1, <1>2 DEF AllRepaired
<1> QED BY <1>1, <1>3, <1>4 DEF Facts

LEMMA RepairDoubledGood ==
    ASSUME NEW W, NEW l, Good(l, W, l.repairing)
    PROVE  Good(RepairDoubled(l), W, FALSE) /\ SameSettings(RepairDoubled(l), l)
<1>1. l \in Ledgers(W) /\ l.repairing \in BOOLEAN
  BY LedgerType DEF Good
<1>2. CASE ~l.repairing
  <2>1. RepairDoubled(l) = l /\ l.repairing = FALSE
    BY <1>1, <1>2 DEF RepairDoubled
  <2> QED BY <2>1 DEF SameSettings
<1>3. CASE l.repairing
  <2>1. PICK bad : bad = {r \in Range(Details(l)) : r.doubled}
    OBVIOUS
  <2>2. PICK b : b = RemoveAll(l, bad)
    OBVIOUS
  <2>3. PICK yes, no \in BOOLEAN : yes = TRUE /\ no = FALSE
    OBVIOUS
  <2>4. PICK p, q : p = Again(Reverse(Only(l.archive, bad)), yes) /\ q = Again(Only(l.visible, bad), no)
    OBVIOUS
  <2>5. PICK s : s = p \o q
    OBVIOUS
  <2>6. PICK m : m = Loop(InsertEntry, b, s)
    OBVIOUS
  <2>7. RepairDoubled(l) = [m EXCEPT !.facts = AllRepaired(m.facts)]
    <3>1. RepairDoubled(l) = [m EXCEPT !.facts = [i \in DOMAIN @ |-> FALSE]]
      BY <1>3, <2>1, <2>2, <2>3, <2>4, <2>5, <2>6 DEF RepairDoubled
    <3> QED BY <3>1 DEF AllRepaired
  <2>8. s \in Seq(Repairs(W))
    <3>1. Only(l.archive, bad) \in Seq(Recs(W)) /\ Only(l.visible, bad) \in Seq(Recs(W))
      BY <1>1, LedgerType, OnlyKeeps
    <3>2. Reverse(Only(l.archive, bad)) \in Seq(Recs(W))
      BY <3>1, ReverseType
    <3>3. p \in Seq(Repairs(W)) /\ q \in Seq(Repairs(W))
      BY <2>4, <3>1, <3>2, AgainType
    <3> QED BY <2>5, <3>3, ConcatProperties
  <2>9. Len(s) \in Nat /\ \A n \in 1 .. Len(s) : s[n] \in Repairs(W)
    BY <2>8, LenProperties, ElementOfSeq
  <2> DEFINE D == {x \in Ledgers(W) : Good(x, W, yes) /\ SameSettings(x, l)
                                      /\ \A r \in Range(Details(x)) : r.doubled = FALSE}
  <2>10. b \in D
    <3>1. b \in Ledgers(W) /\ Removed(b, l, bad)
      BY <1>1, <2>2, RemoveAllDoes
    <3>2. \A r \in Range(Details(l)) : r.doubled \in BOOLEAN
      BY <1>1, LedgerType, LedgerRecs
    <3>3. \A r \in Range(Details(b)) : r.doubled = FALSE /\ r \in Range(Details(l))
      BY <2>1, <3>1, <3>2 DEF Removed
    <3>4. Covered(Range(Details(b)), b.facts, b.deleted, yes)
      <4>1. Covered(Range(Details(l)), l.facts, l.deleted, yes)
        BY <2>3 DEF Good, Covered, CoveredBy
      <4>2. Range(Details(b)) \subseteq Range(Details(l))
        BY <3>3
      <4> QED BY <3>1, <4>1, <4>2, CoveredStill DEF Removed
    <3>5. Good(b, W, yes)
      BY <3>1, <3>4 DEF Good, Removed
    <3> QED BY <3>1, <3>3, <3>5 DEF Removed
  <2>11. ASSUME NEW x \in D, NEW n \in 1 .. Len(s) PROVE InsertEntry(x, s[n]) \in D
    <3>1. PICK e : e = s[n]
      OBVIOUS
    <3>2. e.r \in Recs(W) /\ e.r.doubled = FALSE
      BY <2>9, <3>1 DEF Repairs
    <3>3. Agrees(x, e.r, yes)
      BY <2>3 DEF Agrees
    <3>4. PICK y : y = Insert(x, e.r, e.archived)
      OBVIOUS
    <3>5. Good(y, W, yes) /\ Entered(y, x, e.r)
      BY <3>2, <3>3, <3>4, InsertGood
    <3>6. \A r \in Range(Details(y)) : r.doubled = FALSE
      BY <3>2, <3>5, LegacyRecord DEF Entered
    <3>7. SameSettings(y, l)
      BY <3>5 DEF Entered, SameSettings
    <3>8. y \in D
      BY <3>5, <3>6, <3>7 DEF Good
    <3> QED BY <3>1, <3>4, <3>8 DEF InsertEntry
  <2>12. \A x \in D : Good(x, W, yes) /\ SameSettings(x, l) /\ \A r \in Range(Details(x)) : r.doubled = FALSE
    OBVIOUS
  <2> HIDE DEF D
  <2>13. EntryRounds(s, D, b)
    BY <2>9, <2>10, <2>11, EntryRoundsExist
  <2>14. PICK f \in [0 .. Len(s) -> D] : Loop(InsertEntry, b, s) = f[Len(s)]
    BY <2>13 DEF EntryRounds
  <2>15. m \in D
    BY <2>6, <2>9, <2>14
  <2>16. PICK z : z = [m EXCEPT !.facts = AllRepaired(m.facts)]
    OBVIOUS
  <2>17. m \in Ledgers(W) /\ Good(m, W, yes) /\ SameSettings(m, l) /\ \A r \in Range(Details(m)) : r.doubled = FALSE
    BY <2>12, <2>15 DEF Good
  <2>18. AllRepaired(m.facts) \in Facts /\ DOMAIN AllRepaired(m.facts) = DOMAIN m.facts
         /\ \A i \in DOMAIN m.facts : AllRepaired(m.facts)[i] = FALSE
    <3>1. m.facts \in Facts
      BY <2>17, LedgerType
    <3> QED BY <3>1, AllRepairedType
  <2>19. /\ z \in Ledgers(W) /\ z.visible = m.visible /\ z.archive = m.archive /\ z.counters = m.counters
         /\ z.facts = AllRepaired(m.facts) /\ z.deleted = m.deleted /\ z.cut = m.cut
         /\ z.retention = m.retention /\ z.repairing = m.repairing
    BY <2>16, <2>17, <2>18 DEF Ledgers
  <2>20. Details(z) = Details(m)
    BY <2>19 DEF Details
  <2>21. ASSUME NEW r \in Range(Details(z)), Shown(r) PROVE CoveredBy(r, z.facts, z.deleted, FALSE)
    <3>1. CoveredBy(r, m.facts, m.deleted, yes) /\ r.doubled = FALSE
      BY <2>17, <2>20, <2>21 DEF Good, Covered
    <3> QED BY <2>18, <2>19, <3>1 DEF CoveredBy
  <2>22. Good(z, W, FALSE)
    BY <2>17, <2>19, <2>21 DEF Good, Covered
  <2>23. SameSettings(z, l)
    BY <2>17, <2>19 DEF SameSettings
  <2> QED BY <2>7, <2>16, <2>22, <2>23
<1> QED BY <1>2, <1>3

-----------------------------------------------------------------------------
(* Files and the quota state they carry.                                   *)

FileWhole(f) == Balanced(f.visible, f.archive, f.counters, f.cut)

LEMMA FileType ==
    ASSUME NEW W, NEW f \in Files(W)
    PROVE  /\ f.visible \in Seq(Recs(W)) /\ f.archive \in Seq(Recs(W)) /\ f.counters \in Counters
           /\ f.quota \in BOOLEAN /\ f.facts \in Facts /\ f.deleted \in Tombs /\ f.cut \in SUBSET Truncated
           /\ f.at \in Nat
           /\ f.visible \in Seq(LedgerRecords) /\ f.archive \in Seq(LedgerRecords)
           /\ Details(f) \in Seq(Recs(W)) /\ Details(f) \in Seq(LedgerRecords)
           /\ Range(Details(f)) = Range(f.visible) \cup Range(f.archive)
           /\ Range(Details(f)) \subseteq Recs(W)
<1>1. /\ f.visible \in Seq(Recs(W)) /\ f.archive \in Seq(Recs(W)) /\ f.counters \in Counters
      /\ f.quota \in BOOLEAN /\ f.facts \in Facts /\ f.deleted \in Tombs /\ f.cut \in SUBSET Truncated
      /\ f.at \in Nat
  BY DEF Files
<1>2. Details(f) \in Seq(Recs(W)) /\ Range(Details(f)) = Range(f.visible) \cup Range(f.archive)
  BY <1>1, ConcatRange DEF Details
<1> QED BY <1>1, <1>2, RecsType

(* g is f with other facts. *)
OtherFacts(g, f) ==
    /\ g.visible = f.visible /\ g.archive = f.archive /\ g.counters = f.counters /\ g.quota = f.quota
    /\ g.deleted = f.deleted /\ g.cut = f.cut /\ g.at = f.at

LEMMA PreparedDoes ==
    ASSUME NEW W, NEW f \in Files(W), NEW l, l.repairing \in BOOLEAN
    PROVE  /\ Prepared(l, f) \in Files(W) /\ OtherFacts(Prepared(l, f), f)
           /\ Prepared(l, f).facts = IF l.repairing THEN AllRepaired(f.facts) ELSE f.facts
<1>1. PICK g : g = Prepared(l, f)
  OBVIOUS
<1>2. f.facts \in Facts
  BY FileType
<1>3. CASE ~l.repairing
  BY <1>3 DEF Prepared, OtherFacts
<1>4. CASE l.repairing
  <2>1. g = [f EXCEPT !.facts = [i \in DOMAIN @ |-> FALSE]]
    BY <1>1, <1>4 DEF Prepared
  <2>2. g = [f EXCEPT !.facts = AllRepaired(f.facts)]
    BY <2>1 DEF AllRepaired
  <2>3. AllRepaired(f.facts) \in Facts
    BY <1>2, AllRepairedType
  <2>4. g \in Files(W) /\ OtherFacts(g, f) /\ g.facts = AllRepaired(f.facts)
    BY <2>2, <2>3 DEF Files, OtherFacts
  <2> QED BY <1>1, <1>4, <2>4
<1> QED BY <1>3, <1>4

LEMMA SavedDoes ==
    ASSUME NEW W, NEW l \in Ledgers(W), clock \in Nat
    PROVE  Saved(l) \in Files(W)
<1>1. /\ l.visible \in Seq(Recs(W)) /\ l.archive \in Seq(Recs(W)) /\ l.counters \in Counters
      /\ l.facts \in Facts /\ l.deleted \in Tombs /\ l.cut \in SUBSET Truncated
  BY LedgerType
<1> QED BY <1>1 DEF Saved, Files

LEMMA PairedOutDoes ==
    ASSUME NEW W, NEW f \in Files(W)
    PROVE  LET g == PairedOut(f)
           IN  /\ g \in Files(W) /\ g.quota = f.quota /\ g.facts = f.facts /\ g.deleted = f.deleted
               /\ g.cut = f.cut /\ g.at = f.at /\ Range(Details(g)) \subseteq Range(Details(f))
               /\ FileWhole(f) => FileWhole(g)
               /\ Range(g.visible) \subseteq Range(f.visible) /\ Range(g.archive) \subseteq Range(f.archive)
<1>1. /\ f.visible \in Seq(Recs(W)) /\ f.archive \in Seq(Recs(W)) /\ f.counters \in Counters
      /\ f.cut \in SUBSET Truncated /\ Range(Details(f)) = Range(f.visible) \cup Range(f.archive)
  BY FileType
<1>2. PICK gone : gone = Superseded(Range(Details(f)), NativeOf)
  OBVIOUS
<1>3. PICK u, b, d : u = Besides(f.visible, gone) /\ b = Besides(f.archive, gone)
                     /\ d = UncountedAll(f.counters, Only(Details(f), gone))
  OBVIOUS
<1>4. PartsLeft(W, f.visible, f.archive, f.counters, f.cut, gone)
  BY <1>1, PartsLeftAre
<1>5. /\ u \in Seq(Recs(W)) /\ b \in Seq(Recs(W)) /\ d \in Counters
      /\ Range(u) \subseteq Range(f.visible) /\ Range(b) \subseteq Range(f.archive)
      /\ Balanced(f.visible, f.archive, f.counters, f.cut) => Balanced(u, b, d, f.cut)
  BY <1>3, <1>4 DEF PartsLeft, Details
<1>6. PICK g : g = PairedOut(f)
  OBVIOUS
<1>7. g = [f EXCEPT !.visible = u, !.archive = b, !.counters = d]
  BY <1>2, <1>3, <1>6 DEF PairedOut, RemoveAll
<1>8. /\ g \in Files(W) /\ g.visible = u /\ g.archive = b /\ g.counters = d /\ g.quota = f.quota
      /\ g.facts = f.facts /\ g.deleted = f.deleted /\ g.cut = f.cut /\ g.at = f.at
  BY <1>5, <1>7 DEF Files
<1>9. Range(Details(g)) = Range(u) \cup Range(b)
  BY <1>8, FileType
<1>10. Range(Details(g)) \subseteq Range(Details(f))
  BY <1>1, <1>5, <1>9
<1>11. FileWhole(f) => FileWhole(g)
  BY <1>5, <1>8 DEF FileWhole
<1> QED BY <1>5, <1>6, <1>8, <1>10, <1>11

(* The facts that are taken over say of the records that are shown what    *)
(* those of l say.                                                         *)
FactsAgree(l, facts, added) ==
    \A r \in Range(Details(l)) :
        Shown(r) /\ HasID(r) /\ RecordID(r) \in added => facts[RecordID(r)] = l.facts[RecordID(r)]

LEMMA WithFactsGood ==
    ASSUME NEW W, NEW weak \in BOOLEAN, NEW l, Good(l, W, weak), NEW facts \in Facts, NEW added,
           added \subseteq DOMAIN facts, FactsAgree(l, facts, added)
    PROVE  /\ Good(WithFacts(l, facts, added), W, weak) /\ Lessened(WithFacts(l, facts, added), l)
           /\ WithFacts(l, facts, added).deleted = l.deleted
<1>1. l \in Ledgers(W) /\ l.facts \in Facts
  BY LedgerType DEF Good
<1>2. PICK I : I = DOMAIN l.facts \cup added
  OBVIOUS
<1>3. PICK g : g = [i \in I |-> IF i \in added THEN facts[i] ELSE l.facts[i]]
  OBVIOUS
<1>4. I \in SUBSET Ids /\ \A i \in I : g[i] \in BOOLEAN
  <2>1. DOMAIN facts \subseteq Ids /\ \A i \in DOMAIN facts : facts[i] \in BOOLEAN
    BY FactsAre
  <2>2. DOMAIN l.facts \subseteq Ids /\ \A i \in DOMAIN l.facts : l.facts[i] \in BOOLEAN
    BY <1>1, FactsAre
  <2> QED BY <1>2, <1>3, <2>1, <2>2
<1>5. g \in Facts /\ DOMAIN g = I
  <2>1. g \in [I -> BOOLEAN]
    BY <1>3, <1>4
  <2> QED BY <1>4, <2>1 DEF Facts
<1>6. PICK m : m = WithFacts(l, facts, added)
  OBVIOUS
<1>7. m = [l EXCEPT !.facts = g]
  BY <1>2, <1>3, <1>6 DEF WithFacts
<1>8. /\ m \in Ledgers(W) /\ m.visible = l.visible /\ m.archive = l.archive /\ m.counters = l.counters
      /\ m.facts = g /\ m.deleted = l.deleted /\ m.cut = l.cut
      /\ m.retention = l.retention /\ m.repairing = l.repairing
  BY <1>1, <1>5, <1>7 DEF Ledgers
<1>9. Details(m) = Details(l)
  BY <1>8 DEF Details
<1>10. ASSUME NEW r \in Range(Details(m)), Shown(r) PROVE CoveredBy(r, m.facts, m.deleted, weak)
  <2>1. CoveredBy(r, l.facts, l.deleted, weak) /\ HasID(r)
    BY <1>9, <1>10 DEF Good, Covered, CoveredBy
  <2>2. RecordID(r) \in I
    BY <1>2, <2>1 DEF CoveredBy
  <2>3. RecordID(r) \in added => facts[RecordID(r)] = l.facts[RecordID(r)]
    BY <1>9, <1>10, <2>1 DEF FactsAgree
  <2>4. g[RecordID(r)] = l.facts[RecordID(r)]
    BY <1>3, <2>2, <2>3
  <2> QED BY <1>5, <1>8, <2>1, <2>2, <2>4 DEF CoveredBy
<1>11. Good(m, W, weak)
  BY <1>8, <1>10 DEF Good, Covered
<1> QED BY <1>6, <1>8, <1>9, <1>11 DEF Lessened, SameSettings

(* Records under a deleted identity leave. *)
LEMMA DeletedGood ==
    ASSUME NEW W, NEW weak \in BOOLEAN, NEW l, Good(l, W, weak), NEW ids, ids \subseteq Ids
    PROVE  Deleted(RemoveDeleted(Buried(l, ids), ids), l, W, weak, ids)
<1>1. PICK gone : gone = {r \in Range(Details(Buried(l, ids))) : HasID(Legacy(r)) /\ RecordID(Legacy(r)) \in ids}
  OBVIOUS
<1>2. l \in Ledgers(W)
  BY DEF Good
<1>3. Details(Buried(l, ids)) = Details(l)
  <2>1. IsBuried(Buried(l, ids), l, ids)
    BY <1>2, BuriedDoes
  <2> QED BY <2>1 DEF IsBuried, Details
<1>4. ASSUME NEW r \in Range(Details(l)) \ gone, HasID(r) PROVE RecordID(r) \notin ids
  <2>1. r \in Recs(W)
    BY <1>2, LedgerType
  <2>2. Legacy(r) = r
    BY <1>4, <2>1, LegacyRecord
  <2> QED BY <1>1, <1>3, <1>4, <2>2
<1>5. \A r \in Range(Details(l)) \ gone : HasID(r) => RecordID(r) \notin ids
  BY <1>4
<1>6. PICK m : m = RemoveAll(Buried(l, ids), gone)
  OBVIOUS
<1>7. RemoveDeleted(Buried(l, ids), ids) = m
  BY <1>1, <1>6 DEF RemoveDeleted
<1>8. Deleted(m, l, W, weak, ids)
  BY <1>5, <1>6, BuriedGood
<1> QED BY <1>7, <1>8

LEMMA MergeQuotaGood ==
    ASSUME NEW W, NEW weak \in BOOLEAN, NEW l, Good(l, W, weak),
           NEW f, f.quota \in BOOLEAN, f.facts \in Facts, f.deleted \in Tombs
    PROVE  Good(MergeQuota(l, f), W, weak) /\ Lessened(MergeQuota(l, f), l)
<1>1. CASE ~f.quota \/ FactsClash(f, l)
  <2>1. MergeQuota(l, f) = l
    BY <1>1 DEF MergeQuota
  <2> QED BY <2>1 DEF Lessened, SameSettings
<1>2. CASE ~(~f.quota \/ FactsClash(f, l))
  <2>1. PICK ids : ids = DOMAIN f.deleted
    OBVIOUS
  <2>2. ids \subseteq Ids
    BY <2>1, TombsAre
  <2>3. PICK b : b = RemoveDeleted(Buried(l, ids), ids)
    OBVIOUS
  <2>4. /\ Good(b, W, weak) /\ Lessened(b, l) /\ Left(b.facts, l.facts, ids)
    BY <2>2, <2>3, DeletedGood DEF Deleted
  <2>5. PICK added, facts : added = DOMAIN f.facts \ DOMAIN b.deleted /\ facts = f.facts
    OBVIOUS
  <2>6. MergeQuota(l, f) = WithFacts(b, facts, added)
    BY <1>2, <2>1, <2>3, <2>5 DEF MergeQuota
  <2>7. ASSUME NEW r \in Range(Details(b)), Shown(r), HasID(r), RecordID(r) \in added
        PROVE  facts[RecordID(r)] = b.facts[RecordID(r)]
    <3>1. RecordID(r) \in DOMAIN b.facts
      BY <2>4, <2>7 DEF Good, Covered, CoveredBy
    <3>2. b.facts[RecordID(r)] = l.facts[RecordID(r)] /\ RecordID(r) \in DOMAIN l.facts
      BY <2>4, <3>1 DEF Left
    <3>3. RecordID(r) \in DOMAIN f.facts \cap DOMAIN l.facts
      BY <2>5, <2>7, <3>2
    <3>4. f.facts[RecordID(r)] = l.facts[RecordID(r)]
      BY <1>2, <3>3 DEF FactsClash
    <3> QED BY <2>5, <3>2, <3>4
  <2>8. FactsAgree(b, facts, added)
    BY <2>7 DEF FactsAgree
  <2>9. PICK m : m = WithFacts(b, facts, added)
    OBVIOUS
  <2>10. facts \in Facts /\ added \subseteq DOMAIN facts
    BY <2>5
  <2>11. Good(m, W, weak) /\ Lessened(m, b)
    BY <2>4, <2>8, <2>9, <2>10, WithFactsGood
  <2> QED BY <2>4, <2>6, <2>9, <2>11, LessenedTwice
<1> QED BY <1>1, <1>2

-----------------------------------------------------------------------------
(* Merging a file.                                                         *)

KeySet == SUBSET (Items \X BOOLEAN)

LEMMA KeysType ==
    ASSUME NEW W, NEW l \in Ledgers(W)
    PROVE  Keys(l) \in KeySet /\ LooseKeys(l) \in KeySet /\ IDs(l) \subseteq Ids
<1>1. \A r \in Range(Details(l)) : r \in Recs(W)
  BY LedgerType
<1>2. \A r \in Range(Details(l)) : DedupKey(r) \in Items \X BOOLEAN /\ RecordID(r) \in Ids
  BY <1>1, LedgerRecs DEF DedupKey
<1> QED BY <1>2 DEF Keys, LooseKeys, IDs, KeySet

LEMMA RepairedRecord ==
    ASSUME NEW W, NEW r \in Recs(W), NEW l
    PROVE  Repaired(l, r) \in Recs(W) /\ Repaired(l, r).x = r.x /\ Repaired(l, r).id = r.id
<1>1. PICK q : q = [r EXCEPT !.doubled = FALSE]
  OBVIOUS
<1>2. q \in Recs(W)
  BY <1>1, LedgerRecs
<1>3. q.x = r.x /\ q.id = r.id
  BY <1>1 DEF Recs, LedgerRecords
<1> QED BY <1>1, <1>2, <1>3 DEF Repaired

LEMMA RedoubledRecord ==
    ASSUME NEW W, NEW r \in Recs(W), NEW b \in BOOLEAN
    PROVE  /\ [r EXCEPT !.doubled = b] \in Recs(W) /\ [r EXCEPT !.doubled = b].x = r.x
           /\ [r EXCEPT !.doubled = b].id = r.id
<1>1. [r EXCEPT !.doubled = b] \in Recs(W)
  BY LedgerRecs
<1>2. [r EXCEPT !.doubled = b].x = r.x /\ [r EXCEPT !.doubled = b].id = r.id
  BY DEF Recs, LedgerRecords
<1> QED BY <1>1, <1>2

(* A record under which quota accounting can refer to it.                  *)
Named(r, W) == r \in Recs(W) /\ (r.x \in Eligible => HasID(r))

LEMMA NamedAgrees ==
    ASSUME NEW W, NEW weak \in BOOLEAN, NEW l \in Ledgers(W), NEW r, Named(r, W),
           ~(HasID(r) /\ RecordID(r) \in IDs(l))
    PROVE  Agrees(l, r, weak)
<1>1. CASE r.x \notin Eligible
  BY <1>1 DEF Agrees
<1>2. CASE r.x \in Eligible
  <2>1. HasID(r) /\ Legacy(r) = r
    BY <1>2, LegacyRecord DEF Named
  <2>2. ASSUME NEW s \in Range(Details(l)), RecordID(s) = RecordID(r) PROVE FALSE
    <3>1. HasID(s)
      BY <2>1, <2>2 DEF RecordID, HasID
    <3>2. RecordID(s) \in IDs(l)
      BY <3>1 DEF IDs
    <3> QED BY <2>1, <2>2, <3>2
  <2> QED BY <2>1, <2>2 DEF Agrees
<1> QED BY <1>1, <1>2

Merges(W) == [l : Ledgers(W), loose : KeySet, fresh : Seq(Lines(W))]

EntrySet(W) == [r : Recs(W), archived : BOOLEAN]

(* A record of a file is left out, or recorded and written to the journal. *)
Took(o, m, entry, W) ==
    \/ o = m
    \/ \E r : /\ Named(r, W) /\ ~(HasID(r) /\ RecordID(r) \in IDs(m.l))
              /\ o.l = Insert(m.l, r, entry.archived) /\ o.loose \in KeySet
              /\ o.fresh = Append(m.fresh, DetailRow(r, entry.archived))
              /\ o = [l |-> o.l, loose |-> o.loose, fresh |-> o.fresh]

LEMMA MergeRecordTakes ==
    ASSUME NEW W, NEW m \in Merges(W), NEW entry \in EntrySet(W), NEW persist \in BOOLEAN
    PROVE  Took(MergeRecord(persist, m, entry), m, entry, W)
<1>1. PICK given \in Recs(W) : given = entry.r
  BY DEF EntrySet
<1>2. m.l \in Ledgers(W) /\ m.loose \in KeySet /\ m.fresh \in Seq(Lines(W))
  BY DEF Merges
<1>3. PICK client \in Recs(W) : client = IF persist THEN [given EXCEPT !.hashed = FALSE] ELSE given
  <2>1. [given EXCEPT !.hashed = FALSE] \in Recs(W)
    BY DEF Recs, LedgerRecords
  <2> QED BY <2>1
<1>4. PICK q \in Recs(W) : q = Legacy(client)
  BY LegacyRecord
<1>5. PICK named : named = IF HasID(client) THEN client
                           ELSE IF HasID(q) /\ RecordID(q) \in DOMAIN m.l.facts
                                THEN [q EXCEPT !.doubled = m.l.facts[RecordID(q)]] ELSE q
  OBVIOUS
<1>6. Named(named, W)
  <2>1. q.x = client.x /\ (client.x \in Eligible => HasID(q))
    BY <1>4, LegacyRecord
  <2>2. CASE HasID(client)
    BY <1>5, <2>2 DEF Named
  <2>3. CASE ~HasID(client) /\ HasID(q) /\ RecordID(q) \in DOMAIN m.l.facts
    <3>1. m.l.facts[RecordID(q)] \in BOOLEAN
      BY <1>2, <2>3, LedgerType, FactsAre
    <3>2. PICK b \in BOOLEAN : b = m.l.facts[RecordID(q)]
      BY <3>1
    <3>3. named = [q EXCEPT !.doubled = b]
      BY <1>5, <2>3, <3>2
    <3>4. named \in Recs(W) /\ named.id = q.id
      BY <3>3, RedoubledRecord
    <3> QED BY <2>3, <3>4 DEF Named, HasID
  <2>4. CASE ~HasID(client) /\ ~(HasID(q) /\ RecordID(q) \in DOMAIN m.l.facts)
    <3>1. named = q
      BY <1>5, <2>4
    <3> QED BY <2>1, <3>1 DEF Named
  <2> QED BY <2>2, <2>3, <2>4
<1>7. PICK r : r = Repaired(m.l, named)
  OBVIOUS
<1>8. Named(r, W)
  BY <1>6, <1>7, RepairedRecord DEF Named, HasID
<1>9. PICK known : known = IF HasID(given) THEN m.loose ELSE Keys(m.l) \cup m.loose
  OBVIOUS
<1>10. PICK dropped : dropped = (\/ m.l.retention > 0 /\ At[r.x] < clock - m.l.retention
                                 \/ HasID(r) /\ RecordID(r) \in DOMAIN m.l.deleted \cup IDs(m.l)
                                 \/ (persist /\ given.hashed) /\ <<r.x, TRUE>> \in known
                                 \/ DedupKey(r) \in known)
  OBVIOUS
<1>11. PICK loose : loose = IF HasID(given) THEN m.loose ELSE m.loose \cup {DedupKey(r)}
  OBVIOUS
<1>12. PICK o : o = MergeRecord(persist, m, entry)
  OBVIOUS
<1>13. o = IF dropped THEN m
           ELSE [l |-> Insert(m.l, r, entry.archived), loose |-> loose,
                 fresh |-> Append(m.fresh, DetailRow(r, entry.archived))]
  BY <1>1, <1>3, <1>4, <1>5, <1>7, <1>9, <1>10, <1>11, <1>12 DEF MergeRecord
<1>14. CASE dropped
  BY <1>12, <1>13, <1>14 DEF Took
<1>15. CASE ~dropped
  <2>1. ~(HasID(r) /\ RecordID(r) \in IDs(m.l))
    BY <1>10, <1>15
  <2>2. loose \in KeySet
    <3>1. DedupKey(r) \in Items \X BOOLEAN
      BY <1>8, LedgerRecs DEF Named, DedupKey
    <3> QED BY <1>2, <1>11, <3>1 DEF KeySet
  <2>3. o = [l |-> Insert(m.l, r, entry.archived), loose |-> loose,
             fresh |-> Append(m.fresh, DetailRow(r, entry.archived))]
    BY <1>13, <1>15
  <2> HIDE DEF KeySet
  <2> QED BY <1>8, <1>12, <2>1, <2>2, <2>3 DEF Took
<1> QED BY <1>14, <1>15

LEMMA LineType ==
    ASSUME NEW W, NEW r \in Recs(W), NEW archived \in BOOLEAN, clock \in Nat
    PROVE  DetailRow(r, archived) \in Lines(W)
BY DEF DetailRow, Lines

(* The loop of mergeSnapshotLocked. *)
MergedRecords(start, s, persist) ==
    LET Take(m, entry) == MergeRecord(persist, m, entry) IN Loop(Take, start, s)

(* The rounds of merging the records of a file. *)
MergeRounds(s, D, o, persist) ==
    \E f \in [0 .. Len(s) -> D] :
        /\ f[0] = o /\ MergedRecords(o, s, persist) = f[Len(s)]
        /\ \A n \in 1 .. Len(s) : f[n] = MergeRecord(persist, f[n - 1], s[n])

LEMMA MergeRoundsExist ==
    ASSUME NEW persist, NEW s, Len(s) \in Nat, NEW D, NEW o \in D,
           \A x \in D, n \in 1 .. Len(s) : MergeRecord(persist, x, s[n]) \in D
    PROVE  MergeRounds(s, D, o, persist)
<1> DEFINE N == Len(s)
           F == [e \in D \X (1 .. N) |-> MergeRecord(persist, e[1], s[e[2]])]
           f == CHOOSE f : f = [n \in 0 .. N |-> IF n = 0 THEN o ELSE MergeRecord(persist, f[n - 1], s[n])]
<1>1. MergedRecords(o, s, persist) = f[N]
  BY DEF Loop, MergedRecords
<1> HIDE DEF N
<1>2. F \in [D \X (1 .. N) -> D] /\ \A x \in D, n \in 1 .. N : F[<<x, n>>] = MergeRecord(persist, x, s[n])
  BY DEF N
<1> HIDE DEF F
<1>3. N \in Nat /\ \A n \in 0 .. N : n # 0 => n \in 1 .. N /\ n - 1 \in 0 .. N
  BY DEF N
<1>4. PICK g \in [0 .. N -> D] : RoundsOf(g, o, N, F)
  BY <1>2, <1>3, RoundsExist
<1>5. g[0] = o /\ \A n \in 1 .. N : g[n] = F[<<g[n - 1], n>>]
  BY <1>4 DEF RoundsOf
<1>6. \A n \in 0 .. N : g[n] = IF n = 0 THEN o ELSE MergeRecord(persist, g[n - 1], s[n])
  BY <1>2, <1>3, <1>5
<1>7. g = [n \in 0 .. N |-> IF n = 0 THEN o ELSE MergeRecord(persist, g[n - 1], s[n])]
  BY <1>6
<1>8. f = [n \in 0 .. N |-> IF n = 0 THEN o ELSE MergeRecord(persist, f[n - 1], s[n])]
  BY <1>7
<1> HIDE DEF f
<1>9. \A n \in 0 .. N : f[n] = IF n = 0 THEN o ELSE MergeRecord(persist, f[n - 1], s[n])
  BY <1>8
<1>10. ASSUME NEW n \in 1 .. N, f[n - 1] \in D PROVE f[n] \in D
  <2>1. f[n] = MergeRecord(persist, f[n - 1], s[n]) /\ n \in 1 .. Len(s)
    BY <1>3, <1>9 DEF N
  <2>2. MergeRecord(persist, f[n - 1], s[n]) \in D
    BY <1>10, <2>1
  <2> QED BY <2>1, <2>2
<1>11. f[0] \in D
  BY <1>3, <1>9
<1>12. \A n \in 0 .. N : f[n] \in D
  BY <1>3, <1>10, <1>11, RoundsKeep
<1>13. f = [n \in 0 .. N |-> f[n]]
  BY <1>8
<1>14. f \in [0 .. N -> D]
  BY <1>12, <1>13
<1>15. f[0] = o /\ \A n \in 1 .. N : f[n] = MergeRecord(persist, f[n - 1], s[n])
  BY <1>3, <1>9
<1> QED BY <1>1, <1>14, <1>15 DEF N, MergeRounds

LEMMA EntriesType ==
    ASSUME NEW W, NEW f \in Files(W)
    PROVE  Entries(f) \in Seq(EntrySet(W))
<1>1. PICK n \in Nat : n = Len(Details(f))
  BY FileType, LenProperties
<1>2. \A i \in 1 .. n : Details(f)[i] \in Recs(W)
  BY <1>1, FileType, ElementOfSeq
<1>3. \A i \in 1 .. n : (i > Len(f.visible)) \in BOOLEAN
  OBVIOUS
<1>4. ASSUME NEW i \in 1 .. n PROVE [r |-> Details(f)[i], archived |-> i > Len(f.visible)] \in EntrySet(W)
  BY <1>2, <1>3 DEF EntrySet
<1>5. Entries(f) = [i \in 1 .. n |-> [r |-> Details(f)[i], archived |-> i > Len(f.visible)]]
  BY <1>1 DEF Entries
<1>6. Entries(f) \in [1 .. n -> EntrySet(W)]
  BY <1>4, <1>5
<1> QED BY <1>6

(* What merging a file makes of l.                                         *)
MergeMakes(out, l, W, weak) ==
    /\ Good(out.l, W, weak) /\ SameSettings(out.l, l) /\ Known(out.l)
    /\ out.fresh \in Seq(Lines(W))

LEMMA MergeGood ==
    ASSUME NEW W, NEW weak \in BOOLEAN, clock \in Nat, NEW l, Good(l, W, weak), NEW f \in Files(W),
           NEW persist \in BOOLEAN
    PROVE  MergeMakes(Merge(l, f, persist), l, W, weak)
<1>1. PICK a, b : a = MergeQuota(l, f) /\ b = Reconcile(a)
  OBVIOUS
<1>2. Good(a, W, weak) /\ Lessened(a, l)
  BY <1>1, FileType, MergeQuotaGood
<1>3. clock \in Int
  OBVIOUS
<1>4. Good(b, W, weak) /\ Lessened(b, a)
  BY <1>1, <1>2, <1>3, ReconcileGood
<1>5. PICK g \in Files(W) : g = PairedOut(f)
  BY PairedOutDoes
<1>6. PICK s \in Seq(EntrySet(W)) : s = Entries(g)
  BY <1>5, EntriesType
<1>7. Len(s) \in Nat /\ \A n \in 1 .. Len(s) : s[n] \in EntrySet(W)
  BY LenProperties, ElementOfSeq
<1>8. PICK start : start = [l |-> b, loose |-> LooseKeys(b), fresh |-> <<>>]
  OBVIOUS
<1>9. PICK done : done = MergedRecords(start, s, persist)
  OBVIOUS
<1>10. PICK p, q : p = Prune(done.l) /\ q = Reconcile(p)
  OBVIOUS
<1>11. PICK copies : copies = Superseded(Range(Details(q)), CopyOf)
  OBVIOUS
<1>12. PICK gone : gone = {row \in Range(done.fresh) : row.r \in copies}
  OBVIOUS
<1>13. Merge(l, f, persist) = [l |-> DropCopies(q), fresh |-> Besides(done.fresh, gone)]
  BY <1>1, <1>5, <1>6, <1>8, <1>9, <1>10, <1>11, <1>12 DEF Merge, MergedRecords
<1> DEFINE D == {m \in Merges(W) : Good(m.l, W, weak) /\ SameSettings(m.l, l)}
<1>14. start \in D
  <2>1. LooseKeys(b) \in KeySet /\ b \in Ledgers(W)
    BY <1>4, KeysType DEF Good
  <2>2. start \in Merges(W) /\ start.l = b
    BY <1>8, <2>1 DEF Merges
  <2> QED BY <1>2, <1>4, <2>2 DEF Lessened, SameSettings
<1>15. ASSUME NEW m \in D, NEW n \in 1 .. Len(s) PROVE MergeRecord(persist, m, s[n]) \in D
  <2>1. PICK e \in EntrySet(W) : e = s[n]
    BY <1>7
  <2>2. PICK o : o = MergeRecord(persist, m, e)
    OBVIOUS
  <2>3. m \in Merges(W) /\ Good(m.l, W, weak) /\ SameSettings(m.l, l)
    OBVIOUS
  <2>4. Took(o, m, e, W)
    BY <2>2, <2>3, MergeRecordTakes
  <2>5. CASE o = m
    BY <2>1, <2>2, <2>5
  <2>6. CASE o # m
    <3>1. PICK r : /\ Named(r, W) /\ ~(HasID(r) /\ RecordID(r) \in IDs(m.l))
                   /\ o.l = Insert(m.l, r, e.archived) /\ o.loose \in KeySet
                   /\ o.fresh = Append(m.fresh, DetailRow(r, e.archived))
                   /\ o = [l |-> o.l, loose |-> o.loose, fresh |-> o.fresh]
      BY <2>4, <2>6 DEF Took
    <3>2. m.l \in Ledgers(W) /\ m.fresh \in Seq(Lines(W)) /\ e.archived \in BOOLEAN /\ r \in Recs(W)
      BY <2>3, <3>1 DEF Merges, EntrySet, Named
    <3>3. Agrees(m.l, r, weak)
      BY <3>1, <3>2, NamedAgrees
    <3>4. PICK y : y = Insert(m.l, r, e.archived)
      OBVIOUS
    <3>5. Good(y, W, weak) /\ Entered(y, m.l, r)
      BY <2>3, <3>2, <3>3, <3>4, InsertGood
    <3>6. DetailRow(r, e.archived) \in Lines(W)
      BY <3>2, LineType
    <3>7. o.fresh \in Seq(Lines(W))
      BY <3>1, <3>2, <3>6, AppendProperties
    <3>8. o.l = y /\ y \in Ledgers(W) /\ SameSettings(y, l)
      BY <2>3, <3>1, <3>4, <3>5 DEF Good, Entered, SameSettings
    <3>9. o \in Merges(W)
      BY <3>1, <3>7, <3>8 DEF Merges
    <3> QED BY <2>1, <2>2, <3>5, <3>8, <3>9
  <2> QED BY <2>5, <2>6
<1>16. \A m \in D : m \in Merges(W) /\ Good(m.l, W, weak) /\ SameSettings(m.l, l)
  OBVIOUS
<1> HIDE DEF D
<1>17. MergeRounds(s, D, start, persist)
  BY <1>7, <1>14, <1>15, MergeRoundsExist
<1>18. PICK h \in [0 .. Len(s) -> D] : MergedRecords(start, s, persist) = h[Len(s)]
  BY <1>17 DEF MergeRounds
<1>19. done \in D
  BY <1>7, <1>9, <1>18
<1>20. Good(done.l, W, weak) /\ SameSettings(done.l, l) /\ done.fresh \in Seq(Lines(W))
  BY <1>16, <1>19 DEF Merges
<1>21. Good(p, W, weak) /\ Lessened(p, done.l) /\ Known(p)
  BY <1>3, <1>10, <1>20, PruneGood
<1>22. Good(q, W, weak) /\ Lessened(q, p) /\ Known(q)
  BY <1>3, <1>10, <1>21, ReconcileGood
<1>23. PICK z : z = DropCopies(q)
  OBVIOUS
<1>24. Good(z, W, weak) /\ Lessened(z, q) /\ Known(z)
  BY <1>22, <1>23, DropCopiesGood
<1>25. SameSettings(z, l)
  BY <1>20, <1>21, <1>22, <1>24 DEF Lessened, SameSettings
<1>26. Besides(done.fresh, gone) \in Seq(Lines(W))
  BY <1>20, BesidesKeeps
<1> QED BY <1>13, <1>23, <1>24, <1>25, <1>26 DEF MergeMakes

-----------------------------------------------------------------------------
(* Taking over a snapshot.                                                 *)

LEMMA RemoveAllGood ==
    ASSUME NEW W, NEW weak \in BOOLEAN, NEW l, Good(l, W, weak), NEW gone
    PROVE  Good(RemoveAll(l, gone), W, weak) /\ Lessened(RemoveAll(l, gone), l)
<1>1. PICK m : m = RemoveAll(l, gone)
  OBVIOUS
<1>2. m \in Ledgers(W) /\ Removed(m, l, gone)
  BY <1>1, RemoveAllDoes DEF Good
<1>3. Range(Details(m)) \subseteq Range(Details(l))
  BY <1>2 DEF Removed
<1>4. Covered(Range(Details(m)), m.facts, m.deleted, weak)
  <2>1. Covered(Range(Details(l)), l.facts, l.deleted, weak)
    BY DEF Good
  <2> QED BY <1>2, <1>3, <2>1, CoveredStill DEF Removed
<1>5. Good(m, W, weak)
  BY <1>2, <1>4 DEF Good, Removed
<1> QED BY <1>1, <1>2, <1>3, <1>5 DEF Lessened, Removed

LEMMA RestoredTotalsType ==
    ASSUME NEW W, NEW f \in Files(W), FileWhole(f)
    PROVE  /\ RestoredTotals(f) \in Counters
           /\ Balanced(f.visible, f.archive, RestoredTotals(f), f.cut)
<1>1. f.counters \in Counters /\ Details(f) \in Seq(LedgerRecords)
  BY FileType
<1>2. PICK clients \in Counters : clients = CountedAll(Zero, Details(f))
  BY <1>1, ZeroType, CountedAllType
<1>3. PICK c : c = RestoredTotals(f)
  OBVIOUS
<1>4. c = [d \in Dims |-> IF d[1] = "client" THEN clients[d] ELSE f.counters[d]]
  BY <1>2, <1>3 DEF RestoredTotals
<1>5. \A d \in Dims : clients[d] \in Counts /\ f.counters[d] \in Counts
  BY <1>1 DEF Counters
<1>6. c \in Counters
  BY <1>4, <1>5 DEF Counters
<1>7. \A d \in Plain : c[d] = f.counters[d]
  BY <1>4 DEF Plain
<1>8. \A d \in Plain, k \in Kinds : Figure(c, d, k) = Figure(f.counters, d, k)
  BY <1>7 DEF Figure
<1>9. Balanced(f.visible, f.archive, c, f.cut)
  BY <1>8 DEF FileWhole, Balanced
<1> QED BY <1>3, <1>6, <1>9

AdoptedRecords(rs) == [i \in DOMAIN rs |-> Legacy(rs[i])]

LEMMA AdoptedRecordsType ==
    ASSUME NEW W, NEW rs \in Seq(Recs(W))
    PROVE  /\ AdoptedRecords(rs) \in Seq(Recs(W))
           /\ \A r \in Range(AdoptedRecords(rs)) : \E q \in Range(rs) : r = Legacy(q)
           /\ \A d \in Plain, k \in Kinds : Total(Weight(d, k), AdoptedRecords(rs)) = Total(Weight(d, k), rs)
<1>1. PICK n \in Nat : n = Len(rs) /\ DOMAIN rs = 1 .. n
  BY LenProperties
<1>2. \A i \in 1 .. n : rs[i] \in Recs(W)
  BY <1>1, ElementOfSeq
<1>3. PICK u : u = AdoptedRecords(rs)
  OBVIOUS
<1>4. u = [i \in 1 .. n |-> Legacy(rs[i])]
  BY <1>1, <1>3 DEF AdoptedRecords
<1>5. \A i \in 1 .. n : Legacy(rs[i]) \in Recs(W)
  BY <1>2, LegacyRecord
<1>6. u \in [1 .. n -> Recs(W)]
  BY <1>4, <1>5
<1>7. u \in Seq(Recs(W)) /\ Len(u) = n /\ DOMAIN u = 1 .. n
  BY <1>6
<1>8. \A r \in Range(u) : \E q \in Range(rs) : r = Legacy(q)
  BY <1>1, <1>4, <1>7 DEF Range
<1>9. ASSUME NEW d \in Plain, NEW k \in Kinds
      PROVE  Total(Weight(d, k), u) = Total(Weight(d, k), rs)
  <2>1. PICK w \in [LedgerRecords -> Nat] : w = Weight(d, k)
    BY WeightType
  <2>2. ASSUME NEW i \in 1 .. n PROVE w[u[i]] = w[rs[i]]
    <3>1. PICK r \in Recs(W) : r = rs[i]
      BY <1>2
    <3>2. PICK q \in Recs(W) : q = Legacy(r)
      BY LegacyRecord
    <3>3. q.x = r.x /\ q.hashed = r.hashed /\ q.doubled = r.doubled
      BY <3>2, LegacyRecord
    <3>4. q \in LedgerRecords /\ r \in LedgerRecords
      BY DEF Recs
    <3>5. DimsOf(q) = DimsOf(r) /\ Tokens(q) = Tokens(r)
      BY <3>3 DEF DimsOf, Tokens
    <3>6. w[q] = w[r]
      BY <2>1, <3>4, <3>5 DEF Weight
    <3> QED BY <1>4, <3>1, <3>2, <3>6
  <2>3. u \in Seq(LedgerRecords) /\ rs \in Seq(LedgerRecords)
    BY <1>7, RecsType
  <2>4. Total(w, u) = Total(w, rs)
    BY <1>1, <1>7, <2>2, <2>3, TotalMapped
  <2> QED BY <2>1, <2>4
<1> QED BY <1>3, <1>7, <1>8, <1>9

(* Records under one item have the same tokens, and the facts are theirs.  *)
OneForm(R) == \A r, s \in R : r.x = s.x => r.doubled = s.doubled

FactsOf(facts, R) == \A r \in R : RecordID(r) \in DOMAIN facts => facts[RecordID(r)] = r.doubled

(* m and l differ in the facts alone. *)
FactsOnly(m, l) == m = [l EXCEPT !.facts = m.facts]

(* The rounds of adding facts. *)
FactRounds(s, D, o) ==
    \E f \in [0 .. Len(s) -> D] :
        /\ f[0] = o /\ Loop(AddFact, o, s) = f[Len(s)]
        /\ \A n \in 1 .. Len(s) : f[n] = AddFact(f[n - 1], s[n])

LEMMA FactRoundsExist ==
    ASSUME NEW s, Len(s) \in Nat, NEW D, NEW o \in D,
           \A x \in D, n \in 1 .. Len(s) : AddFact(x, s[n]) \in D
    PROVE  FactRounds(s, D, o)
<1> DEFINE N == Len(s)
           F == [e \in D \X (1 .. N) |-> AddFact(e[1], s[e[2]])]
           f == CHOOSE f : f = [n \in 0 .. N |-> IF n = 0 THEN o ELSE AddFact(f[n - 1], s[n])]
<1>1. Loop(AddFact, o, s) = f[N]
  BY DEF Loop
<1> HIDE DEF N
<1>2. F \in [D \X (1 .. N) -> D] /\ \A x \in D, n \in 1 .. N : F[<<x, n>>] = AddFact(x, s[n])
  BY DEF N
<1> HIDE DEF F
<1>3. N \in Nat /\ \A n \in 0 .. N : n # 0 => n \in 1 .. N /\ n - 1 \in 0 .. N
  BY DEF N
<1>4. PICK g \in [0 .. N -> D] : RoundsOf(g, o, N, F)
  BY <1>2, <1>3, RoundsExist
<1>5. g[0] = o /\ \A n \in 1 .. N : g[n] = F[<<g[n - 1], n>>]
  BY <1>4 DEF RoundsOf
<1>6. \A n \in 0 .. N : g[n] = IF n = 0 THEN o ELSE AddFact(g[n - 1], s[n])
  BY <1>2, <1>3, <1>5
<1>7. g = [n \in 0 .. N |-> IF n = 0 THEN o ELSE AddFact(g[n - 1], s[n])]
  BY <1>6
<1>8. f = [n \in 0 .. N |-> IF n = 0 THEN o ELSE AddFact(f[n - 1], s[n])]
  BY <1>7
<1> HIDE DEF f
<1>9. \A n \in 0 .. N : f[n] = IF n = 0 THEN o ELSE AddFact(f[n - 1], s[n])
  BY <1>8
<1>10. ASSUME NEW n \in 1 .. N, f[n - 1] \in D PROVE f[n] \in D
  <2>1. f[n] = AddFact(f[n - 1], s[n]) /\ n \in 1 .. Len(s)
    BY <1>3, <1>9 DEF N
  <2>2. AddFact(f[n - 1], s[n]) \in D
    BY <1>10, <2>1
  <2> QED BY <2>1, <2>2
<1>11. f[0] \in D
  BY <1>3, <1>9
<1>12. \A n \in 0 .. N : f[n] \in D
  BY <1>3, <1>10, <1>11, RoundsKeep
<1>13. f = [n \in 0 .. N |-> f[n]]
  BY <1>8
<1>14. f \in [0 .. N -> D]
  BY <1>12, <1>13
<1>15. f[0] = o /\ \A n \in 1 .. N : f[n] = AddFact(f[n - 1], s[n])
  BY <1>3, <1>9
<1> QED BY <1>1, <1>14, <1>15 DEF N, FactRounds

LEMMA FactsAdded ==
    ASSUME NEW W, NEW l \in Ledgers(W), DOMAIN l.facts = {}, DOMAIN l.deleted = {}, OneForm(Range(Details(l))),
           \A r \in Range(Details(l)) : Named(r, W)
    PROVE  LET m == Loop(AddFact, l, Details(l))
           IN  m \in Ledgers(W) /\ FactsOnly(m, l) /\ Covered(Range(Details(l)), m.facts, m.deleted, FALSE)
<1>1. PICK s \in Seq(Recs(W)) : s = Details(l)
  BY LedgerType
<1>2. PICK R : R = Range(Details(l))
  OBVIOUS
<1> DEFINE D == {m \in Ledgers(W) : FactsOnly(m, l) /\ FactsOf(m.facts, R)}
<1>3. /\ Len(s) \in Nat /\ DOMAIN s = 1 .. Len(s) /\ \A n \in 1 .. Len(s) : s[n] \in R
  <2>1. Len(s) \in Nat /\ DOMAIN s = 1 .. Len(s)
    BY LenProperties
  <2> QED BY <1>1, <1>2, <2>1 DEF Range
<1>4. \A r \in R : r \in Recs(W) /\ Named(r, W) /\ Legacy(r) = r
  <2>1. ASSUME NEW r \in R PROVE r \in Recs(W) /\ Named(r, W) /\ Legacy(r) = r
    <3>1. r \in Recs(W) /\ (r.x \in Eligible => HasID(r))
      BY <1>2 DEF Named
    <3>2. Legacy(r) = r
      BY <3>1 DEF Legacy
    <3> QED BY <1>2, <3>1, <3>2
  <2> QED BY <2>1
<1>5. l \in D
  <2>1. FactsOnly(l, l)
    BY DEF FactsOnly, Ledgers
  <2>2. FactsOf(l.facts, R)
    BY DEF FactsOf
  <2> QED BY <2>1, <2>2
<1>6. ASSUME NEW x \in D, NEW n \in 1 .. Len(s) PROVE AddFact(x, s[n]) \in D
  <2>1. PICK r \in R : r = s[n]
    BY <1>3
  <2>2. PICK y : y = AddFact(x, r)
    OBVIOUS
  <2>3. x \in Ledgers(W) /\ FactsOnly(x, l) /\ FactsOf(x.facts, R)
    OBVIOUS
  <2>4. y \in Ledgers(W) /\ FactAdded(y, x, r) /\ Legacy(r) = r
    BY <1>4, <2>2, <2>3, AddFactDoes
  <2>5. FactsOnly(y, l)
    BY <2>3, <2>4 DEF FactAdded, FactsOnly, Ledgers
  <2>6. ASSUME NEW q \in R, RecordID(q) \in DOMAIN y.facts PROVE y.facts[RecordID(q)] = q.doubled
    <3>1. CASE y = x
      BY <2>3, <2>6, <3>1 DEF FactsOf
    <3>2. CASE y # x /\ RecordID(q) = RecordID(r)
      <4>1. y.facts[RecordID(r)] = r.doubled
        BY <2>4, <3>2 DEF FactAdded
      <4>2. q.x = r.x
        BY <3>2 DEF RecordID
      <4>3. q.doubled = r.doubled
        BY <1>2, <4>2 DEF OneForm
      <4> QED BY <3>2, <4>1, <4>3
    <3>3. CASE y # x /\ RecordID(q) # RecordID(r)
      <4>1. AddFact(x, r) = [x EXCEPT !.facts = With(@, RecordID(r), r.doubled)]
        BY <2>2, <2>4, <3>3 DEF AddFact
      <4>2. y.facts = With(x.facts, RecordID(r), r.doubled)
        BY <2>2, <2>3, <4>1 DEF Ledgers
      <4>3. RecordID(q) \in DOMAIN x.facts
        BY <2>6, <3>3, <4>2 DEF With
      <4>4. y.facts[RecordID(q)] = x.facts[RecordID(q)]
        BY <2>4, <3>3, <4>3 DEF FactAdded
      <4> QED BY <2>3, <4>3, <4>4 DEF FactsOf
    <3> QED BY <3>1, <3>2, <3>3
  <2>7. FactsOf(y.facts, R)
    BY <2>6 DEF FactsOf
  <2>8. y \in D
    BY <2>4, <2>5, <2>7
  <2> QED BY <2>1, <2>2, <2>8
<1>7. \A x \in D : x \in Ledgers(W) /\ FactsOnly(x, l) /\ FactsOf(x.facts, R)
  OBVIOUS
<1> HIDE DEF D
<1>8. FactRounds(s, D, l)
  BY <1>3, <1>5, <1>6, FactRoundsExist
<1>9. PICK f \in [0 .. Len(s) -> D] :
         /\ f[0] = l /\ Loop(AddFact, l, s) = f[Len(s)]
         /\ \A n \in 1 .. Len(s) : f[n] = AddFact(f[n - 1], s[n])
  BY <1>8 DEF FactRounds
<1> DEFINE T == {n \in Nat : \A i \in 1 .. n : s[i].x \in Eligible => RecordID(s[i]) \in DOMAIN f[n].facts}
<1>10. 0 \in T
  OBVIOUS
<1>11. ASSUME NEW n \in 0 .. Len(s) - 1, n \in T PROVE n + 1 \in T
  <2>1. n + 1 \in 1 .. Len(s) /\ n \in 0 .. Len(s) /\ (n + 1) - 1 = n /\ n + 1 \in Nat
    BY <1>3
  <2>2. PICK x, y, r : x = f[n] /\ y = f[n + 1] /\ r = s[n + 1]
    OBVIOUS
  <2>3. x \in D /\ r \in R /\ y = AddFact(x, r)
    BY <1>3, <1>9, <2>1, <2>2
  <2>4. x \in Ledgers(W) /\ x.deleted = l.deleted /\ Legacy(r) = r /\ r \in Recs(W)
    BY <1>4, <1>7, <2>3 DEF FactsOnly, Ledgers
  <2>5. FactAdded(y, x, r)
    BY <2>3, <2>4, AddFactDoes
  <2>6. ASSUME NEW i \in 1 .. n + 1, s[i].x \in Eligible PROVE RecordID(s[i]) \in DOMAIN y.facts
    <3>1. CASE i = n + 1
      BY <2>2, <2>4, <2>5, <2>6, <3>1 DEF FactAdded
    <3>2. CASE i # n + 1
      <4>1. i \in 1 .. n
        BY <3>2
      <4>2. RecordID(s[i]) \in DOMAIN x.facts
        BY <1>11, <2>2, <2>6, <4>1
      <4> QED BY <2>5, <4>2 DEF FactAdded
    <3> QED BY <3>1, <3>2
  <2> QED BY <2>1, <2>2, <2>6
<1> HIDE DEF T
<1>12. \A n \in 0 .. Len(s) : n \in T
  BY <1>3, <1>10, <1>11, RoundInduction
<1>13. PICK m : m = f[Len(s)]
  OBVIOUS
<1>14. m \in D /\ Len(s) \in T
  BY <1>3, <1>9, <1>12, <1>13
<1>15. m \in Ledgers(W) /\ FactsOnly(m, l) /\ FactsOf(m.facts, R) /\ m.deleted = l.deleted
  <2>1. m \in Ledgers(W) /\ FactsOnly(m, l) /\ FactsOf(m.facts, R)
    BY <1>7, <1>14
  <2> QED BY <2>1 DEF FactsOnly, Ledgers
<1>16. ASSUME NEW r \in R, Shown(r) PROVE CoveredBy(r, m.facts, m.deleted, FALSE)
  <2>1. PICK i \in 1 .. Len(s) : r = s[i]
    BY <1>1, <1>2, <1>3 DEF Range
  <2>2. RecordID(r) \in DOMAIN m.facts
    BY <1>13, <1>14, <1>16, <2>1 DEF T, Shown
  <2>3. HasID(r)
    BY <1>4, <1>16 DEF Named, Shown
  <2> QED BY <1>15, <2>2, <2>3 DEF CoveredBy, FactsOf
<1>17. Covered(R, m.facts, m.deleted, FALSE)
  BY <1>16 DEF Covered
<1> QED BY <1>1, <1>2, <1>9, <1>13, <1>15, <1>17

(* A snapshot that the next process can take over: one with quota facts    *)
(* that follow its records, or one of an earlier version.                  *)
Acceptable(f, W, weak) ==
    /\ f \in Files(W) /\ FileWhole(f)
    /\ \/ f.quota /\ Covered(Range(Details(f)), f.facts, f.deleted, weak)
       \/ /\ ~f.quota /\ DOMAIN f.facts = {} /\ DOMAIN f.deleted = {}
          /\ Range(Details(f)) \subseteq EarlierRecords

LEMMA EarlierRecord ==
    ASSUME NEW W, NEW q \in Recs(W), q \in EarlierRecords
    PROVE  Named(Legacy(q), W) /\ Legacy(q).x = q.x /\ (Legacy(q).doubled <=> q.x \in Doubled)
           /\ Legacy(q).doubled \in BOOLEAN
<1>1. Legacy(q) \in Recs(W) /\ Legacy(q).x = q.x /\ Legacy(q).doubled = q.doubled
      /\ (q.x \in Eligible => HasID(Legacy(q)))
  BY LegacyRecord
<1>2. q.doubled <=> q.x \in Doubled
  BY DEF EarlierRecords
<1>3. q.doubled \in BOOLEAN
  BY LedgerRecs
<1> QED BY <1>1, <1>2, <1>3 DEF Named

(* m has the settings of l, but for what was cut. *)
SameSwitches(m, l) == m.retention = l.retention /\ m.repairing = l.repairing

LEMMA RestoredGood ==
    ASSUME NEW W, NEW weak \in BOOLEAN, NEW l \in Ledgers(W), NEW given, Acceptable(given, W, weak),
           given.quota \/ (DOMAIN l.facts = {} /\ DOMAIN l.deleted = {})
    PROVE  Good(Restored(l, given), W, weak) /\ SameSwitches(Restored(l, given), l)
<1>1. given \in Files(W) /\ FileWhole(given)
  BY DEF Acceptable
<1>2. PICK f : f = PairedOut(given)
  OBVIOUS
<1>3. /\ f \in Files(W) /\ f.quota = given.quota /\ f.facts = given.facts /\ f.deleted = given.deleted
      /\ Range(Details(f)) \subseteq Range(Details(given)) /\ FileWhole(f)
  BY <1>1, <1>2, PairedOutDoes
<1>4. /\ f.visible \in Seq(Recs(W)) /\ f.archive \in Seq(Recs(W)) /\ f.cut \in SUBSET Truncated
      /\ f.facts \in Facts /\ f.deleted \in Tombs /\ f.quota \in BOOLEAN
      /\ Range(Details(f)) = Range(f.visible) \cup Range(f.archive)
  BY <1>3, FileType
<1>5. PICK c \in Counters : c = RestoredTotals(f) /\ Balanced(f.visible, f.archive, c, f.cut)
  BY <1>3, RestoredTotalsType
<1>6. PICK main : main = [l EXCEPT !.visible = f.visible, !.archive = f.archive, !.cut = f.cut, !.counters = c]
  OBVIOUS
<1>7. /\ main \in Ledgers(W) /\ main.visible = f.visible /\ main.archive = f.archive /\ main.cut = f.cut
      /\ main.counters = c /\ main.facts = l.facts /\ main.deleted = l.deleted
      /\ main.retention = l.retention /\ main.repairing = l.repairing
  BY <1>4, <1>6 DEF Ledgers
<1>8. PICK b : b = RestoredQuota(main, f)
  OBVIOUS
<1>9. Restored(l, given) = DropCopies(b)
  BY <1>2, <1>5, <1>6, <1>8 DEF Restored
<1>10. CASE given.quota
  <2>1. PICK x : x = [main EXCEPT !.facts = f.facts, !.deleted = f.deleted]
    OBVIOUS
  <2>2. /\ x \in Ledgers(W) /\ x.visible = f.visible /\ x.archive = f.archive /\ x.cut = f.cut
        /\ x.counters = c /\ x.facts = f.facts /\ x.deleted = f.deleted
        /\ x.retention = l.retention /\ x.repairing = l.repairing
    BY <1>4, <1>7, <2>1 DEF Ledgers
  <2>3. Range(Details(x)) \subseteq Range(Details(given))
    <3>1. Details(x) = Details(f)
      BY <2>2 DEF Details
    <3> QED BY <1>3, <3>1
  <2>4. Covered(Range(Details(x)), x.facts, x.deleted, weak)
    <3>1. Covered(Range(Details(given)), given.facts, given.deleted, weak)
      BY <1>10 DEF Acceptable
    <3> QED BY <1>3, <2>2, <2>3, <3>1, CoveredStill
  <2>5. Good(x, W, weak)
    BY <1>5, <2>2, <2>4 DEF Good
  <2>6. PICK gone : gone = {r \in Range(Details(x)) : HasID(Legacy(r)) /\ RecordID(Legacy(r)) \in DOMAIN f.deleted}
    OBVIOUS
  <2>7. b = RemoveAll(x, gone)
    BY <1>3, <1>8, <1>10, <2>1, <2>6 DEF RestoredQuota, RemoveDeleted
  <2>8. Good(b, W, weak) /\ Lessened(b, x)
    BY <2>5, <2>7, RemoveAllGood
  <2>9. PICK z : z = DropCopies(b)
    OBVIOUS
  <2>10. Good(z, W, weak) /\ Lessened(z, b)
    BY <2>8, <2>9, DropCopiesGood
  <2> QED BY <1>9, <2>2, <2>8, <2>9, <2>10 DEF Lessened, SameSettings, SameSwitches
<1>11. CASE ~given.quota
  <2>1. Range(Details(f)) \subseteq EarlierRecords /\ DOMAIN l.facts = {} /\ DOMAIN l.deleted = {}
    BY <1>3, <1>11 DEF Acceptable
  <2>2. PICK v, a : v = AdoptedRecords(f.visible) /\ a = AdoptedRecords(f.archive)
    OBVIOUS
  <2>3. /\ v \in Seq(Recs(W)) /\ \A r \in Range(v) : \E q \in Range(f.visible) : r = Legacy(q)
        /\ \A d \in Plain, k \in Kinds : Total(Weight(d, k), v) = Total(Weight(d, k), f.visible)
    BY <1>4, <2>2, AdoptedRecordsType
  <2>4. /\ a \in Seq(Recs(W)) /\ \A r \in Range(a) : \E q \in Range(f.archive) : r = Legacy(q)
        /\ \A d \in Plain, k \in Kinds : Total(Weight(d, k), a) = Total(Weight(d, k), f.archive)
    BY <1>4, <2>2, AdoptedRecordsType
  <2>5. PICK x : x = [main EXCEPT !.visible = v, !.archive = a]
    OBVIOUS
  <2>6. /\ x \in Ledgers(W) /\ x.visible = v /\ x.archive = a /\ x.cut = f.cut
        /\ x.counters = c /\ x.facts = l.facts /\ x.deleted = l.deleted
        /\ x.retention = l.retention /\ x.repairing = l.repairing
    BY <1>7, <2>3, <2>4, <2>5 DEF Ledgers
  <2>7. Range(Details(x)) = Range(v) \cup Range(a)
    BY <2>6, LedgerType
  <2>8. ASSUME NEW r \in Range(Details(x)) PROVE Named(r, W) /\ r.doubled \in BOOLEAN /\ (r.doubled <=> r.x \in Doubled)
    <3>1. PICK q \in Range(f.visible) \cup Range(f.archive) : r = Legacy(q)
      BY <2>3, <2>4, <2>7
    <3>2. q \in Recs(W) /\ q \in EarlierRecords
      BY <1>3, <1>4, <2>1, <3>1, FileType
    <3> QED BY <3>1, <3>2, EarlierRecord
  <2>9. OneForm(Range(Details(x)))
    BY <2>8 DEF OneForm
  <2>10. Balanced(v, a, c, f.cut)
    BY <1>5, <2>3, <2>4 DEF Balanced
  <2>11. PICK y : y = Loop(AddFact, x, Details(x))
    OBVIOUS
  <2>12. y \in Ledgers(W) /\ FactsOnly(y, x) /\ Covered(Range(Details(x)), y.facts, y.deleted, FALSE)
    BY <2>1, <2>6, <2>8, <2>9, <2>11, FactsAdded
  <2>13. b = y
    <3>1. b = Adopted(main)
      BY <1>3, <1>8, <1>11 DEF RestoredQuota
    <3>2. main.visible = f.visible /\ main.archive = f.archive
      BY <1>7
    <3>3. [main EXCEPT !.visible = AdoptedRecords(@), !.archive = AdoptedRecords(@)] = x
      BY <2>2, <2>5, <3>2
    <3>4. Adopted(main) = Loop(AddFact, x, Details(x))
      BY <3>3 DEF Adopted, AdoptedRecords
    <3> QED BY <2>11, <3>1, <3>4
  <2>14. /\ y.visible = v /\ y.archive = a /\ y.cut = f.cut /\ y.counters = c
         /\ y.retention = l.retention /\ y.repairing = l.repairing
    BY <2>6, <2>12 DEF FactsOnly, Ledgers
  <2>15. Covered(Range(Details(y)), y.facts, y.deleted, weak)
    <3>1. Details(y) = Details(x)
      BY <2>6, <2>14 DEF Details
    <3> QED BY <2>12, <3>1 DEF Covered, CoveredBy
  <2>16. Good(y, W, weak)
    BY <2>10, <2>12, <2>14, <2>15 DEF Good
  <2>17. PICK z : z = DropCopies(b)
    OBVIOUS
  <2>18. Good(z, W, weak) /\ Lessened(z, b)
    BY <2>13, <2>16, <2>17, DropCopiesGood
  <2> QED BY <1>9, <2>13, <2>14, <2>17, <2>18 DEF Lessened, SameSettings, SameSwitches
<1> QED BY <1>10, <1>11

-----------------------------------------------------------------------------
(* Replaying the journal.                                                  *)

Replays(W) ==
    [l : Ledgers(W), ids : SUBSET Ids, factIds : SUBSET Ids, keys : KeySet,
     residual : Int, absorbed : KeySet, at : Nat]

(* The replay has the identities of all records that it shows.             *)
Replaying(st, l, W, weak) ==
    st \in Replays(W) /\ Good(st.l, W, weak) /\ IDs(st.l) \subseteq st.ids /\ SameSettings(st.l, l)

LEMMA IDsLess ==
    ASSUME NEW m, NEW l, Range(Details(m)) \subseteq Range(Details(l))
    PROVE  IDs(m) \subseteq IDs(l)
BY DEF IDs

LEMMA LineFields ==
    ASSUME NEW W, NEW row \in Lines(W)
    PROVE  /\ row.kind = "quota" => row.facts \in Facts /\ row.deleted \in Tombs
           /\ row.kind # "quota" => row.r \in Recs(W) /\ row.archived \in BOOLEAN
<1>1. CASE row \in [kind : {"detail"}, r : Recs(W), archived : BOOLEAN, day : Nat]
  BY <1>1
<1>2. CASE row \in [kind : {"quota"}, facts : Facts, deleted : Tombs, day : Nat]
  BY <1>2
<1> QED BY <1>1, <1>2 DEF Lines

LEMMA ReplayStateGood ==
    ASSUME NEW W, NEW weak \in BOOLEAN, NEW l, Good(l, W, weak), NEW at \in Nat
    PROVE  Replaying(ReplayState(l, at), l, W, weak)
<1>1. l \in Ledgers(W)
  BY DEF Good
<1>2. IDs(l) \subseteq Ids /\ Keys(l) \in KeySet /\ DOMAIN l.facts \subseteq Ids
  BY <1>1, KeysType, LedgerType, FactsAre
<1>3. Minus(l.counters[<<"all", 0>>].n, Len(Details(l))) \in Int
  <2>1. PICK b \in Nat : b = Len(Details(l))
    BY <1>1, LedgerType, LenProperties
  <2>2. <<"all", 0>> \in Dims
    BY DEF Dims
  <2>3. PICK a \in Nat : a = l.counters[<<"all", 0>>].n
    BY <1>1, <2>2, LedgerType DEF Counters, Counts
  <2>4. Minus(a, b) \in Int
    BY MinusType
  <2> QED BY <2>1, <2>3, <2>4
<1>4. PICK i, f, k, e : i = IDs(l) /\ f = DOMAIN l.facts /\ k = Keys(l)
                        /\ e = Minus(l.counters[<<"all", 0>>].n, Len(Details(l)))
  OBVIOUS
<1>5. {} \in KeySet
  BY DEF KeySet
<1>6. PICK st : st = [l |-> l, ids |-> i, factIds |-> f, keys |-> k, residual |-> e, absorbed |-> {}, at |-> at]
  OBVIOUS
<1>7. ReplayState(l, at) = st
  BY <1>4, <1>6 DEF ReplayState
<1>8. i \in SUBSET Ids /\ f \in SUBSET Ids /\ k \in KeySet /\ e \in Int
  BY <1>2, <1>3, <1>4
<1>9. st \in Replays(W)
  BY <1>1, <1>5, <1>6, <1>8 DEF Replays
<1>10. st.l = l /\ st.ids = IDs(l)
  BY <1>4, <1>6
<1> QED BY <1>7, <1>9, <1>10 DEF Replaying, SameSettings

LEMMA ReplaysFields ==
    ASSUME NEW W, NEW st \in Replays(W)
    PROVE  /\ st.l \in Ledgers(W) /\ st.ids \in SUBSET Ids /\ st.keys \in KeySet /\ st.residual \in Int
           /\ st.absorbed \in KeySet
           /\ \A m \in Ledgers(W) : /\ [st EXCEPT !.l = m] \in Replays(W) /\ [st EXCEPT !.l = m].l = m
                                    /\ [st EXCEPT !.l = m].ids = st.ids
BY DEF Replays

LEMMA ReplayQuotaGood ==
    ASSUME NEW W, NEW weak \in BOOLEAN, NEW l, NEW st, Replaying(st, l, W, weak), NEW row,
           row.facts \in Facts, row.deleted \in Tombs
    PROVE  Replaying(ReplayQuota(st, row), l, W, weak)
<1>1. /\ st \in Replays(W) /\ Good(st.l, W, weak) /\ IDs(st.l) \subseteq st.ids /\ SameSettings(st.l, l)
  BY DEF Replaying
<1>2. PICK added : added = DOMAIN row.facts \ (st.factIds \cup st.ids \cup DOMAIN st.l.deleted)
  OBVIOUS
<1>3. PICK facts \in Facts : facts = row.facts
  OBVIOUS
<1>4. ASSUME NEW r \in Range(Details(st.l)), HasID(r) PROVE RecordID(r) \notin added
  <2>1. RecordID(r) \in IDs(st.l)
    BY <1>4 DEF IDs
  <2> QED BY <1>1, <1>2, <2>1
<1>5. FactsAgree(st.l, facts, added)
  BY <1>4 DEF FactsAgree
<1>6. PICK x : x = st.l
  OBVIOUS
<1>7. PICK y : y = WithFacts(x, facts, added)
  OBVIOUS
<1>8. added \subseteq DOMAIN facts
  BY <1>2, <1>3
<1>9. Good(y, W, weak) /\ Lessened(y, x)
  BY <1>1, <1>5, <1>6, <1>7, <1>8, WithFactsGood
<1>10. PICK f : f = [quota |-> TRUE, facts |-> <<>>, deleted |-> row.deleted]
  OBVIOUS
<1>11. f.quota \in BOOLEAN /\ f.facts \in Facts /\ f.deleted \in Tombs
  <2>1. f.quota = TRUE /\ f.facts = <<>> /\ f.deleted = row.deleted
    BY <1>10
  <2>2. <<>> \in Facts
    <3>1. DOMAIN <<>> = {} /\ <<>> = [i \in {} |-> <<>>[i]]
      BY SMT
    <3> QED BY <3>1, FactsAre
  <2> QED BY <2>1, <2>2
<1>12. PICK z : z = MergeQuota(y, f)
  OBVIOUS
<1>13. Good(z, W, weak) /\ Lessened(z, y)
  BY <1>9, <1>11, <1>12, MergeQuotaGood
<1>14. PICK o : o = [st EXCEPT !.l = z]
  OBVIOUS
<1>15. ReplayQuota(st, row) = o
  BY <1>1, <1>2, <1>3, <1>6, <1>7, <1>10, <1>12, <1>14 DEF ReplayQuota, Replays
<1>16. o \in Replays(W) /\ o.l = z /\ o.ids = st.ids
  BY <1>1, <1>13, <1>14, ReplaysFields DEF Good
<1>17. Lessened(z, x)
  BY <1>9, <1>13, LessenedTwice
<1>18. IDs(z) \subseteq st.ids /\ SameSettings(z, l)
  <2>1. IDs(z) \subseteq IDs(x)
    BY <1>17, IDsLess DEF Lessened
  <2> QED BY <1>1, <1>6, <1>17, <2>1 DEF Lessened, SameSettings
<1> QED BY <1>13, <1>15, <1>16, <1>18 DEF Replaying

LEMMA RehydratedNamed ==
    ASSUME NEW W, NEW st \in Replays(W), NEW r, Named(r, W)
    PROVE  Named(Rehydrated(st, r), W)
<1>1. r \in Recs(W)
  BY DEF Named
<1>2. CASE RecordID(r) \in st.factIds \cap DOMAIN st.l.facts
  <2>1. st.l.facts[RecordID(r)] \in BOOLEAN
    BY <1>2, ReplaysFields, LedgerType, FactsAre
  <2>2. PICK b \in BOOLEAN : b = st.l.facts[RecordID(r)]
    BY <2>1
  <2>3. PICK q : q = [r EXCEPT !.doubled = b]
    OBVIOUS
  <2>4. q \in Recs(W) /\ q.x = r.x /\ q.id = r.id
    BY <1>1, <2>3, RedoubledRecord
  <2>5. PICK s : s = Repaired(st.l, q)
    OBVIOUS
  <2>6. s \in Recs(W) /\ s.x = r.x /\ s.id = r.id
    BY <2>4, <2>5, RepairedRecord
  <2>7. Rehydrated(st, r) = s
    BY <1>2, <2>2, <2>3, <2>5 DEF Rehydrated
  <2> QED BY <2>6, <2>7 DEF Named, HasID
<1>3. CASE ~(RecordID(r) \in st.factIds \cap DOMAIN st.l.facts)
  BY <1>3 DEF Rehydrated
<1> QED BY <1>2, <1>3

LEMMA ReplayedGood ==
    ASSUME NEW W, NEW weak \in BOOLEAN, NEW l, NEW st, Replaying(st, l, W, weak), NEW r, Named(r, W),
           NEW archived
    PROVE  Replaying(Replayed(st, r, archived), l, W, weak)
<1>1. /\ st \in Replays(W) /\ Good(st.l, W, weak) /\ IDs(st.l) \subseteq st.ids /\ SameSettings(st.l, l)
  BY DEF Replaying
<1>2. PICK x, counted, id : x = st.l /\ counted = AddFact(x, r) /\ id = IF HasID(r) THEN {RecordID(r)} ELSE {}
  OBVIOUS
<1>3. PICK p, q : /\ p = [st EXCEPT !.l = counted, !.residual = @ - 1, !.absorbed = @ \cup {DedupKey(r)}]
                  /\ q = [st EXCEPT !.l = Insert(counted, r, archived), !.ids = @ \cup id,
                                    !.keys = @ \cup {DedupKey(r)}]
  OBVIOUS
<1>4. PICK o : o = Replayed(st, r, archived)
  OBVIOUS
<1>5. o = IF id \cap (st.ids \cup DOMAIN x.deleted) # {} THEN st
          ELSE IF DedupKey(r) \in st.absorbed THEN [st EXCEPT !.l = counted]
          ELSE IF Absorbable(st, r) THEN p ELSE q
  BY <1>2, <1>3, <1>4 DEF Replayed
<1>6. r \in Recs(W) /\ Legacy(r) = r
  BY DEF Named, Legacy
<1>7. CASE id \cap (st.ids \cup DOMAIN x.deleted) # {}
  BY <1>4, <1>5, <1>7
<1>8. CASE id \cap (st.ids \cup DOMAIN x.deleted) = {}
  <2>1. x \in Ledgers(W) /\ Good(x, W, weak)
    BY <1>1, <1>2 DEF Good
  <2>2. ~(HasID(r) /\ RecordID(r) \in IDs(x))
    BY <1>1, <1>2, <1>8
  <2>3. Agrees(x, r, weak)
    BY <2>1, <2>2, NamedAgrees
  <2>4. Good(counted, W, weak)
    BY <1>2, <1>6, <2>1, <2>3, AddFactGood
  <2>5. FactAdded(counted, x, r)
    BY <1>2, <1>6, <2>1, AddFactDoes
  <2>6. Details(counted) = Details(x) /\ SameSettings(counted, x)
    BY <2>1, <2>5 DEF FactAdded, Ledgers, Details, SameSettings
  <2>7. counted \in Ledgers(W) /\ IDs(counted) = IDs(x)
    BY <2>4, <2>6 DEF Good, IDs
  <2>8. IDs(counted) \subseteq st.ids /\ SameSettings(counted, l)
    BY <1>1, <1>2, <2>6, <2>7 DEF SameSettings
  <2>9. PICK key : key = DedupKey(r)
    OBVIOUS
  <2>10. key \in Items \X BOOLEAN
    BY <1>6, <2>9, LedgerRecs DEF DedupKey
  <2>11. CASE key \in st.absorbed
    <3>1. o = [st EXCEPT !.l = counted]
      BY <1>5, <1>8, <2>9, <2>11
    <3>2. o \in Replays(W) /\ o.l = counted /\ o.ids = st.ids
      BY <1>1, <2>7, <3>1, ReplaysFields
    <3> QED BY <1>4, <2>4, <2>8, <3>2 DEF Replaying
  <2>12. CASE key \notin st.absorbed /\ Absorbable(st, r)
    <3>1. o = p
      BY <1>5, <1>8, <2>9, <2>12
    <3>2. st.absorbed \cup {key} \in KeySet /\ st.residual - 1 \in Int
      BY <1>1, <2>10, ReplaysFields DEF KeySet
    <3>3. p \in Replays(W) /\ p.l = counted /\ p.ids = st.ids
      BY <1>1, <1>3, <2>7, <2>9, <3>2 DEF Replays
    <3> QED BY <1>4, <2>4, <2>8, <3>1, <3>3 DEF Replaying
  <2>13. CASE key \notin st.absorbed /\ ~Absorbable(st, r)
    <3>1. o = q
      BY <1>5, <1>8, <2>9, <2>13
    <3>2. PICK y : y = Insert(counted, r, archived)
      OBVIOUS
    <3>3. Agrees(counted, r, weak)
      BY <2>2, <2>7, NamedAgrees
    <3>4. Good(y, W, weak) /\ Entered(y, counted, r)
      BY <1>6, <2>4, <3>2, <3>3, InsertGood
    <3>5. SameSettings(y, l)
      BY <2>8, <3>4 DEF Entered, SameSettings
    <3>6. ASSUME NEW s \in Range(Details(y)), HasID(s) PROVE RecordID(s) \in st.ids \cup id
      <4>1. s \in Range(Details(counted)) \/ s = r
        BY <1>6, <3>4 DEF Entered
      <4>2. CASE s \in Range(Details(counted))
        <5>1. RecordID(s) \in IDs(counted)
          BY <3>6, <4>2 DEF IDs
        <5> QED BY <2>8, <5>1
      <4>3. CASE s = r
        BY <1>2, <3>6, <4>3
      <4> QED BY <4>1, <4>2, <4>3
    <3>7. IDs(y) \subseteq st.ids \cup id
      BY <3>6 DEF IDs
    <3>8. st.keys \cup {key} \in KeySet
      BY <1>1, <2>10, ReplaysFields DEF KeySet
    <3>9. id \subseteq Ids
      BY <1>2, <1>6, LedgerRecs
    <3>10. y \in Ledgers(W) /\ st.ids \cup id \in SUBSET Ids
      BY <1>1, <3>4, <3>9, ReplaysFields DEF Good
    <3>11. q \in Replays(W) /\ q.l = y /\ q.ids = st.ids \cup id
      BY <1>1, <1>3, <2>9, <3>2, <3>8, <3>10 DEF Replays
    <3> QED BY <1>4, <3>1, <3>4, <3>5, <3>7, <3>11 DEF Replaying
  <2> QED BY <2>11, <2>12, <2>13
<1> QED BY <1>7, <1>8

LEMMA ReplayRowGood ==
    ASSUME NEW W, NEW weak \in BOOLEAN, NEW l, NEW st, Replaying(st, l, W, weak), NEW row \in Lines(W)
    PROVE  Replaying(ReplayRow(st, row), l, W, weak)
<1>1. st \in Replays(W)
  BY DEF Replaying
<1>2. CASE row.kind = "quota"
  <2>1. row.facts \in Facts /\ row.deleted \in Tombs
    BY <1>2, LineFields
  <2>2. ReplayRow(st, row) = ReplayQuota(st, row)
    BY <1>2 DEF ReplayRow
  <2> QED BY <2>1, <2>2, ReplayQuotaGood
<1>3. CASE row.kind # "quota" /\ ~HasID(row.r) /\ DedupKey(row.r) \in st.keys
  <2>1. ReplayRow(st, row) = st
    BY <1>3 DEF ReplayRow
  <2> QED BY <2>1
<1>4. CASE row.kind # "quota" /\ ~(~HasID(row.r) /\ DedupKey(row.r) \in st.keys)
  <2>1. PICK r \in Recs(W) : r = row.r
    BY <1>4, LineFields
  <2>2. PICK p \in Recs(W) : p = Repaired(st.l, r)
    BY RepairedRecord
  <2>3. PICK q : q = Legacy(p)
    OBVIOUS
  <2>4. Named(q, W)
    BY <2>3, LegacyRecord DEF Named
  <2>5. PICK u : u = Rehydrated(st, q)
    OBVIOUS
  <2>6. Named(u, W)
    BY <1>1, <2>4, <2>5, RehydratedNamed
  <2>7. ReplayRow(st, row) = Replayed(st, u, row.archived)
    BY <1>4, <2>1, <2>2, <2>3, <2>5 DEF ReplayRow
  <2>8. PICK archived : archived = row.archived
    OBVIOUS
  <2>9. Replaying(Replayed(st, u, archived), l, W, weak)
    BY <2>6, ReplayedGood
  <2> QED BY <2>7, <2>8, <2>9
<1> QED BY <1>2, <1>3, <1>4

(* The rounds of replaying the lines of a shard. *)
ReplayRounds(s, D, o) ==
    \E f \in [0 .. Len(s) -> D] :
        /\ f[0] = o /\ Loop(ReplayRow, o, s) = f[Len(s)]
        /\ \A n \in 1 .. Len(s) : f[n] = ReplayRow(f[n - 1], s[n])

LEMMA ReplayRoundsExist ==
    ASSUME NEW s, Len(s) \in Nat, NEW D, NEW o \in D,
           \A x \in D, n \in 1 .. Len(s) : ReplayRow(x, s[n]) \in D
    PROVE  ReplayRounds(s, D, o)
<1> DEFINE N == Len(s)
           F == [e \in D \X (1 .. N) |-> ReplayRow(e[1], s[e[2]])]
           f == CHOOSE f : f = [n \in 0 .. N |-> IF n = 0 THEN o ELSE ReplayRow(f[n - 1], s[n])]
<1>1. Loop(ReplayRow, o, s) = f[N]
  BY DEF Loop
<1> HIDE DEF N
<1>2. F \in [D \X (1 .. N) -> D] /\ \A x \in D, n \in 1 .. N : F[<<x, n>>] = ReplayRow(x, s[n])
  BY DEF N
<1> HIDE DEF F
<1>3. N \in Nat /\ \A n \in 0 .. N : n # 0 => n \in 1 .. N /\ n - 1 \in 0 .. N
  BY DEF N
<1>4. PICK g \in [0 .. N -> D] : RoundsOf(g, o, N, F)
  BY <1>2, <1>3, RoundsExist
<1>5. g[0] = o /\ \A n \in 1 .. N : g[n] = F[<<g[n - 1], n>>]
  BY <1>4 DEF RoundsOf
<1>6. \A n \in 0 .. N : g[n] = IF n = 0 THEN o ELSE ReplayRow(g[n - 1], s[n])
  BY <1>2, <1>3, <1>5
<1>7. g = [n \in 0 .. N |-> IF n = 0 THEN o ELSE ReplayRow(g[n - 1], s[n])]
  BY <1>6
<1>8. f = [n \in 0 .. N |-> IF n = 0 THEN o ELSE ReplayRow(f[n - 1], s[n])]
  BY <1>7
<1> HIDE DEF f
<1>9. \A n \in 0 .. N : f[n] = IF n = 0 THEN o ELSE ReplayRow(f[n - 1], s[n])
  BY <1>8
<1>10. ASSUME NEW n \in 1 .. N, f[n - 1] \in D PROVE f[n] \in D
  <2>1. f[n] = ReplayRow(f[n - 1], s[n]) /\ n \in 1 .. Len(s)
    BY <1>3, <1>9 DEF N
  <2>2. ReplayRow(f[n - 1], s[n]) \in D
    BY <1>10, <2>1
  <2> QED BY <2>1, <2>2
<1>11. f[0] \in D
  BY <1>3, <1>9
<1>12. \A n \in 0 .. N : f[n] \in D
  BY <1>3, <1>10, <1>11, RoundsKeep
<1>13. f = [n \in 0 .. N |-> f[n]]
  BY <1>8
<1>14. f \in [0 .. N -> D]
  BY <1>12, <1>13
<1>15. f[0] = o /\ \A n \in 1 .. N : f[n] = ReplayRow(f[n - 1], s[n])
  BY <1>3, <1>9
<1> QED BY <1>1, <1>14, <1>15 DEF N, ReplayRounds

LEMMA ReplayShardGood ==
    ASSUME NEW W, NEW weak \in BOOLEAN, clock \in Int, NEW l, NEW st, Replaying(st, l, W, weak),
           NEW rs \in Seq(Lines(W))
    PROVE  Replaying(ReplayShard(st, rs), l, W, weak)
<1>1. PICK s \in Seq(Lines(W)) : s = Batch(rs)
  <2>1. PICK S : Batch(rs) = Besides(rs, S)
    BY DEF Batch
  <2>2. Besides(rs, S) \in Seq(Lines(W))
    BY BesidesKeeps
  <2> QED BY <2>1, <2>2
<1>2. Len(s) \in Nat /\ \A n \in 1 .. Len(s) : s[n] \in Lines(W)
  BY LenProperties, ElementOfSeq
<1> DEFINE D == {x \in Replays(W) : Replaying(x, l, W, weak)}
<1>3. st \in D
  BY DEF Replaying
<1>4. ASSUME NEW x \in D, NEW n \in 1 .. Len(s) PROVE ReplayRow(x, s[n]) \in D
  <2>1. PICK row \in Lines(W) : row = s[n]
    BY <1>2
  <2>2. PICK y : y = ReplayRow(x, row)
    OBVIOUS
  <2>3. Replaying(x, l, W, weak)
    OBVIOUS
  <2>4. Replaying(y, l, W, weak)
    BY <2>2, <2>3, ReplayRowGood
  <2>5. y \in D
    BY <2>4 DEF Replaying
  <2> QED BY <2>1, <2>2, <2>5
<1>5. \A x \in D : Replaying(x, l, W, weak)
  OBVIOUS
<1> HIDE DEF D
<1>6. ReplayRounds(s, D, st)
  BY <1>2, <1>3, <1>4, ReplayRoundsExist
<1>7. PICK h \in [0 .. Len(s) -> D] : Loop(ReplayRow, st, s) = h[Len(s)]
  BY <1>6 DEF ReplayRounds
<1>8. PICK read : read = Loop(ReplayRow, st, s)
  OBVIOUS
<1>9. read \in D
  BY <1>2, <1>7, <1>8
<1>10. /\ read \in Replays(W) /\ Good(read.l, W, weak) /\ IDs(read.l) \subseteq read.ids
       /\ SameSettings(read.l, l)
  BY <1>5, <1>9 DEF Replaying
<1>11. PICK x, y, z, kept : x = read.l /\ y = Prune(x) /\ z = Reconcile(y) /\ kept = Prune(z)
  OBVIOUS
<1>12. Good(y, W, weak) /\ Lessened(y, x)
  BY <1>10, <1>11, PruneGood
<1>13. Good(z, W, weak) /\ Lessened(z, y)
  BY <1>11, <1>12, ReconcileGood
<1>14. Good(kept, W, weak) /\ Lessened(kept, z)
  BY <1>11, <1>13, PruneGood
<1>15. Lessened(kept, x)
  BY <1>12, <1>13, <1>14, LessenedTwice
<1>16. IDs(kept) \subseteq read.ids /\ SameSettings(kept, l)
  <2>1. IDs(kept) \subseteq IDs(x)
    BY <1>15, IDsLess DEF Lessened
  <2> QED BY <1>10, <1>11, <1>15, <2>1 DEF Lessened, SameSettings
<1>17. PICK keys : keys = Keys(kept)
  OBVIOUS
<1>18. keys \in KeySet /\ {} \in KeySet /\ kept \in Ledgers(W)
  BY <1>14, <1>17, KeysType DEF Good, KeySet
<1>19. PICK o : o = [read EXCEPT !.l = kept, !.keys = keys, !.absorbed = {}]
  OBVIOUS
<1>20. o \in Replays(W) /\ o.l = kept /\ o.ids = read.ids
  BY <1>10, <1>18, <1>19 DEF Replays
<1>21. ReplayShard(st, rs) = o
  BY <1>1, <1>8, <1>11, <1>17, <1>19 DEF ReplayShard
<1> QED BY <1>14, <1>16, <1>20, <1>21 DEF Replaying

(* The shard of day d, when it is read; and all days, one after another.   *)
ReplayDay(l, at, rs, st, d) ==
    LET Shard == {row \in Range(rs) : row.day = d}
    IN  IF Shard # {} /\ d >= at /\ (l.retention = 0 \/ d >= clock - l.retention)
        THEN ReplayShard(st, Only(rs, Shard)) ELSE st

ReplayDays(l, at, rs, o) ==
    LET after[d \in 0 .. LedgerEnd] == IF d = 0 THEN o ELSE ReplayDay(l, at, rs, after[d - 1], d)
    IN  after[LedgerEnd]

(* The rounds of replaying the days. *)
DayRounds(D, o, l, at, rs) ==
    \E f \in [0 .. LedgerEnd -> D] :
        /\ f[0] = o /\ ReplayDays(l, at, rs, o) = f[LedgerEnd]
        /\ \A n \in 1 .. LedgerEnd : f[n] = ReplayDay(l, at, rs, f[n - 1], n)

LEMMA DayRoundsExist ==
    ASSUME NEW l, NEW at, NEW rs, NEW D, NEW o \in D,
           \A x \in D, n \in 1 .. LedgerEnd : ReplayDay(l, at, rs, x, n) \in D
    PROVE  DayRounds(D, o, l, at, rs)
<1> DEFINE N == LedgerEnd
           F == [e \in D \X (1 .. N) |-> ReplayDay(l, at, rs, e[1], e[2])]
           f == CHOOSE f : f = [n \in 0 .. N |-> IF n = 0 THEN o ELSE ReplayDay(l, at, rs, f[n - 1], n)]
<1>1. ReplayDays(l, at, rs, o) = f[N]
  BY DEF ReplayDays
<1> HIDE DEF N
<1>2. F \in [D \X (1 .. N) -> D] /\ \A x \in D, n \in 1 .. N : F[<<x, n>>] = ReplayDay(l, at, rs, x, n)
  BY DEF N
<1> HIDE DEF F
<1>3. N \in Nat /\ \A n \in 0 .. N : n # 0 => n \in 1 .. N /\ n - 1 \in 0 .. N
  BY LedgerAssumption DEF N
<1>4. PICK g \in [0 .. N -> D] : RoundsOf(g, o, N, F)
  BY <1>2, <1>3, RoundsExist
<1>5. g[0] = o /\ \A n \in 1 .. N : g[n] = F[<<g[n - 1], n>>]
  BY <1>4 DEF RoundsOf
<1>6. \A n \in 0 .. N : g[n] = IF n = 0 THEN o ELSE ReplayDay(l, at, rs, g[n - 1], n)
  BY <1>2, <1>3, <1>5
<1>7. g = [n \in 0 .. N |-> IF n = 0 THEN o ELSE ReplayDay(l, at, rs, g[n - 1], n)]
  BY <1>6
<1>8. f = [n \in 0 .. N |-> IF n = 0 THEN o ELSE ReplayDay(l, at, rs, f[n - 1], n)]
  BY <1>7
<1> HIDE DEF f
<1>9. \A n \in 0 .. N : f[n] = IF n = 0 THEN o ELSE ReplayDay(l, at, rs, f[n - 1], n)
  BY <1>8
<1>10. ASSUME NEW n \in 1 .. N, f[n - 1] \in D PROVE f[n] \in D
  <2>1. f[n] = ReplayDay(l, at, rs, f[n - 1], n) /\ n \in 1 .. LedgerEnd
    BY <1>3, <1>9 DEF N
  <2>2. ReplayDay(l, at, rs, f[n - 1], n) \in D
    BY <1>10, <2>1
  <2> QED BY <2>1, <2>2
<1>11. f[0] \in D
  BY <1>3, <1>9
<1>12. \A n \in 0 .. N : f[n] \in D
  BY <1>3, <1>10, <1>11, RoundsKeep
<1>13. f = [n \in 0 .. N |-> f[n]]
  BY <1>8
<1>14. f \in [0 .. N -> D]
  BY <1>12, <1>13
<1>15. f[0] = o /\ \A n \in 1 .. N : f[n] = ReplayDay(l, at, rs, f[n - 1], n)
  BY <1>3, <1>9
<1> QED BY <1>1, <1>14, <1>15 DEF N, DayRounds

LEMMA ReplayGood ==
    ASSUME NEW W, NEW weak \in BOOLEAN, clock \in Int, NEW l, Good(l, W, weak), NEW at \in Nat,
           NEW rs \in Seq(Lines(W))
    PROVE  Good(Replay(l, at, rs), W, weak) /\ SameSettings(Replay(l, at, rs), l)
<1>1. PICK x : x = Reconcile(l)
  OBVIOUS
<1>2. Good(x, W, weak) /\ Lessened(x, l)
  BY <1>1, ReconcileGood
<1>3. PICK o : o = ReplayState(x, at)
  OBVIOUS
<1>4. Replaying(o, x, W, weak)
  BY <1>2, <1>3, ReplayStateGood
<1> DEFINE D == {st \in Replays(W) : Replaying(st, x, W, weak)}
<1>5. o \in D
  BY <1>4 DEF Replaying
<1>6. ASSUME NEW st \in D, NEW d \in 1 .. LedgerEnd PROVE ReplayDay(l, at, rs, st, d) \in D
  <2>1. PICK S : S = {row \in Range(rs) : row.day = d}
    OBVIOUS
  <2>2. PICK p \in Seq(Lines(W)) : p = Only(rs, S)
    BY OnlyKeeps
  <2>3. PICK y : y = ReplayShard(st, p)
    OBVIOUS
  <2>4. Replaying(st, x, W, weak)
    OBVIOUS
  <2>5. Replaying(y, x, W, weak)
    BY <2>3, <2>4, ReplayShardGood
  <2>6. y \in D
    BY <2>5 DEF Replaying
  <2>7. ReplayDay(l, at, rs, st, d) = y \/ ReplayDay(l, at, rs, st, d) = st
    BY <2>1, <2>2, <2>3 DEF ReplayDay
  <2> QED BY <2>6, <2>7
<1>7. \A st \in D : Replaying(st, x, W, weak)
  OBVIOUS
<1> HIDE DEF D
<1>8. DayRounds(D, o, l, at, rs)
  BY <1>5, <1>6, DayRoundsExist
<1>9. PICK h \in [0 .. LedgerEnd -> D] : ReplayDays(l, at, rs, o) = h[LedgerEnd]
  BY <1>8 DEF DayRounds
<1>10. PICK st : st = ReplayDays(l, at, rs, o)
  OBVIOUS
<1>11. LedgerEnd \in 0 .. LedgerEnd
  BY LedgerAssumption
<1>12. st \in D
  BY <1>9, <1>10, <1>11
<1>13. Good(st.l, W, weak) /\ SameSettings(st.l, x)
  BY <1>7, <1>12 DEF Replaying
<1>14. Replay(l, at, rs) = Reconcile(DropCopies(st.l))
  <2>1. Replay(l, at, rs) = Reconcile(DropCopies(ReplayDays(l, at, rs, ReplayState(Reconcile(l), at)).l))
    BY DEF Replay, ReplayDays, ReplayDay
  <2> QED BY <1>1, <1>3, <1>10, <2>1
<1>15. PICK y, z, u : y = st.l /\ z = DropCopies(y) /\ u = Reconcile(z)
  OBVIOUS
<1>16. Good(z, W, weak) /\ Lessened(z, y)
  BY <1>13, <1>15, DropCopiesGood
<1>17. Good(u, W, weak) /\ Lessened(u, z)
  BY <1>15, <1>16, ReconcileGood
<1>18. SameSettings(u, l)
  BY <1>2, <1>13, <1>15, <1>16, <1>17 DEF Lessened, SameSettings
<1> QED BY <1>14, <1>15, <1>17, <1>18

-----------------------------------------------------------------------------
(* Opening the storage.                                                    *)

LEMMA GoodWeaker ==
    ASSUME NEW W, NEW l, Good(l, W, FALSE), NEW weak \in BOOLEAN
    PROVE  Good(l, W, weak)
BY DEF Good, Covered, CoveredBy

LEMMA PreparedAcceptable ==
    ASSUME NEW W, NEW f, Acceptable(f, W, FALSE), NEW l, NEW weak \in BOOLEAN, weak = l.repairing
    PROVE  Acceptable(Prepared(l, f), W, weak)
<1>1. PICK g : g = Prepared(l, f)
  OBVIOUS
<1>2. f \in Files(W) /\ FileWhole(f)
  BY DEF Acceptable
<1>3. g \in Files(W) /\ OtherFacts(g, f) /\ g.facts = IF l.repairing THEN AllRepaired(f.facts) ELSE f.facts
  <2>1. l.repairing \in BOOLEAN
    OBVIOUS
  <2> QED BY <1>1, <1>2, <2>1, PreparedDoes
<1>4. FileWhole(g) /\ Details(g) = Details(f)
  BY <1>2, <1>3 DEF FileWhole, OtherFacts, Details
<1>5. DOMAIN g.facts = DOMAIN f.facts
  <2>1. f.facts \in Facts
    BY <1>2, FileType
  <2> QED BY <1>3, <2>1, AllRepairedType
<1>7. CASE f.quota /\ Covered(Range(Details(f)), f.facts, f.deleted, FALSE)
  <2>1. ASSUME NEW r \in Range(Details(g)), Shown(r) PROVE CoveredBy(r, g.facts, g.deleted, weak)
    <3>1. CoveredBy(r, f.facts, f.deleted, FALSE)
      BY <1>4, <1>7, <2>1 DEF Covered
    <3>2. weak \/ g.facts[RecordID(r)] = r.doubled
      BY <1>3, <3>1 DEF CoveredBy
    <3> QED BY <1>3, <1>5, <3>1, <3>2 DEF CoveredBy, OtherFacts
  <2>2. Covered(Range(Details(g)), g.facts, g.deleted, weak)
    BY <2>1 DEF Covered
  <2> QED BY <1>1, <1>3, <1>4, <1>7, <2>2 DEF Acceptable, OtherFacts
<1>8. CASE ~(f.quota /\ Covered(Range(Details(f)), f.facts, f.deleted, FALSE))
  <2>1. ~f.quota /\ DOMAIN f.facts = {} /\ DOMAIN f.deleted = {} /\ Range(Details(f)) \subseteq EarlierRecords
    BY <1>8 DEF Acceptable
  <2> QED BY <1>1, <1>3, <1>4, <1>5, <2>1 DEF Acceptable, OtherFacts
<1> QED BY <1>7, <1>8

(* The facts and tombstones of l are those of the snapshot, or there are   *)
(* none yet.                                                               *)
Openable(l, f, W) ==
    f = NoFile \/ (Acceptable(f, W, FALSE) /\ (f.quota \/ (DOMAIN l.facts = {} /\ DOMAIN l.deleted = {})))

LEMMA OpenedGood ==
    ASSUME NEW W, clock \in Nat, NEW l, Good(l, W, FALSE), NEW f, Openable(l, f, W), NEW rs \in Seq(Lines(W))
    PROVE  Good(Opened(l, f, rs), W, l.repairing) /\ SameSwitches(Opened(l, f, rs), l)
<1>1. l \in Ledgers(W)
  BY DEF Good
<1>2. PICK weak \in BOOLEAN : weak = l.repairing
  BY <1>1, LedgerType
<1>3. Good(l, W, weak) /\ clock \in Int
  <2>1. Good(l, W, weak)
    BY GoodWeaker
  <2>2. clock \in Int
    OBVIOUS
  <2> QED BY <2>1, <2>2
<1>4. CASE f = NoFile
  <2>1. PICK m, z : z = 0 /\ m = Replay(l, z, rs)
    OBVIOUS
  <2>2. z \in Nat
    BY <2>1
  <2>3. Good(m, W, weak) /\ SameSettings(m, l)
    BY <1>3, <2>1, <2>2, ReplayGood
  <2>4. Opened(l, f, rs) = m
    BY <1>4, <2>1 DEF Opened
  <2> QED BY <1>2, <2>3, <2>4 DEF SameSettings, SameSwitches
<1>5. CASE f # NoFile
  <2>1. Acceptable(f, W, FALSE) /\ (f.quota \/ (DOMAIN l.facts = {} /\ DOMAIN l.deleted = {}))
    BY <1>5 DEF Openable
  <2>2. PICK given : given = Prepared(l, f)
    OBVIOUS
  <2>3. Acceptable(given, W, weak)
    <3>1. Acceptable(Prepared(l, f), W, weak)
      BY <1>2, <2>1, PreparedAcceptable
    <3> QED BY <2>2, <3>1
  <2>4. f \in Files(W) /\ given \in Files(W) /\ given.quota = f.quota
    BY <1>2, <2>1, <2>2, PreparedDoes DEF Acceptable, OtherFacts
  <2>5. PICK base : base = IF l.counters[<<"all", 0>>].n # 0 THEN Merge(l, given, FALSE).l ELSE Restored(l, given)
    OBVIOUS
  <2>6. Good(base, W, weak) /\ SameSwitches(base, l)
    <3>1. CASE l.counters[<<"all", 0>>].n # 0
      <4>1. PICK persist \in BOOLEAN : persist = FALSE
        OBVIOUS
      <4>2. PICK out : out = Merge(l, given, persist)
        OBVIOUS
      <4>3. MergeMakes(out, l, W, weak)
        BY <1>3, <2>4, <4>2, MergeGood
      <4>4. base = out.l
        BY <2>5, <3>1, <4>1, <4>2
      <4> QED BY <4>3, <4>4 DEF MergeMakes, SameSettings, SameSwitches
    <3>2. CASE ~(l.counters[<<"all", 0>>].n # 0)
      <4>1. base = Restored(l, given)
        BY <2>5, <3>2
      <4>2. given.quota \/ (DOMAIN l.facts = {} /\ DOMAIN l.deleted = {})
        BY <2>1, <2>4
      <4> QED BY <1>1, <2>3, <4>1, <4>2, RestoredGood
    <3> QED BY <3>1, <3>2
  <2>7. PICK at \in Nat : at = f.at
    BY <2>4, FileType
  <2>8. PICK m : m = Replay(base, at, rs)
    OBVIOUS
  <2>9. Good(m, W, weak) /\ SameSettings(m, base)
    BY <1>3, <2>6, <2>8, ReplayGood
  <2>10. Opened(l, f, rs) = m
    BY <1>5, <2>2, <2>5, <2>7, <2>8 DEF Opened
  <2> QED BY <1>2, <2>6, <2>9, <2>10 DEF SameSettings, SameSwitches
<1> QED BY <1>4, <1>5

LEMMA SettledGood ==
    ASSUME NEW W, clock \in Int, NEW l, Good(l, W, l.repairing)
    PROVE  Good(Settled(l), W, FALSE) /\ Known(Settled(l)) /\ SameSettings(Settled(l), l)
<1>1. PICK a, b, c : a = RepairDoubled(l) /\ b = Prune(a) /\ c = PruneQuota(b)
  OBVIOUS
<1>2. PICK no \in BOOLEAN : no = FALSE
  OBVIOUS
<1>3. Good(a, W, no) /\ SameSettings(a, l)
  BY <1>1, <1>2, RepairDoubledGood
<1>4. Good(b, W, no) /\ Lessened(b, a) /\ Known(b)
  BY <1>1, <1>3, PruneGood
<1>5. b \in Ledgers(W)
  BY <1>4 DEF Good
<1>6. Good(c, W, no) /\ SameSettings(c, b) /\ Known(c)
  BY <1>1, <1>4, <1>5, PruneQuotaDoes
<1>7. Settled(l) = c
  BY <1>1 DEF Settled
<1> QED BY <1>2, <1>3, <1>4, <1>6, <1>7 DEF Lessened, SameSettings

LEMMA FreshGood ==
    ASSUME NEW W, NEW ret \in Retentions, NEW rep \in BOOLEAN
    PROVE  /\ Good(Fresh(ret, rep), W, FALSE) /\ Known(Fresh(ret, rep))
           /\ Fresh(ret, rep).facts = <<>> /\ Fresh(ret, rep).deleted = <<>>
           /\ Fresh(ret, rep).retention = ret /\ Fresh(ret, rep).repairing = rep
<1>1. PICK l : l = Fresh(ret, rep)
  OBVIOUS
<1>2. /\ l.visible = <<>> /\ l.archive = <<>> /\ l.counters = Zero /\ l.facts = <<>> /\ l.deleted = <<>>
      /\ l.cut = {} /\ l.retention = ret /\ l.repairing = rep
  BY <1>1 DEF Fresh
<1>3. <<>> \in Facts /\ <<>> \in Tombs
  <2>1. DOMAIN <<>> = {} /\ <<>> = [i \in {} |-> <<>>[i]]
    BY SMT
  <2> QED BY <2>1, FactsAre, TombsAre
<1>4. l \in Ledgers(W)
  <2>1. <<>> \in Seq(Recs(W)) /\ Zero \in Counters
    BY ZeroType
  <2> QED BY <1>1, <1>3, <2>1 DEF Fresh, Ledgers
<1>5. Details(l) = <<>> /\ Range(Details(l)) = {}
  <2>1. <<>> \o <<>> = <<>> /\ DOMAIN <<>> = {}
    BY SMT
  <2> QED BY <1>2, <2>1 DEF Details, Range
<1>6. ASSUME NEW d \in Plain, NEW k \in Kinds
      PROVE  Figure(Zero, d, k)
             = (Total(Weight(d, k), <<>>) + Total(Weight(d, k), <<>>)) + Total(Weight(d, k), CutRecords({}))
  <2>1. PICK w \in [LedgerRecords -> Nat] : w = Weight(d, k)
    BY WeightType
  <2>2. Total(w, <<>>) = 0
    BY TotalEmpty
  <2>3. CutRecords({}) = <<>>
    <3>1. Cardinality({}) = 0
      BY FS_EmptySet
    <3>2. PICK order : CutRecords({}) = [i \in 1..Cardinality({}) |-> Record(order[i], "none", order[i] \in Doubled, TRUE)]
      BY DEF CutRecords
    <3>3. CutRecords({}) = [i \in 1..0 |-> Record(order[i], "none", order[i] \in Doubled, TRUE)]
      BY <3>1, <3>2
    <3>4. PICK F : F = [i \in 1..0 |-> Record(order[i], "none", order[i] \in Doubled, TRUE)]
      OBVIOUS
    <3>5. F \in [1..0 -> LedgerRecords]
      BY <3>4
    <3>6. F \in Seq(LedgerRecords) /\ Len(F) = 0
      BY <3>5
    <3>7. F = <<>>
      BY <3>6, EmptySeq
    <3> QED BY <3>3, <3>4, <3>7
  <2>4. Figure(Zero, d, k) = 0
    BY ZeroType DEF Plain
  <2> QED BY <2>1, <2>2, <2>3, <2>4
<1>7. Balanced(l.visible, l.archive, l.counters, l.cut)
  BY <1>2, <1>6 DEF Balanced
<1>8. Good(l, W, FALSE) /\ Known(l)
  BY <1>4, <1>5, <1>7 DEF Good, Covered, Known
<1> QED BY <1>1, <1>2, <1>8

-----------------------------------------------------------------------------
(* What earlier versions left.                                             *)

LEMMA EarlierRecs ==
    ASSUME NEW W
    PROVE  EarlierRecords \subseteq Recs(W)
BY DEF EarlierRecords, Recs

LEMMA SequencesOf ==
    ASSUME NEW X, NEW Y, X \subseteq Y, NEW s \in Seq(X)
    PROVE  s \in Seq(Y)
OBVIOUS

LEMMA BackupAcceptable ==
    ASSUME NEW W, NEW f \in Backups
    PROVE  Acceptable(f, W, FALSE)
<1>1. /\ f \in [visible : Seq(EarlierRecords), archive : Seq(EarlierRecords),
                 counters : [Dims -> [n : Nat, tokens : Nat]], quota : {FALSE}, facts : {<<>>},
                 deleted : {<<>>}, cut : SUBSET Truncated, at : Nat]
      /\ TotalsMatch(f)
  BY HistoryAssumption
<1>2. /\ f.visible \in Seq(EarlierRecords) /\ f.archive \in Seq(EarlierRecords)
      /\ f.quota = FALSE /\ f.facts = <<>> /\ f.deleted = <<>>
  BY <1>1
<1>3. f.visible \in Seq(Recs(W)) /\ f.archive \in Seq(Recs(W)) /\ f.counters \in Counters
  BY <1>1, <1>2, EarlierRecs, SequencesOf DEF Counters, Counts
<1>4. <<>> \in Facts /\ <<>> \in Tombs /\ DOMAIN <<>> = {}
  <2>1. DOMAIN <<>> = {} /\ <<>> = [i \in {} |-> <<>>[i]]
    BY SMT
  <2> QED BY <2>1, FactsAre, TombsAre
<1>5. f \in Files(W)
  BY <1>1, <1>3, <1>4 DEF Files
<1>6. FileWhole(f)
  <2>1. f.visible \in Seq(LedgerRecords) /\ f.archive \in Seq(LedgerRecords) /\ f.cut \in SUBSET Truncated
    BY <1>5, FileType
  <2> QED BY <1>1, <1>3, <2>1, BalancedMatches DEF FileWhole
<1>7. Range(Details(f)) \subseteq EarlierRecords
  <2>1. Range(f.visible) \subseteq EarlierRecords /\ Range(f.archive) \subseteq EarlierRecords
    <3>1. \A s \in Seq(EarlierRecords) : Range(s) \subseteq EarlierRecords
      BY DEF Range
    <3> QED BY <1>2, <3>1
  <2> QED BY <1>5, <2>1, FileType
<1> QED BY <1>2, <1>4, <1>5, <1>6, <1>7 DEF Acceptable

LEMMA OldRowsType ==
    ASSUME NEW W, NEW rs \in OldRows
    PROVE  rs \in Seq(Lines(W))
<1>1. PICK X : X = [kind : {"detail"}, r : EarlierRecords, archived : BOOLEAN, day : 1..LedgerEnd]
  OBVIOUS
<1>2. rs \in Seq(X)
  BY <1>1, HistoryAssumption
<1>3. X \subseteq Lines(W)
  <2>1. \A d \in 1..LedgerEnd : d \in Nat
    BY LedgerAssumption
  <2>2. X \subseteq [kind : {"detail"}, r : Recs(W), archived : BOOLEAN, day : Nat]
    BY <1>1, <2>1, EarlierRecs
  <2> QED BY <2>2 DEF Lines
<1> QED BY <1>2, <1>3, SequencesOf

-----------------------------------------------------------------------------
(* More items may be written.                                              *)

LEMMA WrittenMore ==
    ASSUME NEW W, NEW V, W \subseteq V
    PROVE  /\ Recs(W) \subseteq Recs(V) /\ Ledgers(W) \subseteq Ledgers(V) /\ Files(W) \subseteq Files(V)
           /\ Seq(Lines(W)) \subseteq Seq(Lines(V))
<1>1. Recs(W) \subseteq Recs(V)
  BY DEF Recs
<1>2. Seq(Recs(W)) \subseteq Seq(Recs(V))
  BY <1>1, SequencesOf
<1>3. Ledgers(W) \subseteq Ledgers(V)
  BY <1>2 DEF Ledgers
<1>4. Files(W) \subseteq Files(V)
  BY <1>2 DEF Files
<1>5. Lines(W) \subseteq Lines(V)
  <2>1. [kind : {"detail"}, r : Recs(W), archived : BOOLEAN, day : Nat]
        \subseteq [kind : {"detail"}, r : Recs(V), archived : BOOLEAN, day : Nat]
    BY <1>1
  <2> QED BY <2>1 DEF Lines
<1>6. Seq(Lines(W)) \subseteq Seq(Lines(V))
  BY <1>5, SequencesOf
<1> QED BY <1>1, <1>3, <1>4, <1>6

LEMMA GoodMore ==
    ASSUME NEW W, NEW V, W \subseteq V, NEW l, NEW weak, Good(l, W, weak)
    PROVE  Good(l, V, weak)
BY WrittenMore DEF Good

LEMMA AcceptableMore ==
    ASSUME NEW W, NEW V, W \subseteq V, NEW f, NEW weak, Acceptable(f, W, weak)
    PROVE  Acceptable(f, V, weak)
BY WrittenMore DEF Acceptable

LEMMA SavedAcceptable ==
    ASSUME NEW W, NEW l, Good(l, W, FALSE), clock \in Nat
    PROVE  Acceptable(Saved(l), W, FALSE) /\ Saved(l).quota = TRUE
<1>1. PICK f : f = Saved(l)
  OBVIOUS
<1>2. l \in Ledgers(W) /\ f \in Files(W)
  BY <1>1, SavedDoes DEF Good
<1>3. /\ f.visible = l.visible /\ f.archive = l.archive /\ f.counters = l.counters /\ f.cut = l.cut
      /\ f.facts = l.facts /\ f.deleted = l.deleted /\ f.quota = TRUE
  BY <1>1 DEF Saved
<1>4. Details(f) = Details(l) /\ FileWhole(f)
  BY <1>3 DEF Details, FileWhole, Good
<1> QED BY <1>1, <1>2, <1>3, <1>4 DEF Acceptable, Good

-----------------------------------------------------------------------------
(* The inductive invariant: the counters of the ledger are balanced, its   *)
(* facts follow its records and its next expiry is known; what is on disk  *)
(* can be taken over; and a process that has not been configured has       *)
(* accounted nothing, so that a snapshot of an earlier version meets no    *)
(* facts of another origin.                                                *)
LedgerInv ==
    /\ clock \in Nat /\ moves \in Nat /\ written \subseteq Items /\ running \in BOOLEAN
    /\ Good(ledger, written, FALSE) /\ Known(ledger)
    /\ snapshot = NoFile \/ Acceptable(snapshot, written, FALSE)
    /\ file = NoFile \/ file \in Files(written)
    /\ rows \in Seq(Lines(written))
    /\ running \/ ledger = Fresh(ledger.retention, ledger.repairing)

LEMMA LedgerInitKeeps == LedgerInit => LedgerInv
<1> SUFFICES ASSUME LedgerInit PROVE LedgerInv
  OBVIOUS
<1>1. /\ clock = 1 /\ moves = 0 /\ written = {} /\ snapshot \in Backups \cup {NoFile} /\ rows \in OldRows
      /\ file = snapshot /\ running = FALSE
  BY DEF LedgerInit
<1>2. PICK ret \in Retentions, rep \in BOOLEAN : ledger = Fresh(ret, rep)
  BY DEF LedgerInit
<1>3. Good(ledger, written, FALSE) /\ Known(ledger) /\ ledger.retention = ret /\ ledger.repairing = rep
  BY <1>2, FreshGood
<1>4. snapshot = NoFile \/ Acceptable(snapshot, written, FALSE)
  BY <1>1, BackupAcceptable
<1>5. file = NoFile \/ file \in Files(written)
  BY <1>1, <1>4 DEF Acceptable
<1>6. rows \in Seq(Lines(written))
  BY <1>1, OldRowsType
<1> QED BY <1>1, <1>2, <1>3, <1>4, <1>5, <1>6 DEF LedgerInv

LEMMA LedgerSettings ==
    ASSUME LedgerInv
    PROVE  /\ ledger \in Ledgers(written) /\ ledger.retention \in Retentions /\ ledger.repairing \in BOOLEAN
           /\ clock \in Int /\ clock \in Nat /\ Good(ledger, written, FALSE) /\ Known(ledger)
<1>1. Good(ledger, written, FALSE) /\ clock \in Nat /\ Known(ledger)
  BY DEF LedgerInv
<1>2. ledger \in Ledgers(written)
  BY <1>1 DEF Good
<1>3. ledger.retention \in Retentions /\ ledger.repairing \in BOOLEAN
  BY <1>2, LedgerType
<1>4. clock \in Int
  BY <1>1
<1> QED BY <1>1, <1>2, <1>3, <1>4

LEMMA BeginKeeps ==
    ASSUME LedgerInv, Begin
    PROVE  LedgerInv'
<1>1. /\ ~running /\ running' = TRUE /\ ledger' = Settled(Opened(ledger, snapshot, rows))
      /\ UNCHANGED <<clock, snapshot, rows, file, written, moves>>
  BY DEF Begin
<1>2. clock \in Nat /\ Good(ledger, written, FALSE) /\ ledger.retention \in Retentions /\ ledger.repairing \in BOOLEAN
  BY LedgerSettings
<1>3. DOMAIN ledger.facts = {} /\ DOMAIN ledger.deleted = {}
  <2>1. ledger = Fresh(ledger.retention, ledger.repairing)
    BY <1>1 DEF LedgerInv
  <2>2. ledger.facts = <<>> /\ ledger.deleted = <<>>
    <3>1. PICK ret \in Retentions, rep \in BOOLEAN : ret = ledger.retention /\ rep = ledger.repairing
      BY <1>2
    <3>2. ledger = Fresh(ret, rep)
      BY <2>1, <3>1
    <3> QED BY <3>2, FreshGood
  <2>3. DOMAIN <<>> = {}
    BY SMT
  <2> QED BY <2>2, <2>3
<1>4. PICK l, f, rs, W : l = ledger /\ f = snapshot /\ rs = rows /\ W = written
  OBVIOUS
<1>5. Openable(l, f, W) /\ Good(l, W, FALSE) /\ rs \in Seq(Lines(W))
  BY <1>2, <1>3, <1>4 DEF LedgerInv, Openable
<1>6. PICK m : m = Opened(l, f, rs)
  OBVIOUS
<1>7. Good(m, W, l.repairing) /\ SameSwitches(m, l)
  BY <1>2, <1>5, <1>6, OpenedGood
<1>8. Good(m, W, m.repairing) /\ clock \in Int
  BY <1>2, <1>7 DEF SameSwitches
<1>9. PICK n : n = Settled(m)
  OBVIOUS
<1>10. Good(n, W, FALSE) /\ Known(n)
  BY <1>8, <1>9, SettledGood
<1>11. ledger' = n
  BY <1>1, <1>4, <1>6, <1>9
<1> QED BY <1>1, <1>4, <1>10, <1>11 DEF LedgerInv

LEMMA RecordUsageKeeps ==
    ASSUME LedgerInv, NEW x \in Items, RecordUsage(x)
    PROVE  LedgerInv'
<1>1. PICK detail : detail = Record(x, IF x \in Eligible THEN "own" ELSE "none", FALSE, TRUE)
  OBVIOUS
<1>2. PICK no \in BOOLEAN : no = FALSE
  OBVIOUS
<1>3. PICK l, added : l = ledger /\ added = Insert(l, detail, no)
  OBVIOUS
<1>4. PICK due : due = (l.retention > 0 /\ (added.expiry = Unset \/ clock >= added.expiry))
  OBVIOUS
<1>5. PICK a, b, c : a = (IF due THEN Pruned(added, no) ELSE added) /\ b = Trim(a) /\ c = PruneQuota(b)
  OBVIOUS
<1>6. /\ running /\ x \in Items \ (Earlier \cup written)
      /\ ledger' = c /\ rows' = Append(rows, DetailRow(detail, no)) /\ written' = written \cup {x}
      /\ UNCHANGED <<clock, snapshot, file, running, moves>>
  BY <1>1, <1>2, <1>3, <1>4, <1>5 DEF RecordUsage
<1>7. PICK W, V : W = written /\ V = W \cup {x}
  OBVIOUS
<1>8. clock \in Nat /\ clock \in Int /\ Good(l, W, FALSE) /\ l \in Ledgers(W) /\ Known(l)
  BY <1>3, <1>7, LedgerSettings
<1>9. Good(l, V, no) /\ W \subseteq V
  BY <1>2, <1>7, <1>8, GoodMore
<1>10. detail.x = x /\ detail.id = IF x \in Eligible THEN "own" ELSE "none"
  BY <1>1 DEF Record
<1>11. Named(detail, V)
  <2>1. detail \in LedgerRecords
    BY <1>1 DEF Record, LedgerRecords
  <2> QED BY <1>7, <1>10, <2>1 DEF Named, Recs, HasID
<1>12. Agrees(l, detail, no)
  <2>1. ASSUME HasID(detail), RecordID(detail) \in IDs(l) PROVE FALSE
    <3>1. detail.id = "own"
      BY <1>10, <2>1 DEF HasID
    <3>2. PICK s \in Range(Details(l)) : RecordID(detail) = RecordID(s)
      BY <2>1 DEF IDs
    <3>3. s.x = x /\ s.id = "own"
      BY <1>10, <3>1, <3>2 DEF RecordID
    <3>4. s \in Recs(W)
      BY <1>8, LedgerType
    <3> QED BY <1>6, <1>7, <3>3, <3>4 DEF Recs
  <2>2. l \in Ledgers(V)
    BY <1>9 DEF Good
  <2> QED BY <1>11, <2>1, <2>2, NamedAgrees
<1>13. detail \in Recs(V)
  BY <1>11 DEF Named
<1>14. Good(added, V, no) /\ (Known(l) => Known(added))
  BY <1>3, <1>9, <1>12, <1>13, InsertGood
<1>15. Good(a, V, no) /\ Known(a)
  <2>1. CASE due
    <3>1. Good(Pruned(added, no), V, no) /\ Known(Pruned(added, no))
      BY <1>8, <1>14, PrunedGood
    <3> QED BY <1>5, <2>1, <3>1
  <2>2. CASE ~due
    BY <1>5, <1>8, <1>14, <2>2
  <2> QED BY <2>1, <2>2
<1>16. Good(b, V, no) /\ Known(b)
  BY <1>5, <1>15, TrimGood
<1>17. Good(c, V, no) /\ Known(c)
  <2>1. b \in Ledgers(V)
    BY <1>16 DEF Good
  <2> QED BY <1>5, <1>8, <1>16, <2>1, PruneQuotaDoes
<1>18. rows' \in Seq(Lines(V))
  <2>1. DetailRow(detail, no) \in Lines(V)
    BY <1>8, <1>13, LineType
  <2>2. rows \in Seq(Lines(V))
    BY <1>7, <1>9, WrittenMore DEF LedgerInv
  <2> QED BY <1>6, <2>1, <2>2, AppendProperties
<1>19. snapshot = NoFile \/ Acceptable(snapshot, V, FALSE)
  BY <1>7, <1>9, AcceptableMore DEF LedgerInv
<1>20. file = NoFile \/ file \in Files(V)
  BY <1>7, <1>9, WrittenMore DEF LedgerInv
<1>21. written' = V /\ V \subseteq Items
  BY <1>6, <1>7 DEF LedgerInv
<1> QED BY <1>2, <1>6, <1>17, <1>18, <1>19, <1>20, <1>21 DEF LedgerInv

(* What Query, Export and SaveSnapshot make of the ledger.                 *)
LEMMA RefreshedGood ==
    ASSUME NEW W, clock \in Int, NEW l, Good(l, W, FALSE), Known(l)
    PROVE  /\ Good(PruneQuota(PruneExpired(l)), W, FALSE) /\ Known(PruneQuota(PruneExpired(l)))
           /\ Good(PruneExpired(l), W, FALSE) /\ Known(PruneExpired(l))
<1>1. PICK a, b : a = PruneExpired(l) /\ b = PruneQuota(a)
  OBVIOUS
<1>2. PICK no \in BOOLEAN : no = FALSE
  OBVIOUS
<1>3. Good(a, W, no) /\ Known(a)
  BY <1>1, <1>2, PruneExpiredGood
<1>4. a \in Ledgers(W)
  BY <1>3 DEF Good
<1>5. Good(b, W, no) /\ Known(b)
  BY <1>1, <1>3, <1>4, PruneQuotaDoes
<1> QED BY <1>1, <1>2, <1>3, <1>5

LEMMA QueryKeeps ==
    ASSUME LedgerInv, Query
    PROVE  LedgerInv'
<1>1. PICK m : m = PruneQuota(PruneExpired(ledger))
  OBVIOUS
<1>2. running /\ ledger' = m /\ UNCHANGED <<clock, snapshot, rows, file, written, running, moves>>
  BY <1>1 DEF Query
<1>3. Good(m, written, FALSE) /\ Known(m)
  BY <1>1, LedgerSettings, RefreshedGood
<1> QED BY <1>2, <1>3 DEF LedgerInv

LEMMA SpendKeeps ==
    ASSUME LedgerInv, Spend
    PROVE  running /\ moves' \in Nat
BY DEF LedgerInv, Spend

LEMMA ExportKeeps ==
    ASSUME LedgerInv, Export
    PROVE  LedgerInv'
<1>1. PICK l, a : l = PruneExpired(ledger) /\ a = (IF l.dirty THEN Reconcile(l) ELSE l)
  OBVIOUS
<1>2. PICK m, s : m = PruneQuota(a) /\ s = Saved(m)
  OBVIOUS
<1>3. Spend /\ ledger' = m /\ UNCHANGED <<clock, snapshot, rows, written, running>>
  BY <1>1, <1>2 DEF Export
<1>4. file' = s
  BY <1>2, <1>3 DEF Export
<1>5. PICK no \in BOOLEAN : no = FALSE
  OBVIOUS
<1>6. clock \in Int /\ clock \in Nat
  BY LedgerSettings
<1>7. Good(l, written, no) /\ Known(l)
  BY <1>1, <1>5, LedgerSettings, RefreshedGood
<1>8. Good(a, written, no) /\ Known(a)
  <2>1. CASE l.dirty
    <3>1. PICK z : z = Reconcile(l)
      OBVIOUS
    <3>2. Good(z, written, no) /\ (Known(l) => Known(z))
      BY <1>6, <1>7, <3>1, ReconcileGood
    <3> QED BY <1>1, <1>7, <2>1, <3>1, <3>2
  <2>2. CASE ~l.dirty
    BY <1>1, <1>7, <2>2
  <2> QED BY <2>1, <2>2
<1>9. Good(m, written, no) /\ Known(m)
  <2>1. a \in Ledgers(written)
    BY <1>8 DEF Good
  <2> QED BY <1>2, <1>6, <1>8, <2>1, PruneQuotaDoes
<1>10. s \in Files(written)
  BY <1>2, <1>5, <1>6, <1>9, SavedAcceptable DEF Acceptable
<1>11. running /\ moves' \in Nat
  BY <1>3, SpendKeeps
<1> QED BY <1>3, <1>4, <1>5, <1>9, <1>10, <1>11 DEF LedgerInv

LEMMA SaveSnapshotKeeps ==
    ASSUME LedgerInv, SaveSnapshot
    PROVE  LedgerInv'
<1>1. PICK m, s, rs : m = PruneQuota(PruneExpired(ledger)) /\ s = Saved(m) /\ rs = RowsOfToday
  OBVIOUS
<1>2. Spend /\ ledger' = m /\ rows' = rs /\ UNCHANGED <<clock, file, written, running>>
  BY <1>1 DEF SaveSnapshot
<1>3. snapshot' = s
  BY <1>1, <1>2 DEF SaveSnapshot
<1>4. Good(m, written, FALSE) /\ Known(m) /\ clock \in Nat
  BY <1>1, LedgerSettings, RefreshedGood
<1>5. Acceptable(s, written, FALSE)
  BY <1>1, <1>4, SavedAcceptable
<1>6. rs \in Seq(Lines(written))
  <2>1. PICK q, S : q = rows /\ RowsOfToday = Only(q, S)
    BY DEF RowsOfToday
  <2>2. q \in Seq(Lines(written))
    BY <2>1 DEF LedgerInv
  <2> QED BY <1>1, <2>1, <2>2, OnlyKeeps
<1>7. running /\ moves' \in Nat
  BY <1>2, SpendKeeps
<1> QED BY <1>2, <1>3, <1>4, <1>5, <1>6, <1>7 DEF LedgerInv

LEMMA ImportFileKeeps ==
    ASSUME LedgerInv, NEW f \in Backups \cup {file}, ImportFile(f)
    PROVE  LedgerInv'
<1>1. PICK given, l : given = Prepared(ledger, f) /\ l = ledger
  OBVIOUS
<1>2. PICK yes \in BOOLEAN, no \in BOOLEAN : yes = TRUE /\ no = FALSE
  OBVIOUS
<1>3. PICK merged : merged = Merge(l, given, yes)
  OBVIOUS
<1>4. PICK q : q = IF f.quota THEN <<QuotaRow(given)>> ELSE <<>>
  OBVIOUS
<1>5. /\ Spend /\ f # NoFile /\ ledger' = merged.l /\ rows' = rows \o q \o merged.fresh
      /\ UNCHANGED <<clock, snapshot, file, written, running>>
  BY <1>1, <1>2, <1>3, <1>4 DEF ImportFile
<1>6. PICK W : W = written
  OBVIOUS
<1>7. f \in Files(W)
  BY <1>5, <1>6, BackupAcceptable DEF LedgerInv, Acceptable
<1>8. clock \in Nat /\ Good(l, W, no) /\ l.repairing \in BOOLEAN
  BY <1>1, <1>2, <1>6, LedgerSettings
<1>9. given \in Files(W)
  BY <1>1, <1>7, <1>8, PreparedDoes
<1>10. MergeMakes(merged, l, W, no)
  BY <1>3, <1>8, <1>9, MergeGood
<1>11. rows' \in Seq(Lines(W))
  <2>1. QuotaRow(given) \in Lines(W)
    <3>1. given.facts \in Facts /\ given.deleted \in Tombs
      BY <1>9, FileType
    <3> QED BY <1>8, <3>1 DEF QuotaRow, Lines
  <2>2. q \in Seq(Lines(W))
    BY <1>4, <2>1
  <2>3. rows \in Seq(Lines(W)) /\ merged.fresh \in Seq(Lines(W))
    BY <1>6, <1>10 DEF LedgerInv, MergeMakes
  <2>4. PICK a, b : a = rows /\ b = merged.fresh
    OBVIOUS
  <2>5. (a \o q) \o b \in Seq(Lines(W))
    <3>1. PICK c : c = a \o q
      OBVIOUS
    <3>2. c \in Seq(Lines(W))
      BY <2>2, <2>3, <2>4, <3>1, ConcatRange
    <3> QED BY <2>3, <2>4, <3>1, <3>2, ConcatRange
  <2> QED BY <1>5, <2>4, <2>5
<1>12. running /\ moves' \in Nat
  BY <1>5, SpendKeeps
<1> QED BY <1>2, <1>5, <1>6, <1>10, <1>11, <1>12 DEF LedgerInv, MergeMakes

LEMMA ConfiguredGood ==
    ASSUME LedgerInv, NEW ret \in Retentions, NEW rep \in BOOLEAN
    PROVE  /\ Good(Configured(ret, rep), written, Configured(ret, rep).repairing)
           /\ Configured(ret, rep).repairing = rep
<1>1. PICK m : m = Configured(ret, rep)
  OBVIOUS
<1>2. ledger \in Ledgers(written) /\ Good(ledger, written, FALSE)
  BY LedgerSettings
<1>3. /\ m \in Ledgers(written) /\ m.repairing = rep /\ m.visible = ledger.visible
      /\ m.archive = ledger.archive /\ m.counters = ledger.counters /\ m.cut = ledger.cut
      /\ m.facts = ledger.facts /\ m.deleted = ledger.deleted
  BY <1>1, <1>2 DEF Configured, Ledgers
<1>4. Details(m) = Details(ledger)
  BY <1>3 DEF Details
<1>5. Good(m, written, FALSE)
  BY <1>2, <1>3, <1>4 DEF Good
<1>6. Good(m, written, m.repairing)
  BY <1>3, <1>5, GoodWeaker
<1> QED BY <1>1, <1>3, <1>6

LEMMA ConfigureKeeps ==
    ASSUME LedgerInv, NEW ret \in Retentions, NEW rep \in BOOLEAN, Configure(ret, rep)
    PROVE  LedgerInv'
<1>1. PICK l, m : l = Configured(ret, rep) /\ m = Settled(l)
  OBVIOUS
<1>2. Spend /\ ledger' = m /\ UNCHANGED <<clock, snapshot, rows, file, written, running>>
  BY <1>1 DEF Configure
<1>3. Good(l, written, l.repairing) /\ clock \in Int
  BY <1>1, ConfiguredGood, LedgerSettings
<1>4. Good(m, written, FALSE) /\ Known(m)
  BY <1>1, <1>3, SettledGood
<1>5. running /\ moves' \in Nat
  BY <1>2, SpendKeeps
<1> QED BY <1>2, <1>4, <1>5 DEF LedgerInv

LEMMA ReopenKeeps ==
    ASSUME LedgerInv, NEW ret \in Retentions, NEW rep \in BOOLEAN, Reopen(ret, rep)
    PROVE  LedgerInv'
<1>1. PICK l, a, b, c : /\ l = Configured(ret, rep) /\ a = RepairDoubled(l) /\ b = PruneExpired(a)
                        /\ c = PruneQuota(b)
  OBVIOUS
<1>2. PICK s, rs : s = Saved(c) /\ rs = RowsOfToday
  OBVIOUS
<1>3. Spend /\ snapshot' = s /\ rows' = rs /\ UNCHANGED <<clock, file, written, running>>
  BY <1>1, <1>2 DEF Reopen
<1>4. PICK o, m : o = Opened(c, s, rs) /\ m = Settled(o)
  OBVIOUS
<1>5. ledger' = m
  BY <1>1, <1>2, <1>3, <1>4 DEF Reopen
<1>6. PICK no \in BOOLEAN : no = FALSE
  OBVIOUS
<1>7. Good(l, written, l.repairing) /\ clock \in Int /\ clock \in Nat
  BY <1>1, <1>6, ConfiguredGood, LedgerSettings
<1>8. Good(a, written, no)
  BY <1>1, <1>6, <1>7, RepairDoubledGood
<1>9. Good(b, written, no)
  BY <1>1, <1>7, <1>8, PruneExpiredGood
<1>10. Good(c, written, no)
  <2>1. b \in Ledgers(written)
    BY <1>9 DEF Good
  <2> QED BY <1>1, <1>7, <1>9, <2>1, PruneQuotaDoes
<1>11. Acceptable(s, written, no) /\ s.quota = TRUE
  BY <1>2, <1>6, <1>7, <1>10, SavedAcceptable
<1>12. rs \in Seq(Lines(written))
  <2>1. PICK q, S : q = rows /\ RowsOfToday = Only(q, S)
    BY DEF RowsOfToday
  <2>2. q \in Seq(Lines(written))
    BY <1>6, <2>1 DEF LedgerInv
  <2> QED BY <1>2, <2>1, <2>2, OnlyKeeps
<1>13. Openable(c, s, written) /\ Good(c, written, FALSE)
  BY <1>6, <1>10, <1>11 DEF Openable
<1>14. Good(o, written, c.repairing) /\ SameSwitches(o, c)
  BY <1>4, <1>7, <1>12, <1>13, OpenedGood
<1>15. Good(o, written, o.repairing)
  BY <1>14 DEF SameSwitches
<1>16. Good(m, written, FALSE) /\ Known(m)
  BY <1>4, <1>7, <1>15, SettledGood
<1>17. running /\ moves' \in Nat
  BY <1>3, SpendKeeps
<1> QED BY <1>3, <1>5, <1>6, <1>11, <1>12, <1>16, <1>17 DEF LedgerInv

LEMMA StopKeeps ==
    ASSUME LedgerInv, Stop
    PROVE  LedgerInv'
<1>1. PICK ret \in Retentions, rep \in BOOLEAN : ret = ledger.retention /\ rep = ledger.repairing
  BY LedgerSettings
<1>2. PICK m : m = Fresh(ret, rep)
  OBVIOUS
<1>3. Spend /\ running' = FALSE /\ ledger' = m /\ UNCHANGED <<clock, snapshot, rows, file, written>>
  BY <1>1, <1>2 DEF Stop
<1>4. Good(m, written, FALSE) /\ Known(m) /\ m.retention = ret /\ m.repairing = rep
  BY <1>2, FreshGood
<1>5. m = Fresh(m.retention, m.repairing)
  BY <1>2, <1>4
<1>6. moves' \in Nat
  BY <1>3, SpendKeeps
<1> QED BY <1>3, <1>4, <1>5, <1>6 DEF LedgerInv

LEMMA LedgerNextKeeps ==
    ASSUME LedgerInv, [LedgerNext]_ledgerVars
    PROVE  LedgerInv'
<1>1. ASSUME NEW x \in Items, RecordUsage(x) PROVE LedgerInv'
  BY <1>1, RecordUsageKeeps
<1>2. CASE Begin
  BY <1>2, BeginKeeps
<1>3. CASE Stop
  BY <1>3, StopKeeps
<1>4. CASE Export
  BY <1>4, ExportKeeps
<1>5. CASE Query
  BY <1>5, QueryKeeps
<1>6. CASE SaveSnapshot
  BY <1>6, SaveSnapshotKeeps
<1>7. CASE Tick
  <2>1. clock' = clock + 1 /\ UNCHANGED <<ledger, snapshot, rows, file, written, running, moves>>
    BY <1>7 DEF Tick
  <2>2. clock' \in Nat
    BY <2>1 DEF LedgerInv
  <2> QED BY <2>1, <2>2 DEF LedgerInv
<1>8. ASSUME NEW f \in Backups \cup {file}, ImportFile(f) PROVE LedgerInv'
  BY <1>8, ImportFileKeeps
<1>9. ASSUME NEW ret \in Retentions, NEW rep \in BOOLEAN, Configure(ret, rep) PROVE LedgerInv'
  BY <1>9, ConfigureKeeps
<1>10. ASSUME NEW ret \in Retentions, NEW rep \in BOOLEAN, Reopen(ret, rep) PROVE LedgerInv'
  BY <1>10, ReopenKeeps
<1>11. CASE UNCHANGED ledgerVars
  BY <1>11 DEF ledgerVars, LedgerInv
<1> QED BY <1>1, <1>2, <1>3, <1>4, <1>5, <1>6, <1>7, <1>8, <1>9, <1>10, <1>11 DEF LedgerNext

(* Every reachable state satisfies the invariant, whatever records are     *)
(* written, whatever earlier versions left, however often files are        *)
(* imported and the process restarts.                                      *)
THEOREM LedgerKept == LedgerSpec => []LedgerInv
<1>1. LedgerInv /\ [LedgerNext]_ledgerVars => LedgerInv'
  BY LedgerNextKeeps
<1> QED BY <1>1, LedgerInitKeeps, PTL DEF LedgerSpec

-----------------------------------------------------------------------------
(* The properties.                                                         *)

(* Every counter of all requests and of a day is what the records that are *)
(* left add up to, with what earlier versions counted without keeping.     *)
THEOREM LedgerCountersMatch == LedgerSpec => []CountersMatch
<1>1. LedgerInv => CountersMatch
  <2> SUFFICES ASSUME LedgerInv PROVE CountersMatch
    OBVIOUS
  <2>1. ledger \in Ledgers(written) /\ Good(ledger, written, FALSE)
    BY LedgerSettings
  <2>2. /\ ledger.visible \in Seq(LedgerRecords) /\ ledger.archive \in Seq(LedgerRecords)
        /\ ledger.counters \in Counters /\ ledger.cut \in SUBSET Truncated
    BY <2>1, LedgerType
  <2>3. Balanced(ledger.visible, ledger.archive, ledger.counters, ledger.cut)
    BY <2>1 DEF Good
  <2>4. PICK l : l = ledger
    OBVIOUS
  <2>5. TotalsMatch(l)
    BY <2>2, <2>3, <2>4, BalancedMatches
  <2> QED BY <2>4, <2>5 DEF CountersMatch
<1> QED BY <1>1, LedgerKept, PTL

(* No record outlives retention unnoticed.                                 *)
THEOREM LedgerExpiryKnown == LedgerSpec => []ExpiryKnown
<1>1. LedgerInv => ExpiryKnown
  BY DEF LedgerInv, Known, ExpiryKnown
<1> QED BY <1>1, LedgerKept, PTL

(* Each eligible record of the quota period that is shown has a fact with  *)
(* its tokens, under an identity that is not deleted.                      *)
THEOREM LedgerFactsFollow == LedgerSpec => []FactsFollow
<1>1. LedgerInv => FactsFollow
  <2> SUFFICES ASSUME LedgerInv PROVE FactsFollow
    OBVIOUS
  <2>1. Covered(Range(Details(ledger)), ledger.facts, ledger.deleted, FALSE)
    BY DEF LedgerInv, Good
  <2>2. ASSUME NEW r \in Range(Details(ledger)), r.x \in Eligible, At[r.x] >= PeriodStart
        PROVE  /\ RecordID(Legacy(r)) \in DOMAIN ledger.facts
               /\ ledger.facts[RecordID(Legacy(r))] = r.doubled
               /\ RecordID(Legacy(r)) \notin DOMAIN ledger.deleted
    <3>1. CoveredBy(r, ledger.facts, ledger.deleted, FALSE)
      BY <2>1, <2>2 DEF Covered, Shown
    <3>2. Legacy(r) = r
      BY <3>1 DEF CoveredBy, Legacy
    <3> QED BY <3>1, <3>2 DEF CoveredBy
  <2> QED BY <2>2 DEF FactsFollow
<1> QED BY <1>1, LedgerKept, PTL

(* The facts that the next process finds in a snapshot it can take over do *)
(* not contradict the records of the period in it.                         *)
LEMMA NextProcessAccepts ==
    ASSUME NEW W, NEW f, Acceptable(f, W, FALSE), NEW next, next.facts = <<>>, next.repairing \in BOOLEAN
    PROVE  LET given == Prepared(next, f)
           IN  ~FactsClash(given, next) /\ \A r \in Conflicting(given, next) : At[r.x] < PeriodStart
<1>1. PICK given : given = Prepared(next, f)
  OBVIOUS
<1>2. DOMAIN next.facts = {}
  <2>1. DOMAIN <<>> = {}
    BY SMT
  <2> QED BY <2>1
<1>3. ~FactsClash(given, next)
  BY <1>2 DEF FactsClash
<1>4. f \in Files(W)
  BY DEF Acceptable
<1>5. OtherFacts(given, f) /\ given.facts = IF next.repairing THEN AllRepaired(f.facts) ELSE f.facts
  BY <1>1, <1>4, PreparedDoes
<1>6. f.facts \in Facts /\ Range(Details(f)) \subseteq Recs(W) /\ Details(given) = Details(f)
  BY <1>4, <1>5, FileType DEF OtherFacts, Details
<1>7. ASSUME NEW r \in Conflicting(given, next), ~(At[r.x] < PeriodStart) PROVE FALSE
  <2>1. r \in Range(Details(f)) /\ r.x \in Eligible
    BY <1>6 DEF Conflicting
  <2>2. RecordID(r) \in DOMAIN given.facts /\ given.facts[RecordID(r)] # Repaired(next, r).doubled
    BY <1>2 DEF Conflicting
  <2>3. Shown(r) /\ r \in Recs(W)
    <3>1. r \in Recs(W)
      BY <1>6, <2>1
    <3>2. At[r.x] \in Nat /\ PeriodStart \in Int
      BY <3>1, RecordTime, LedgerAssumption
    <3>3. At[r.x] >= PeriodStart
      BY <1>7, <3>2
    <3> QED BY <2>1, <3>1, <3>3 DEF Shown
  <2>4. DOMAIN given.facts = DOMAIN f.facts
    BY <1>5, <1>6, AllRepairedType
  <2>5. f.quota /\ Covered(Range(Details(f)), f.facts, f.deleted, FALSE)
    BY <2>2, <2>4 DEF Acceptable
  <2>6. f.facts[RecordID(r)] = r.doubled
    BY <2>1, <2>3, <2>5 DEF Covered, CoveredBy
  <2>7. CASE ~next.repairing
    <3>1. Repaired(next, r) = r /\ given.facts = f.facts
      BY <1>5, <2>7 DEF Repaired
    <3> QED BY <2>2, <2>6, <3>1
  <2>8. CASE next.repairing
    <3>1. PICK q : q = [r EXCEPT !.doubled = FALSE]
      OBVIOUS
    <3>2. q.doubled = FALSE
      BY <2>3, <3>1 DEF Recs, LedgerRecords
    <3>3. Repaired(next, r) = q /\ given.facts = AllRepaired(f.facts)
      BY <1>5, <2>8, <3>1 DEF Repaired
    <3>4. given.facts[RecordID(r)] = FALSE
      BY <1>6, <2>2, <2>4, <3>3, AllRepairedType
    <3> QED BY <2>2, <3>2, <3>3, <3>4
  <2> QED BY <2>7, <2>8
<1> QED BY <1>1, <1>3, <1>7

(* No record of the period keeps the next process from taking the snapshot *)
(* on disk.                                                                *)
THEOREM LedgerSnapshotAccepted == LedgerSpec => []SnapshotAccepted
<1>1. LedgerInv => SnapshotAccepted
  <2> SUFFICES ASSUME LedgerInv PROVE SnapshotAccepted
    OBVIOUS
  <2>1. ledger.retention \in Retentions
    BY LedgerSettings
  <2>2. ASSUME snapshot # NoFile, NEW rep \in BOOLEAN
        PROVE  LET next  == Fresh(ledger.retention, rep)
                   given == Prepared(next, snapshot)
               IN  ~FactsClash(given, next) /\ \A r \in Conflicting(given, next) : At[r.x] < PeriodStart
    <3>1. Acceptable(snapshot, written, FALSE)
      BY <2>2 DEF LedgerInv
    <3>2. PICK next, f, W : next = Fresh(ledger.retention, rep) /\ f = snapshot /\ W = written
      OBVIOUS
    <3>3. next.facts = <<>> /\ next.repairing \in BOOLEAN
      BY <2>1, <3>2, FreshGood
    <3>4. Acceptable(f, W, FALSE)
      BY <3>1, <3>2
    <3>5. PICK given : given = Prepared(next, f)
      OBVIOUS
    <3>6. ~FactsClash(given, next) /\ \A r \in Conflicting(given, next) : At[r.x] < PeriodStart
      BY <3>3, <3>4, <3>5, NextProcessAccepts
    <3> QED BY <3>2, <3>5, <3>6
  <2> QED BY <2>2 DEF SnapshotAccepted
<1> QED BY <1>1, LedgerKept, PTL
=============================================================================
